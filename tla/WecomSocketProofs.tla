-------------------------- MODULE WecomSocketProofs --------------------------
(***************************************************************************)
(* Proofs about WecomSocket, for any senders and any bounds: a reply is    *)
(* reported as the gateway answered that very reply, over any number of    *)
(* connections and whatever is lost, late or out of turn; and, at the end, *)
(* about QqGateway: a reply is not posted under a token that expires on    *)
(* the way.                                                                *)
(***************************************************************************)
EXTENDS MCConnectors, TLAPS

\* A request is new until it is written; then it is asked at most once.
New(s) == at[s] \in {"register", "write"}
Underway == {"write", "wait", "return"}      \* registered in the pending map

Shapes ==
    /\ at \in [Senders -> {"idle", "register"} \cup Underway]
    /\ sends \in 0 .. MaxSends /\ id \in [Senders -> 0 .. sends]
    /\ ack \in [Senders -> BOOLEAN \cup {None}]
    /\ result \in [Senders -> {"sent", "refused", "timeout", "error", None}]
    /\ frames \in Seq(Frame)
    /\ asked \subseteq 0 .. sends /\ accepted \subseteq 1 .. sends
    /\ loop = "resolve" => found \in [req : 1 .. sends, ok : BOOLEAN]

\* The socket of the loop is the only one that can be open, or up.
Sockets ==
    /\ sock \in Nat /\ conn \in 0 .. sock /\ via \in [Senders -> 0 .. sock]
    /\ open \subseteq {sock} /\ up \subseteq {sock}
    /\ loop \in {"none", "top", "dial", "backoff", "ended"} => open = {}
    /\ loop = "none" \/ started \/ told

\* A Send under way has an id of its own; an idle one has kept nothing.
Numbered ==
    /\ \A s \in Senders : at[s] # "idle" => id[s] \in 1 .. sends
    /\ \A s, t \in Senders : at[s] # "idle" /\ id[s] = id[t] => s = t
    /\ \A s \in Senders : at[s] = "idle" => ack[s] = None
    /\ \A s \in Senders : at[s] # "return" => result[s] = None

Registered == pending = {id[s] : s \in {s \in Senders : at[s] \in Underway}}

\* The gateway has not answered what is still asked, nor what is not written.
AskedOnce ==
    /\ asked \cap accepted = {}
    /\ \A s \in Senders : New(s) => id[s] \notin asked \cup accepted

\* An answer, wherever it is, is to a request that was written and is not asked
\* any more, and says what the gateway did.
Tells(r, ok) ==
    /\ r \in 1 .. sends /\ r \notin asked /\ (ok <=> r \in accepted)
    /\ \A s \in Senders : New(s) => id[s] # r

FramesTell ==
    \A i \in DOMAIN frames :
      frames[i].req \in 1 .. MaxSends => Tells(frames[i].req, frames[i].ok)
FoundTells == loop = "resolve" => Tells(found.req, found.ok)
AcksTell == \A s \in Senders : ack[s] # None => Tells(id[s], ack[s])
Answers == FramesTell /\ FoundTells /\ AcksTell

Reported ==
    \A s \in Senders :
      /\ result[s] = "sent" => Tells(id[s], TRUE)
      /\ result[s] = "refused" => Tells(id[s], FALSE)

IInv == Shapes /\ Sockets /\ Numbered /\ Registered /\ AskedOnce /\ Answers /\ Reported

-----------------------------------------------------------------------------
\* The steps that only move the connector: neither a Send nor the gateway does.
Quiet ==
    \/ Start \/ Stop \/ Look \/ DialFails \/ SetConn \/ WaitAuthFails \/ Poll \/ ReadEnds
    \/ Leave

LEMMA QuietLeavesTheRest ==
    Quiet => /\ UNCHANGED <<found, frames, asked, accepted, pending, ack, at, id, sends, result>>
             /\ via' = via
             /\ loop' = "resolve" => loop = "resolve"
BY DEF Quiet, Start, Stop, Look, DialFails, SetConn, WaitAuthFails, Poll, ReadEnds, Leave,
       gateway, sender

LEMMA InitInv == Init => IInv
<1> SUFFICES ASSUME Init PROVE IInv
  OBVIOUS
<1>1. Shapes /\ Sockets
  BY ConstantsAssumption DEF ConstantsAssumption, Init, Shapes, Sockets, Underway
<1>2. Numbered /\ Registered /\ AskedOnce
  BY ConstantsAssumption
     DEF ConstantsAssumption, Init, Numbered, Registered, AskedOnce, Underway, New
<1>3. DOMAIN frames = {}
  BY DEF Init
<1>4. Answers /\ Reported
  BY <1>3, ConstantsAssumption
     DEF ConstantsAssumption, Init, Answers, FramesTell, FoundTells, AcksTell, Reported
<1> QED
  BY <1>1, <1>2, <1>4 DEF IInv

LEMMA FrameSays == \A f \in Frame : f.ok \in BOOLEAN
<1>1. \A f \in [req : Reqs, ok : BOOLEAN] : f.ok \in BOOLEAN
  OBVIOUS
<1>2. Other.ok \in BOOLEAN
  BY DEF Other
<1> QED
  BY <1>1, <1>2 DEF Frame

\* Every step keeps the shapes; a resolving loop has found an answer.
LEMMA ShapesStep ==
    ASSUME Shapes, Sockets, Numbered, Registered, [Next]_vars
    PROVE  Shapes'
<1>1. CASE Quiet
  BY <1>1, QuietLeavesTheRest
     DEF Shapes, Underway
<1>2. CASE Dial
  BY <1>2, ConstantsAssumption
     DEF Dial, Shapes, Underway, ConstantsAssumption, connector, gateway, sender
<1>3. CASE Subscribe
<2>1. asked' \subseteq 0 .. sends
  <3>1. Auth \in 0 .. sends
    BY ConstantsAssumption DEF Shapes, ConstantsAssumption, Auth
  <3>2. asked' \subseteq asked \cup {Auth}
    BY <1>3 DEF Subscribe, Arrives
  <3> QED
    BY <3>1, <3>2 DEF Shapes
<2> QED
  BY <1>3, <2>1 DEF Subscribe, Shapes, sender
<1>4. CASE WaitAuth
<2>1. frames' \in Seq(Frame) /\ loop' # "resolve"
  BY <1>4 DEF WaitAuth, Shapes
<2> QED
  BY <1>4, <2>1 DEF WaitAuth, Shapes, sender
<1>5. CASE Read
<2>1. frames' \in Seq(Frame) /\ Head(frames) \in Frame
  BY <1>5 DEF Read, Shapes
<2>2. loop' = "resolve" => \E r \in pending : found' = [req |-> r, ok |-> Head(frames).ok]
  BY <1>5 DEF Read, Lookup
<2>3. \A r \in pending : r \in 1 .. sends
  <3>1. \A t \in Senders : at[t] \in Underway => id[t] \in 1 .. sends
    BY DEF Numbered, Underway
  <3> QED
    BY <3>1 DEF Registered
<2>4. Head(frames).ok \in BOOLEAN
  BY <2>1, FrameSays
<2>5. loop' = "resolve" => found' \in [req : 1 .. sends, ok : BOOLEAN]
  BY <2>2, <2>3, <2>4
<2>6. UNCHANGED <<at, sends, id, ack, result, asked, accepted>>
  BY <1>5 DEF Read, sender
<2> QED
  BY <2>1, <2>5, <2>6 DEF Shapes
<1>6. CASE Resolve
  BY <1>6, ConstantsAssumption
     DEF Resolve, Owner, Shapes, Underway, ConstantsAssumption, connector, gateway,
         sender
<1>7. ASSUME NEW s \in Senders, Current(s) PROVE Shapes'
<2>1. sends' = sends + 1 /\ sends' \in 0 .. MaxSends /\ sends' \in 0 .. sends'
  BY <1>7, ConstantsAssumption DEF Current, Shapes, ConstantsAssumption
<2>2. id' = [id EXCEPT ![s] = sends'] /\ at' = [at EXCEPT ![s] = "register"]
  BY <1>7 DEF Current
<2>3. \A n \in 0 .. sends : n \in 0 .. sends'
  BY <2>1 DEF Shapes
<2>4. id' \in [Senders -> 0 .. sends']
  BY <2>1, <2>2, <2>3 DEF Shapes
<2>5. asked \subseteq 0 .. sends' /\ accepted \subseteq 1 .. sends'
  BY <2>1 DEF Shapes
<2>6. loop = "resolve" => found \in [req : 1 .. sends', ok : BOOLEAN]
  BY <2>1 DEF Shapes
<2> QED
  BY <1>7, <2>1, <2>2, <2>4, <2>5, <2>6 DEF Current, Shapes, Underway, connector, gateway
<1>8. ASSUME NEW s \in Senders, Register(s) PROVE Shapes'
  BY <1>8, ConstantsAssumption
     DEF Register, Shapes, Underway, ConstantsAssumption, connector, gateway, sender
<1>9. ASSUME NEW s \in Senders, Write(s) PROVE Shapes'
<2>1. asked' \subseteq 0 .. sends
  <3>1. id[s] \in 0 .. sends
    BY DEF Shapes
  <3>2. asked' \subseteq asked \cup {id[s]}
    BY <1>9 DEF Write, Arrives
  <3> QED
    BY <3>1, <3>2 DEF Shapes
<2> QED
  BY <1>9, <2>1 DEF Write, Shapes, Underway, connector
<1>10. ASSUME NEW s \in Senders, Acked(s) PROVE Shapes'
  BY <1>10, ConstantsAssumption
     DEF Acked, Shapes, Underway, ConstantsAssumption, connector, gateway, sender
<1>11. ASSUME NEW s \in Senders, AckTimeout(s) PROVE Shapes'
  BY <1>11, ConstantsAssumption
     DEF AckTimeout, Shapes, Underway, ConstantsAssumption, connector, gateway, sender
<1>12. ASSUME NEW s \in Senders, Unregister(s) PROVE Shapes'
  BY <1>12, ConstantsAssumption
     DEF Unregister, Forget, Shapes, Underway, ConstantsAssumption, connector, gateway,
         sender
<1>13. ASSUME NEW r \in asked, NEW ok \in BOOLEAN, Answer(r, ok) PROVE Shapes'
<2>1. frames' = Append(frames, [req |-> r, ok |-> ok]) /\ asked' = asked \ {r}
  BY <1>13 DEF Answer
<2>2. accepted' = IF ok THEN accepted \cup ({r} \ {Auth}) ELSE accepted
  BY <1>13 DEF Answer
<2>3. r \in Nat /\ r <= sends
  <3>1. r \in 0 .. sends
    BY DEF Shapes
  <3> QED
    BY <3>1
<2>4. [req |-> r, ok |-> ok] \in Frame
  BY <2>3, ConstantsAssumption DEF Frame, Reqs, Shapes, ConstantsAssumption
<2>5. frames' \in Seq(Frame)
  BY <2>1, <2>4 DEF Shapes
<2>6. accepted' \subseteq 1 .. sends
  BY <2>2, <2>3 DEF Shapes, Auth
<2> QED
  BY <1>13, <2>1, <2>5, <2>6 DEF Answer, Shapes, connector, sender
<1>14. CASE Push
<2>1. frames' \in Seq(Frame)
  BY <1>14 DEF Push, Shapes, Frame
<2> QED
  BY <1>14, <2>1 DEF Push, Shapes, connector, sender
<1>15. CASE Drop
  BY <1>15, ConstantsAssumption
     DEF Drop, Shapes, Underway, ConstantsAssumption, connector, gateway, sender
<1>16. CASE UNCHANGED vars
  BY <1>16
     DEF Shapes, Underway, ConstantsAssumption, vars, connector, gateway, sender
<1> QED
  BY <1>1, <1>2, <1>3, <1>4, <1>5, <1>6, <1>7, <1>8, <1>9, <1>10, <1>11, <1>12, <1>13,
     <1>14, <1>15, <1>16
     DEF Next, LoopStep, SendStep, Quiet

\* A dial opens the next socket when none is open; who leaves closes its own.
LEMMA SocketsStep ==
    ASSUME Shapes, Sockets, [Next]_vars
    PROVE  Sockets'
<1>1. CASE Start
  BY <1>1
     DEF Start, Sockets, connector, gateway, sender
<1>2. CASE Stop
  BY <1>2
     DEF Stop, Sockets, connector, gateway, sender
<1>3. CASE Look
  BY <1>3
     DEF Look, Sockets, connector, gateway, sender
<1>4. CASE DialFails
  BY <1>4
     DEF DialFails, Sockets, connector, gateway, sender
<1>5. CASE SetConn
  BY <1>5
     DEF SetConn, Sockets, connector, gateway, sender
<1>6. CASE WaitAuthFails
  BY <1>6
     DEF WaitAuthFails, Sockets, connector, gateway, sender
<1>7. CASE Poll
  BY <1>7
     DEF Poll, WriteFails, Sockets, connector, gateway, sender
<1>8. CASE ReadEnds
  BY <1>8
     DEF ReadEnds, Sockets, connector, gateway, sender
<1>9. CASE Leave
  BY <1>9
     DEF Leave, Sockets, connector, gateway, sender
<1>10. CASE Dial
<2>1. sock' = sock + 1 /\ open' = {sock'} /\ up' = {sock'}
  BY <1>10 DEF Dial, Sockets
<2>2. sock' \in Nat /\ 0 .. sock \subseteq 0 .. sock'
  BY <2>1 DEF Sockets
<2>3. /\ loop' = "publish" /\ loop = "dial" /\ UNCHANGED <<conn, via, started, told>>
  BY <1>10 DEF Dial, sender
<2>4. via' \in [Senders -> 0 .. sock']
  BY <2>2, <2>3 DEF Sockets
<2> QED
  BY <2>1, <2>2, <2>3, <2>4 DEF Sockets
<1>11. CASE Subscribe
  BY <1>11
     DEF Subscribe, WriteFails, Arrives, Sockets, connector, gateway, sender
<1>12. CASE WaitAuth
  BY <1>12
     DEF WaitAuth, Sockets, connector, gateway, sender
<1>13. CASE Read
  BY <1>13
     DEF Read, Lookup, Sockets, connector, gateway, sender
<1>14. CASE Resolve
  BY <1>14
     DEF Resolve, Owner, Sockets, connector, gateway, sender
<1>15. ASSUME NEW s \in Senders, Current(s) PROVE Sockets'
<2>1. via' \in [Senders -> 0 .. sock]
  BY <1>15 DEF Current, Sockets
<2> QED
  BY <1>15, <2>1 DEF Current, Sockets, connector, gateway
<1>16. ASSUME NEW s \in Senders, Register(s) PROVE Sockets'
  BY <1>16
     DEF Register, Sockets, connector, gateway, sender
<1>17. ASSUME NEW s \in Senders, Write(s) PROVE Sockets'
  BY <1>17
     DEF Write, WriteFails, Arrives, Sockets, connector, gateway, sender
<1>18. ASSUME NEW s \in Senders, Acked(s) PROVE Sockets'
  BY <1>18
     DEF Acked, Sockets, connector, gateway, sender
<1>19. ASSUME NEW s \in Senders, AckTimeout(s) PROVE Sockets'
  BY <1>19
     DEF AckTimeout, Sockets, connector, gateway, sender
<1>20. ASSUME NEW s \in Senders, Unregister(s) PROVE Sockets'
<2>1. via' \in [Senders -> 0 .. sock]
  BY <1>20 DEF Unregister, Forget, Sockets
<2> QED
  BY <1>20, <2>1 DEF Unregister, Sockets, connector, gateway
<1>21. ASSUME NEW r \in asked, NEW ok \in BOOLEAN, Answer(r, ok) PROVE Sockets'
  BY <1>21
     DEF Answer, Sockets, connector, gateway, sender
<1>22. CASE Push
  BY <1>22
     DEF Push, Sockets, connector, gateway, sender
<1>23. CASE Drop
  BY <1>23
     DEF Drop, Sockets, connector, gateway, sender
<1>24. CASE UNCHANGED vars
  BY <1>24
     DEF Sockets, vars, connector, gateway, sender
<1> QED
  BY <1>1, <1>2, <1>3, <1>4, <1>5, <1>6, <1>7, <1>8, <1>9, <1>10, <1>11, <1>12, <1>13,
     <1>14, <1>15, <1>16, <1>17, <1>18, <1>19, <1>20, <1>21, <1>22, <1>23, <1>24
     DEF Next, LoopStep, SendStep

\* Ids are given out once, in order.
LEMMA NumberedStep ==
    ASSUME Shapes, Numbered, Registered, [Next]_vars
    PROVE  Numbered'
<1>1. CASE Quiet
  BY <1>1, QuietLeavesTheRest
     DEF Numbered
<1>2. CASE Dial
  BY <1>2, ConstantsAssumption
     DEF Dial, Shapes, Underway, Numbered, Registered, ConstantsAssumption, connector,
         gateway, sender
<1>3. CASE Subscribe
  BY <1>3, ConstantsAssumption
     DEF Subscribe, WriteFails, Arrives, Shapes, Underway, Numbered, Registered,
         ConstantsAssumption, connector, gateway, sender
<1>4. CASE WaitAuth
  BY <1>4, ConstantsAssumption
     DEF WaitAuth, Shapes, Underway, Numbered, Registered, ConstantsAssumption,
         connector, gateway, sender
<1>5. CASE Read
  BY <1>5, ConstantsAssumption
     DEF Read, Lookup, Shapes, Underway, Numbered, Registered, ConstantsAssumption,
         connector, gateway, sender
<1>6. CASE Resolve
  BY <1>6, ConstantsAssumption
     DEF Resolve, Owner, Shapes, Underway, Numbered, Registered, ConstantsAssumption,
         connector, gateway, sender
<1>7. ASSUME NEW s \in Senders, Current(s) PROVE Numbered'
  BY <1>7, ConstantsAssumption
     DEF Current, Shapes, Underway, Numbered, Registered, ConstantsAssumption,
         connector, gateway, sender
<1>8. ASSUME NEW s \in Senders, Register(s) PROVE Numbered'
  BY <1>8, ConstantsAssumption
     DEF Register, Shapes, Underway, Numbered, Registered, ConstantsAssumption,
         connector, gateway, sender
<1>9. ASSUME NEW s \in Senders, Write(s) PROVE Numbered'
<2>1. \/ at' = [at EXCEPT ![s] = "return"]
      \/ at' = [at EXCEPT ![s] = "wait"] /\ result' = result
  BY <1>9 DEF Write
<2>2. at[s] = "write" /\ UNCHANGED <<id, ack, sends>>
  BY <1>9 DEF Write
<2>3. \A t \in Senders : t # s => result'[t] = result[t] /\ at'[t] = at[t]
  BY <1>9 DEF Write, Shapes
<2>4. at'[s] # "idle" /\ (at'[s] # "return" => result' = result)
  BY <2>1 DEF Shapes
<2> QED
  BY <2>1, <2>2, <2>3, <2>4 DEF Numbered, Shapes
<1>10. ASSUME NEW s \in Senders, Acked(s) PROVE Numbered'
  BY <1>10, ConstantsAssumption
     DEF Acked, Shapes, Underway, Numbered, Registered, ConstantsAssumption, connector,
         gateway, sender
<1>11. ASSUME NEW s \in Senders, AckTimeout(s) PROVE Numbered'
  BY <1>11, ConstantsAssumption
     DEF AckTimeout, Shapes, Underway, Numbered, Registered, ConstantsAssumption,
         connector, gateway, sender
<1>12. ASSUME NEW s \in Senders, Unregister(s) PROVE Numbered'
  BY <1>12, ConstantsAssumption
     DEF Unregister, Forget, Shapes, Underway, Numbered, Registered,
         ConstantsAssumption, connector, gateway, sender
<1>13. ASSUME NEW r \in asked, NEW ok \in BOOLEAN, Answer(r, ok) PROVE Numbered'
  BY <1>13, ConstantsAssumption
     DEF Answer, Shapes, Underway, Numbered, Registered, ConstantsAssumption,
         connector, gateway, sender
<1>14. CASE Push
  BY <1>14, ConstantsAssumption
     DEF Push, Shapes, Underway, Numbered, Registered, ConstantsAssumption, connector,
         gateway, sender
<1>15. CASE Drop
  BY <1>15, ConstantsAssumption
     DEF Drop, Shapes, Underway, Numbered, Registered, ConstantsAssumption, connector,
         gateway, sender
<1>16. CASE UNCHANGED vars
  BY <1>16
     DEF Shapes, Underway, Numbered, Registered, ConstantsAssumption, vars, connector,
         gateway, sender
<1> QED
  BY <1>1, <1>2, <1>3, <1>4, <1>5, <1>6, <1>7, <1>8, <1>9, <1>10, <1>11, <1>12, <1>13,
     <1>14, <1>15, <1>16
     DEF Next, LoopStep, SendStep, Quiet

\* The pending map has the ids of the Sends from their registration to their return.
LEMMA RegisteredStep ==
    ASSUME Shapes, Numbered, Registered, [Next]_vars
    PROVE  Registered'
<1>1. CASE Quiet
  BY <1>1, QuietLeavesTheRest
     DEF Registered
<1>2. CASE Dial
  BY <1>2
     DEF Dial, Shapes, Underway, Registered, connector, gateway, sender
<1>3. CASE Subscribe
  BY <1>3
     DEF Subscribe, WriteFails, Arrives, Shapes, Underway, Registered, connector,
         gateway, sender
<1>4. CASE WaitAuth
  BY <1>4
     DEF WaitAuth, Shapes, Underway, Registered, connector, gateway, sender
<1>5. CASE Read
  BY <1>5
     DEF Read, Lookup, Shapes, Underway, Registered, connector, gateway, sender
<1>6. CASE Resolve
  BY <1>6
     DEF Resolve, Owner, Shapes, Underway, Registered, connector, gateway, sender
<1>7. ASSUME NEW s \in Senders, Current(s) PROVE Registered'
  BY <1>7
     DEF Current, Shapes, Underway, Registered, connector, gateway, sender
<1>8. ASSUME NEW s \in Senders, Register(s) PROVE Registered'
  BY <1>8
     DEF Register, Shapes, Underway, Registered, connector, gateway, sender
<1>9. ASSUME NEW s \in Senders, Write(s) PROVE Registered'
  BY <1>9
     DEF Write, WriteFails, Arrives, Shapes, Underway, Registered, connector, gateway,
         sender
<1>10. ASSUME NEW s \in Senders, Acked(s) PROVE Registered'
  BY <1>10
     DEF Acked, Shapes, Underway, Registered, connector, gateway, sender
<1>11. ASSUME NEW s \in Senders, AckTimeout(s) PROVE Registered'
  BY <1>11
     DEF AckTimeout, Shapes, Underway, Registered, connector, gateway, sender
<1>12. ASSUME NEW s \in Senders, Unregister(s) PROVE Registered'
<2> DEFINE U == {t \in Senders : at[t] \in Underway}
<2>1. at' = [at EXCEPT ![s] = "idle"] /\ id' = [id EXCEPT ![s] = 0]
  BY <1>12 DEF Unregister, Forget
<2>2. pending' = pending \ {id[s]} /\ at[s] = "return"
  BY <1>12 DEF Unregister
<2>3. {t \in Senders : at'[t] \in Underway} = U \ {s}
  BY <2>1 DEF Shapes, Underway
<2>4. \A t \in U : t # s => id[t] # id[s] /\ id'[t] = id[t]
  BY <2>1, <2>2 DEF Shapes, Numbered, Underway
<2>5. {id'[t] : t \in U \ {s}} = {id[t] : t \in U} \ {id[s]}
  BY <2>4
<2> QED
  BY <2>2, <2>3, <2>5 DEF Registered
<1>13. ASSUME NEW r \in asked, NEW ok \in BOOLEAN, Answer(r, ok) PROVE Registered'
  BY <1>13
     DEF Answer, Shapes, Underway, Registered, connector, gateway, sender
<1>14. CASE Push
  BY <1>14
     DEF Push, Shapes, Underway, Registered, connector, gateway, sender
<1>15. CASE Drop
  BY <1>15
     DEF Drop, Shapes, Underway, Registered, connector, gateway, sender
<1>16. CASE UNCHANGED vars
  BY <1>16
     DEF Shapes, Underway, Registered, vars, connector, gateway, sender
<1> QED
  BY <1>1, <1>2, <1>3, <1>4, <1>5, <1>6, <1>7, <1>8, <1>9, <1>10, <1>11, <1>12, <1>13,
     <1>14, <1>15, <1>16
     DEF Next, LoopStep, SendStep, Quiet

\* A request is asked when it is written, once.
LEMMA AskedOnceStep ==
    ASSUME Shapes, Numbered, AskedOnce, [Next]_vars
    PROVE  AskedOnce'
<1>1. CASE Quiet
  BY <1>1, QuietLeavesTheRest
     DEF AskedOnce, New
<1>2. CASE Dial
  BY <1>2
     DEF Dial, Shapes, Underway, Numbered, New, AskedOnce, connector, gateway, sender
<1>3. CASE Subscribe
<2>1. asked' \subseteq asked \cup {Auth}
  BY <1>3 DEF Subscribe, Arrives
<2>2. Auth \notin 1 .. sends
  BY DEF Auth
<2>3. UNCHANGED <<at, id, accepted>>
  BY <1>3 DEF Subscribe, sender
<2>4. \A t \in Senders : New(t) => id[t] \in 1 .. sends
  BY DEF New, Numbered
<2> QED
  BY <2>1, <2>2, <2>3, <2>4 DEF AskedOnce, New, Shapes
<1>4. CASE WaitAuth
  BY <1>4
     DEF WaitAuth, Shapes, Underway, Numbered, New, AskedOnce, connector, gateway,
         sender
<1>5. CASE Read
  BY <1>5
     DEF Read, Lookup, Shapes, Underway, Numbered, New, AskedOnce, connector, gateway,
         sender
<1>6. CASE Resolve
  BY <1>6
     DEF Resolve, Owner, Shapes, Underway, Numbered, New, AskedOnce, connector,
         gateway, sender
<1>7. ASSUME NEW s \in Senders, Current(s) PROVE AskedOnce'
  BY <1>7
     DEF Current, Shapes, Underway, Numbered, New, AskedOnce, connector, gateway, sender
<1>8. ASSUME NEW s \in Senders, Register(s) PROVE AskedOnce'
  BY <1>8
     DEF Register, Shapes, Underway, Numbered, New, AskedOnce, connector, gateway,
         sender
<1>9. ASSUME NEW s \in Senders, Write(s) PROVE AskedOnce'
<2>1. asked' \subseteq asked \cup {id[s]} /\ id[s] \notin accepted
  BY <1>9 DEF Write, Arrives, AskedOnce, New
<2>2. at[s] = "write" /\ UNCHANGED <<id, accepted>>
  BY <1>9 DEF Write
<2>3. \A t \in Senders : New(t)' => t # s /\ New(t)
  BY <1>9 DEF Write, New, Shapes
<2>4. \A t \in Senders : t # s => id[t] # id[s]
  BY <2>2 DEF Numbered
<2> QED
  BY <2>1, <2>2, <2>3, <2>4 DEF AskedOnce
<1>10. ASSUME NEW s \in Senders, Acked(s) PROVE AskedOnce'
  BY <1>10
     DEF Acked, Shapes, Underway, Numbered, New, AskedOnce, connector, gateway, sender
<1>11. ASSUME NEW s \in Senders, AckTimeout(s) PROVE AskedOnce'
  BY <1>11
     DEF AckTimeout, Shapes, Underway, Numbered, New, AskedOnce, connector, gateway,
         sender
<1>12. ASSUME NEW s \in Senders, Unregister(s) PROVE AskedOnce'
  BY <1>12
     DEF Unregister, Forget, Shapes, Underway, Numbered, New, AskedOnce, connector,
         gateway, sender
<1>13. ASSUME NEW r \in asked, NEW ok \in BOOLEAN, Answer(r, ok) PROVE AskedOnce'
<2>1. asked' = asked \ {r} /\ accepted' \subseteq accepted \cup {r}
  BY <1>13 DEF Answer
<2>2. UNCHANGED <<at, id>>
  BY <1>13 DEF Answer, sender
<2> QED
  BY <2>1, <2>2 DEF AskedOnce, New
<1>14. CASE Push
  BY <1>14
     DEF Push, Shapes, Underway, Numbered, New, AskedOnce, connector, gateway, sender
<1>15. CASE Drop
  BY <1>15
     DEF Drop, Shapes, Underway, Numbered, New, AskedOnce, connector, gateway, sender
<1>16. CASE UNCHANGED vars
  BY <1>16
     DEF Shapes, Underway, Numbered, New, AskedOnce, vars, connector, gateway, sender
<1> QED
  BY <1>1, <1>2, <1>3, <1>4, <1>5, <1>6, <1>7, <1>8, <1>9, <1>10, <1>11, <1>12, <1>13,
     <1>14, <1>15, <1>16
     DEF Next, LoopStep, SendStep, Quiet

\* What an answer said stays true: its request is not asked again, nor accepted
\* later, and ids are not given out twice.
LEMMA KeepsTelling ==
    ASSUME NEW q, NEW said \in BOOLEAN, Tells(q, said),
           Shapes, Numbered, AskedOnce, [Next]_vars
    PROVE  Tells(q, said)'
<1>1. CASE Quiet
  BY <1>1, QuietLeavesTheRest
     DEF Tells, New
<1>2. CASE Dial
  BY <1>2
     DEF Dial, Shapes, Numbered, New, Tells, connector, gateway, sender
<1>3. CASE Subscribe
<2>1. asked' \subseteq asked \cup {Auth} /\ Auth # q
  BY <1>3 DEF Subscribe, Arrives, Auth, Tells
<2>2. UNCHANGED <<at, id, sends, accepted>>
  BY <1>3 DEF Subscribe, sender
<2> QED
  BY <2>1, <2>2 DEF Tells, New
<1>4. CASE WaitAuth
  BY <1>4
     DEF WaitAuth, Shapes, Numbered, New, Tells, connector, gateway, sender
<1>5. CASE Read
  BY <1>5
     DEF Read, Lookup, Shapes, Numbered, New, Tells, connector, gateway, sender
<1>6. CASE Resolve
  BY <1>6
     DEF Resolve, Owner, Shapes, Numbered, New, Tells, connector, gateway, sender
<1>7. ASSUME NEW s \in Senders, Current(s) PROVE Tells(q, said)'
  BY <1>7
     DEF Current, Shapes, Numbered, New, Tells, connector, gateway, sender
<1>8. ASSUME NEW s \in Senders, Register(s) PROVE Tells(q, said)'
  BY <1>8
     DEF Register, Shapes, Numbered, New, Tells, connector, gateway, sender
<1>9. ASSUME NEW s \in Senders, Write(s) PROVE Tells(q, said)'
<2>1. asked' \subseteq asked \cup {id[s]} /\ id[s] # q
  BY <1>9 DEF Write, Arrives, Tells, New
<2>2. UNCHANGED <<id, sends, accepted>> /\ at[s] = "write"
  BY <1>9 DEF Write
<2>3. \A t \in Senders : New(t)' => New(t)
  BY <1>9 DEF Write, New, Shapes
<2> QED
  BY <2>1, <2>2, <2>3 DEF Tells
<1>10. ASSUME NEW s \in Senders, Acked(s) PROVE Tells(q, said)'
  BY <1>10
     DEF Acked, Shapes, Numbered, New, Tells, connector, gateway, sender
<1>11. ASSUME NEW s \in Senders, AckTimeout(s) PROVE Tells(q, said)'
  BY <1>11
     DEF AckTimeout, Shapes, Numbered, New, Tells, connector, gateway, sender
<1>12. ASSUME NEW s \in Senders, Unregister(s) PROVE Tells(q, said)'
  BY <1>12
     DEF Unregister, Forget, Shapes, Numbered, New, Tells, connector, gateway, sender
<1>13. ASSUME NEW r \in asked, NEW ok \in BOOLEAN, Answer(r, ok) PROVE Tells(q, said)'
<2>1. asked' = asked \ {r} /\ r # q /\ (q \in accepted' <=> q \in accepted)
  BY <1>13 DEF Answer, Tells
<2>2. UNCHANGED <<at, id, sends>>
  BY <1>13 DEF Answer, sender
<2> QED
  BY <2>1, <2>2 DEF Tells, New
<1>14. CASE Push
  BY <1>14
     DEF Push, Shapes, Numbered, New, Tells, connector, gateway, sender
<1>15. CASE Drop
  BY <1>15
     DEF Drop, Shapes, Numbered, New, Tells, connector, gateway, sender
<1>16. CASE UNCHANGED vars
  BY <1>16
     DEF Shapes, Numbered, New, Tells, vars, connector, gateway, sender
<1> QED
  BY <1>1, <1>2, <1>3, <1>4, <1>5, <1>6, <1>7, <1>8, <1>9, <1>10, <1>11, <1>12, <1>13,
     <1>14, <1>15, <1>16
     DEF Next, LoopStep, SendStep, Quiet


LEMMA TellingStays ==
    ASSUME Shapes, Numbered, AskedOnce, [Next]_vars
    PROVE  \A r \in 1 .. sends, said \in BOOLEAN : Tells(r, said) => Tells(r, said)'
BY KeepsTelling

LEMMA TailElements ==
    ASSUME NEW S, NEW q \in Seq(S), q # <<>>
    PROVE  \A i \in DOMAIN Tail(q) : i + 1 \in DOMAIN q /\ Tail(q)[i] = q[i + 1]
OBVIOUS

LEMMA AppendElements ==
    ASSUME NEW S, NEW q \in Seq(S), NEW e \in S
    PROVE  \A i \in DOMAIN Append(q, e) :
              Append(q, e)[i] = e \/ (i \in DOMAIN q /\ Append(q, e)[i] = q[i])
OBVIOUS

\* Reading takes a frame off the wire, answering and pushing put one on it.
LEMMA FramesStep ==
    ASSUME Shapes, Numbered, AskedOnce, FramesTell, [Next]_vars
    PROVE  FramesTell'
<1>1. ASSUME NEW i \in DOMAIN frames, NEW f, f = frames[i], f.req \in 1 .. MaxSends
      PROVE  Tells(f.req, f.ok)'
  <2>1. f.ok \in BOOLEAN
    BY <1>1, FrameSays DEF Shapes
  <2>2. Tells(f.req, f.ok)
    BY <1>1 DEF FramesTell
  <2>3. f.req \in 1 .. sends
    BY <2>2 DEF Tells
  <2> QED
    BY <2>1, <2>2, <2>3, TellingStays
<1>2. CASE frames' = frames
  BY <1>1, <1>2 DEF FramesTell, Tells
<1>3. CASE frames # <<>> /\ frames' = Tail(frames)
  <2>1. \A i \in DOMAIN frames' : i + 1 \in DOMAIN frames /\ frames'[i] = frames[i + 1]
    BY <1>3, TailElements DEF Shapes
  <2> QED
    BY <1>1, <2>1 DEF FramesTell, Tells
<1>4. CASE frames' = <<>>
  <2>1. DOMAIN frames' = {}
    BY <1>4
  <2> QED
    BY <2>1 DEF FramesTell
<1>5. CASE frames' = Append(frames, Other)
  <2>1. Other \in Frame /\ Other.req \notin 1 .. MaxSends
    BY ConstantsAssumption DEF Frame, Other, ConstantsAssumption
  <2>2. \A i \in DOMAIN frames' : frames'[i] = Other \/ (i \in DOMAIN frames /\ frames'[i] = frames[i])
    BY <1>5, <2>1, AppendElements DEF Shapes
  <2> QED
    BY <1>1, <2>1, <2>2 DEF FramesTell, Tells
<1>6. ASSUME NEW r \in asked, NEW ok \in BOOLEAN, Answer(r, ok) PROVE FramesTell'
  <2> DEFINE f == [req |-> r, ok |-> ok]
  <2>1. frames' = Append(frames, f) /\ UNCHANGED <<sends, at, id>>
    BY <1>6 DEF Answer, sender
  <2>2. r \in 1 .. MaxSends => Tells(r, ok)'
    <3> SUFFICES ASSUME r \in 1 .. MaxSends PROVE Tells(r, ok)'
      OBVIOUS
    <3>1. r \notin asked' /\ (ok <=> r \in accepted')
      BY <1>6 DEF Answer, AskedOnce, Auth
    <3>2. \A s \in Senders : New(s)' => id'[s] # r
      BY <2>1 DEF AskedOnce, New
    <3>3. r \in 1 .. sends'
      BY <2>1 DEF Shapes
    <3> QED
      BY <3>1, <3>2, <3>3 DEF Tells
  <2>3. f \in Frame
    BY ConstantsAssumption DEF Frame, Reqs, Shapes, ConstantsAssumption
  <2>4. \A i \in DOMAIN frames' : frames'[i] = f \/ (i \in DOMAIN frames /\ frames'[i] = frames[i])
    BY <2>1, <2>3, AppendElements DEF Shapes
  <2>5. f.req = r /\ f.ok = ok
    OBVIOUS
  <2> HIDE DEF f
  <2> QED
    BY <1>1, <2>2, <2>4, <2>5 DEF FramesTell, Tells
<1>7. ASSUME NEW s \in Senders, Current(s) \/ SendStep(s) PROVE frames' = frames
  BY <1>7 DEF Current, SendStep, Register, Write, Acked, AckTimeout, Unregister, gateway
<1>8. CASE Dial \/ Drop
  BY <1>4, <1>8 DEF Dial, Drop
<1>9. CASE Read \/ WaitAuth
  BY <1>3, <1>9 DEF Read, WaitAuth
<1>10. CASE Push
  BY <1>5, <1>10 DEF Push
<1>11. CASE Quiet \/ Subscribe \/ Resolve
  BY <1>2, <1>11, QuietLeavesTheRest DEF Subscribe, Resolve, gateway
<1>12. CASE UNCHANGED vars
  BY <1>2, <1>12 DEF vars, gateway
<1> QED
  BY <1>2, <1>6, <1>7, <1>8, <1>9, <1>10, <1>11, <1>12 DEF Next, LoopStep, Quiet

\* What the loop has found is the frame it has just read, for a request it
\* found in the pending map.
LEMMA FoundStep ==
    ASSUME Shapes, Numbered, Registered, AskedOnce, FramesTell, FoundTells, [Next]_vars
    PROVE  FoundTells'
<1>1. ASSUME loop = "resolve", UNCHANGED <<loop, found>> PROVE FoundTells'
  <2>1. PICK r \in 1 .. sends, said \in BOOLEAN : found.req = r /\ found.ok = said
    BY <1>1 DEF Shapes
  <2>2. Tells(r, said)
    BY <1>1, <2>1 DEF FoundTells
  <2>3. Tells(r, said)'
    BY <2>2, TellingStays
  <2> QED
    BY <1>1, <2>1, <2>3 DEF FoundTells, Tells
<1>2. CASE Read
  <2> SUFFICES ASSUME loop' = "resolve" PROVE Tells(found.req, found.ok)'
    BY DEF FoundTells
  <2>1. PICK r \in pending : /\ r = Head(frames).req
                             /\ found' = [req |-> r, ok |-> Head(frames).ok]
    BY <1>2 DEF Read, Lookup
  <2>2. r \in 1 .. sends /\ r \in 1 .. MaxSends
    <3>1. \A t \in Senders : at[t] \in Underway => id[t] \in 1 .. sends
      BY DEF Numbered, Underway
    <3> QED
      BY <3>1, ConstantsAssumption DEF Registered, Shapes, ConstantsAssumption
  <2>3. 1 \in DOMAIN frames /\ Head(frames) = frames[1]
    BY <1>2 DEF Read, Shapes
  <2>4. PICK said \in BOOLEAN : said = frames[1].ok
    BY <2>3, FrameSays DEF Shapes
  <2>5. Tells(r, said)
    BY <2>1, <2>2, <2>3, <2>4 DEF FramesTell
  <2>6. Tells(r, said)'
    BY <2>2, <2>5, TellingStays
  <2>7. found'.req = r /\ found'.ok = said
    BY <2>1, <2>3, <2>4
  <2> QED
    BY <2>6, <2>7 DEF Tells
<1>3. CASE ~Read /\ ~(loop = "resolve" /\ UNCHANGED <<loop, found>>)
  <2>1. loop' # "resolve"
    BY <1>3, QuietLeavesTheRest
       DEF Next, LoopStep, SendStep, Quiet, Dial, Subscribe, WaitAuth, Resolve, Current,
           Register, Write, Acked, AckTimeout, Unregister, Answer, Push, Drop, connector, vars
  <2> QED
    BY <2>1 DEF FoundTells
<1> QED
  BY <1>1, <1>2, <1>3

\* A reply channel is filled once, with what was found for its request, and is
\* emptied when the Send returns.
LEMMA AcksStep ==
    ASSUME Shapes, Numbered, Registered, AskedOnce, FoundTells, AcksTell, [Next]_vars
    PROVE  AcksTell'
<1>1. ASSUME NEW t \in Senders, ack'[t] = ack[t], ack[t] # None, id'[t] = id[t]
      PROVE  ack'[t] # None => Tells(id[t], ack[t])'
  <2>1. PICK said \in BOOLEAN : said = ack[t]
    BY <1>1 DEF Shapes
  <2>2. PICK r \in 1 .. sends : r = id[t]
    BY <1>1 DEF AcksTell, Tells
  <2>3. Tells(r, said)
    BY <1>1, <2>1, <2>2 DEF AcksTell
  <2>4. Tells(r, said)'
    BY <2>3, TellingStays
  <2> QED
    BY <1>1, <2>1, <2>2, <2>4 DEF Tells
<1>2. ASSUME NEW t \in Senders, ack'[t] = None PROVE ack'[t] # None => Tells(id[t], ack[t])'
  BY <1>2
<1>3. CASE Resolve
  <2> SUFFICES ASSUME NEW t \in Senders, ack[t] = None, ack'[t] # None
               PROVE  Tells(id[t], ack[t])'
    BY <1>1, <1>3 DEF Resolve, AcksTell, Shapes
  <2>1. loop = "resolve" /\ found.req = id[t] /\ ack'[t] = found.ok /\ id' = id
    BY <1>3 DEF Resolve, Owner
  <2>2. PICK r \in 1 .. sends, said \in BOOLEAN : found.req = r /\ found.ok = said
    BY <2>1 DEF Shapes
  <2>3. Tells(r, said)
    BY <2>1, <2>2 DEF FoundTells
  <2>4. Tells(r, said)'
    BY <2>3, TellingStays
  <2> QED
    BY <2>1, <2>2, <2>4 DEF Tells
<1>4. ASSUME NEW s \in Senders, Unregister(s) PROVE AcksTell'
  <2>1. /\ ack' = [ack EXCEPT ![s] = None]
        /\ \A t \in Senders : t # s => id'[t] = id[t]
    BY <1>4 DEF Unregister, Forget, Shapes
  <2> QED
    BY <1>1, <1>2, <2>1 DEF AcksTell, Shapes
<1>5. ASSUME NEW s \in Senders, Current(s) PROVE AcksTell'
  <2>1. /\ ack' = ack /\ at[s] = "idle"
        /\ \A t \in Senders : t # s => id'[t] = id[t]
    BY <1>5 DEF Current, Shapes
  <2>2. ack[s] = None
    BY <2>1 DEF Numbered
  <2> QED
    BY <1>1, <1>2, <2>1, <2>2 DEF AcksTell
<1>6. CASE UNCHANGED <<ack, id>>
  BY <1>1, <1>2, <1>6 DEF AcksTell
<1>7. ASSUME NEW s \in Senders, Register(s) \/ Write(s) \/ Acked(s) \/ AckTimeout(s)
      PROVE  UNCHANGED <<ack, id>>
  BY <1>7 DEF Register, Write, Acked, AckTimeout
<1>8. CASE Dial \/ Subscribe \/ WaitAuth \/ Read \/ Push \/ Drop
  BY <1>6, <1>8 DEF Dial, Subscribe, WaitAuth, Read, Push, Drop, sender
<1>9. ASSUME NEW r \in asked, NEW ok \in BOOLEAN, Answer(r, ok) PROVE UNCHANGED <<ack, id>>
  BY <1>9 DEF Answer, sender
<1>10. CASE Quiet
  BY <1>6, <1>10, QuietLeavesTheRest
<1>11. CASE UNCHANGED vars
  BY <1>6, <1>11 DEF vars, sender
<1> QED
  BY <1>3, <1>4, <1>5, <1>6, <1>7, <1>8, <1>9, <1>10, <1>11 DEF Next, LoopStep, SendStep, Quiet

\* A Send reports what its own channel holds, and never says sent or refused
\* without an answer.
LEMMA ReportedStep ==
    ASSUME Shapes, Numbered, AskedOnce, AcksTell, Reported, [Next]_vars
    PROVE  Reported'
<1>1. ASSUME NEW t \in Senders, NEW said \in BOOLEAN, Tells(id[t], said), id'[t] = id[t]
      PROVE  Tells(id[t], said)'
  <2>1. PICK r \in 1 .. sends : r = id[t]
    BY <1>1 DEF Tells
  <2>2. Tells(r, said)'
    BY <1>1, <2>1, TellingStays
  <2> QED
    BY <1>1, <2>1, <2>2 DEF Tells
<1>2. ASSUME NEW t \in Senders, result'[t] = result[t], id'[t] = id[t]
      PROVE  /\ result'[t] = "sent" => Tells(id[t], TRUE)'
             /\ result'[t] = "refused" => Tells(id[t], FALSE)'
  BY <1>1, <1>2 DEF Reported
<1>3. CASE UNCHANGED <<result, id>>
  BY <1>2, <1>3 DEF Reported
<1>4. ASSUME NEW s \in Senders, UNCHANGED id,
             \A t \in Senders : t # s => result'[t] = result[t],
             result'[s] \notin {"sent", "refused"}
      PROVE  Reported'
  BY <1>2, <1>4 DEF Reported
<1>5. ASSUME NEW s \in Senders, Write(s) PROVE Reported'
  <2>1. /\ UNCHANGED id /\ result'[s] \in {"error", result[s]} /\ at[s] = "write"
        /\ \A t \in Senders : t # s => result'[t] = result[t]
    BY <1>5 DEF Write, Shapes
  <2>2. result[s] = None
    BY <2>1 DEF Numbered
  <2> QED
    BY <1>4, <2>1, <2>2, ConstantsAssumption DEF ConstantsAssumption
<1>6. ASSUME NEW s \in Senders, AckTimeout(s) PROVE Reported'
  <2>1. /\ UNCHANGED id /\ result'[s] = "timeout"
        /\ \A t \in Senders : t # s => result'[t] = result[t]
    BY <1>6 DEF AckTimeout, Shapes
  <2> QED
    BY <1>4, <2>1
<1>7. ASSUME NEW s \in Senders, Unregister(s) PROVE Reported'
  <2>1. /\ \A t \in Senders : t # s => result'[t] = result[t] /\ id'[t] = id[t]
        /\ result'[s] = None
    BY <1>7 DEF Unregister, Forget, Shapes
  <2> QED
    BY <1>2, <2>1, ConstantsAssumption DEF Reported, ConstantsAssumption
<1>8. ASSUME NEW s \in Senders, Current(s) PROVE Reported'
  <2>1. /\ result' = result /\ at[s] = "idle"
        /\ \A t \in Senders : t # s => id'[t] = id[t]
    BY <1>8 DEF Current, Shapes
  <2>2. result[s] = None
    BY <2>1 DEF Numbered
  <2> QED
    BY <1>2, <2>1, <2>2, ConstantsAssumption DEF Reported, ConstantsAssumption
<1>9. ASSUME NEW s \in Senders, Acked(s) PROVE Reported'
  <2>1. /\ UNCHANGED id /\ ack[s] # None
        /\ result'[s] = IF ack[s] THEN "sent" ELSE "refused"
        /\ \A t \in Senders : t # s => result'[t] = result[t]
    BY <1>9 DEF Acked, Shapes
  <2>2. PICK said \in BOOLEAN : said = ack[s]
    BY <2>1 DEF Shapes
  <2>3. Tells(id[s], said)
    BY <2>1, <2>2 DEF AcksTell
  <2>4. Tells(id[s], said)'
    BY <1>1, <2>1, <2>3
  <2>5. /\ result'[s] = "sent" => Tells(id[s], TRUE)'
        /\ result'[s] = "refused" => Tells(id[s], FALSE)'
    BY <2>1, <2>2, <2>4
  <2> QED
    BY <1>2, <2>1, <2>5 DEF Reported
<1>10. ASSUME NEW s \in Senders, Register(s) PROVE UNCHANGED <<result, id>>
  BY <1>10 DEF Register
<1>11. CASE Dial \/ Subscribe \/ WaitAuth \/ Read \/ Resolve \/ Push \/ Drop
  BY <1>3, <1>11 DEF Dial, Subscribe, WaitAuth, Read, Resolve, Push, Drop, sender
<1>12. ASSUME NEW r \in asked, NEW ok \in BOOLEAN, Answer(r, ok) PROVE UNCHANGED <<result, id>>
  BY <1>12 DEF Answer, sender
<1>13. CASE Quiet
  BY <1>3, <1>13, QuietLeavesTheRest
<1>14. CASE UNCHANGED vars
  BY <1>3, <1>14 DEF vars, sender
<1> QED
  BY <1>3, <1>5, <1>6, <1>7, <1>8, <1>9, <1>10, <1>11, <1>12, <1>13, <1>14
     DEF Next, LoopStep, SendStep, Quiet

-----------------------------------------------------------------------------
LEMMA StepInv == IInv /\ [Next]_vars => IInv'
BY ShapesStep, SocketsStep, NumberedStep, RegisteredStep, AskedOnceStep, FramesStep,
   FoundStep, AcksStep, ReportedStep DEF IInv, Answers

\* The invariant says more of the variables than their kinds.
LEMMA Typing == IInv => TypeOK
<1> SUFFICES ASSUME IInv PROVE TypeOK
  OBVIOUS
<1>1. asked \subseteq Reqs
  BY ConstantsAssumption DEF IInv, Shapes, Reqs, ConstantsAssumption
<1> QED
  BY <1>1 DEF IInv, TypeOK, Shapes, Sockets, Registered, Underway

\* In every reachable state ids, channels, frames and the gateway agree.
THEOREM Inductive == Spec => []IInv
BY InitInv, StepInv, PTL DEF Spec

\* Type correctness of the connector: one socket at most is open, and none
\* between connections; what is registered is what is under way.
THEOREM TypeCorrect == Spec => []TypeOK
BY Typing, Inductive, PTL

\* A reply is reported as sent only if the gateway carried out that reply, and
\* as refused only if it did not and never will, over any number of
\* reconnections and any number of replies at once (wecom.go Send, resolveAck).
THEOREM Reporting == Spec => []ReportsItsOwnAck
<1>1. IInv => ReportsItsOwnAck
  BY DEF IInv, Reported, ReportsItsOwnAck, Tells
<1> QED
  BY <1>1, Inductive, PTL

-----------------------------------------------------------------------------
(***************************************************************************)
(* The connector over HTTP.                                                *)
(***************************************************************************)

\* A token that was looked at has aged once at most, and is not renewed too late.
TokenLasts ==
    \A s \in Senders : qqAt[s] \in {"have", "posting"} =>
        token = "fresh" \/ (token = "near" /\ s \in aged)

\* A frame the loop is about to read after Stop is one the loop had been waiting
\* for, or one that a heartbeat has paid for.
Counted ==
    /\ late \in Nat /\ beats \in Nat
    /\ ~qqTold => late = 0
    /\ late <= beats + (IF qqLoop = "read" THEN 0 ELSE 1)

\* The gateway's loop is launched with a token.
QInv ==
    /\ Q!TypeOK /\ qqStarted \in BOOLEAN /\ qqTold \in BOOLEAN
    /\ qqAt[Starter] = "have" => token # None
    /\ TokenLasts /\ Counted

\* The values that the connector tells apart.
LEMMA Parts ==
    /\ Starter \notin Senders /\ None \notin {"fresh", "near", "expired"}
    /\ MaxDials \in Nat /\ MaxBeats \in Nat
BY PartsAssumption DEF Q!ConstantsAssumption, Q!Ages

LEMMA QqInit == Q!Init => QInv
<1> SUFFICES ASSUME Q!Init PROVE QInv
  OBVIOUS
<1>1. Q!TypeOK
  BY Parts DEF Q!Init, Q!TypeOK, Q!Callers, Q!Ages
<1>2. TokenLasts /\ Counted
  BY DEF Q!Init, TokenLasts, Counted, Q!Callers
<1>3. QED
  BY <1>1, <1>2 DEF Q!Init, QInv, Q!Callers

\* Every step of the connector keeps its token good enough and its frames counted.
LEMMA QqStep == QInv /\ [Q!Next]_qqVars => QInv'
<1> SUFFICES ASSUME QInv, [Q!Next]_qqVars PROVE QInv'
  OBVIOUS
<1> USE Parts DEF QInv, Q!TypeOK, Q!Callers,
        TokenLasts, Counted, Q!Enter, Q!Ages
<1>1. CASE Q!Start
  BY <1>1 DEF Q!Start
<1>2. CASE Q!Stop
  BY <1>2 DEF Q!Stop
<1>3. CASE Q!Launch
  BY <1>3 DEF Q!Launch
<1>4. CASE Q!Look
  BY <1>4 DEF Q!Look
<1>5. CASE Q!Address
  <2>1. dials' \in 0 .. MaxDials
    <3>1. dials \in 0 .. MaxDials
      BY DEF Q!TypeOK
    <3>2. dials' = dials \/ (dials < MaxDials /\ dials' = dials + 1)
      BY <1>5 DEF Q!Address
    <3> HIDE DEF QInv
    <3>3. QED
      BY <3>1, <3>2, Parts
  <2>2. /\ UNCHANGED <<qqStarted, qqTold, token, qqAt, late, beats, aged>>
        /\ qqLoop = "address" /\ qqLoop' \in {"hello", "backoff"}
    BY <1>5 DEF Q!Address
  <2>3. Q!TypeOK'
    BY <2>1, <2>2
  <2>4. Counted'
    BY <2>2
  <2>5. QED
    BY <2>2, <2>3, <2>4
<1>6. CASE Q!Hello
  BY <1>6 DEF Q!Hello
<1>7. CASE Q!Poll
  BY <1>7 DEF Q!Poll
<1>8. CASE Q!Read
  BY <1>8 DEF Q!Read
<1>9. CASE Q!Deliver
  BY <1>9 DEF Q!Deliver
<1>10. CASE Q!Age
  <2>1. UNCHANGED <<qqStarted, qqTold, qqAt, qqLoop, dials, late, beats>>
    BY <1>10 DEF Q!Age
  <2>2. token' \in {"near", "expired"} /\ (token = "fresh" => token' = "near")
    BY <1>10 DEF Q!Age, Q!Older
  <2>3. aged' = {s \in Senders : qqAt[s] \in {"have", "posting"}}
    BY <1>10 DEF Q!Age, Q!InFlight
  <2>4. ASSUME NEW s \in Senders, qqAt[s] \in {"have", "posting"}
        PROVE  token' = "near" /\ s \in aged'
    BY <1>10, <2>2, <2>3, <2>4 DEF Q!Age, Q!InFlight
  <2>5. TokenLasts'
    BY <2>1, <2>4
  <2>6. Q!TypeOK'
    BY <2>1, <2>2, <2>3
  <2>7. Counted' /\ token' # None
    BY <2>1, <2>2, Parts
  <2>8. QED
    BY <2>1, <2>5, <2>6, <2>7
<1>11. ASSUME NEW c \in Senders \cup {Starter}, Q!Check(c) PROVE QInv'
  <2>1. /\ UNCHANGED <<qqStarted, qqTold, token, qqLoop, dials, late, beats>>
        /\ aged' = aged \ {c}
        /\ qqAt' = [qqAt EXCEPT ![c] = IF token = "fresh" THEN "have" ELSE "fetch"]
    BY <1>11 DEF Q!Check, Q!GoodEnough
  <2>2. ASSUME NEW s \in Senders, qqAt'[s] \in {"have", "posting"}
        PROVE  token = "fresh" \/ (token = "near" /\ s \in aged')
    <3>1. CASE s = c
      BY <2>1, <2>2, <3>1
    <3>2. CASE s # c
      BY <2>1, <2>2, <3>2
    <3>3. QED
      BY <3>1, <3>2
  <2>3. Q!TypeOK'
    BY <2>1
  <2>4. qqAt'[Starter] = "have" => token # None
    BY <2>1, Parts
  <2>5. Counted'
    BY <2>1
  <2>6. QED
    BY <2>1, <2>2, <2>3, <2>4, <2>5
<1>12. ASSUME NEW c \in Senders \cup {Starter}, Q!Fetched(c) PROVE QInv'
  <2>1. /\ UNCHANGED <<qqStarted, qqTold, qqLoop, dials, late, beats>>
        /\ token' = "fresh" /\ aged' = aged \ {c} /\ qqAt' = [qqAt EXCEPT ![c] = "have"]
    BY <1>12 DEF Q!Fetched
  <2>2. Q!TypeOK' /\ token' # None
    BY <2>1, Parts
  <2>3. Counted'
    BY <2>1
  <2>4. QED
    BY <2>1, <2>2, <2>3
<1>13. ASSUME NEW c \in Senders \cup {Starter}, Q!FetchFails(c) PROVE QInv'
  BY <1>13 DEF Q!FetchFails
<1>14. ASSUME NEW s \in Senders, Q!Send(s) \/ Q!Post(s) \/ Q!Unsupported(s) \/ Q!Posted(s)
       PROVE  QInv'
  BY <1>14 DEF Q!Send, Q!Post, Q!Unsupported, Q!Posted
<1>15. CASE UNCHANGED qqVars
  BY <1>15 DEF qqVars
<1>16. QED
  BY <1>1, <1>2, <1>3, <1>4, <1>5, <1>6, <1>7, <1>8, <1>9, <1>10, <1>11, <1>12, <1>13, <1>14, <1>15
     DEF Q!Next, Q!LoopStep, Q!TokenStep

\* However the checks, renewals and posts of any number of sessions fall, the token a
\* reply is posted under does not expire before the platform has answered; and a
\* stopped connector reads one frame more than it still sends heartbeats (qq.go
\* ensureToken, Send, runGatewayOnce). Both connectors keep their types.
THEOREM Outliving == MCSpec => []TokensOutliveRequests
<1>1. MCInit => IInv /\ QInv
  BY InitInv, QqInit DEF MCInit
<1>2. IInv /\ QInv /\ [MCNext]_<<vars, qqVars, part>> => IInv' /\ QInv'
  <2>1. [MCNext]_<<vars, qqVars, part>> => [Next]_vars /\ [Q!Next]_qqVars
    BY DEF MCNext
  <2>2. QED
    BY <2>1, StepInv, QqStep
<1>3. IInv /\ QInv => TokensOutliveRequests
  <2>1. IInv => TypeOK
    BY Typing
  <2>2. QInv => Q!TypeOK /\ Q!TokenOutlivesRequest /\ Q!FewFramesAfterStop
    BY DEF QInv, TokenLasts, Counted, Q!TokenOutlivesRequest, Q!FewFramesAfterStop
  <2>3. QED
    BY <2>1, <2>2 DEF TokensOutliveRequests
<1>4. QED
  BY <1>1, <1>2, <1>3, PTL DEF MCSpec
=============================================================================
