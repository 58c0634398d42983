--------------------------- MODULE McpClientProofs ---------------------------
(***************************************************************************)
(* Proofs about McpClient, for any callers, any bounds and any capacity of *)
(* the inbound channel: a call returns the answer to its own request,      *)
(* unless the child has given the same id to a request of its own, and     *)
(* nobody waits for what cannot come; and, at the end, about McpSse: a     *)
(* call over an event stream returns its own answer with the same proviso. *)
(***************************************************************************)
EXTENDS MCMcpCalls, TLAPS

Outside == {"idle", "lock"}
Waiting == {"write", "await", "recv"}      \* registered with the reader
Inside == {"register"} \cup Waiting

\* What the child writes.
Sent == [kind : {"answer", "ping", "roots", "note"}, id : 0..MaxCalls]

Shapes ==
    /\ pc \in [Callers -> Outside \cup Inside]
    /\ nextID \in 0..MaxCalls
    /\ id \in [Callers -> 0..nextID]
    /\ got \in [Callers -> Frames \cup {None}]
    /\ mu \in Callers \cup {None} /\ stdinMu \in {Loop, None}
    /\ pending \subseteq 1..nextID /\ stdin \subseteq 1..nextID
    /\ lastFrame \in Frames \cup {None}
    /\ stdout \in Seq(Sent) /\ inbound \in Seq(Sent) /\ Len(inbound) <= InboundCap

\* Only the owner of the client's mutex is inside, under an id of its own.
Mutex ==
    \A c \in Callers :
        /\ pc[c] \in Inside <=> mu = c
        /\ pc[c] \in Inside => id[c] \in 1..nextID

\* A frame without an answer in it, unless it is a note, has an id the child has used.
Labelled ==
    \A k \in 1..Len(stdout) : stdout[k].kind \in {"ping", "roots"} => stdout[k].id \in theirs

\* What lies in a caller's channel has the id of the request it has made, and answers
\* it if only the client uses that id.
Addressed ==
    \A c \in Callers : got[c] # None =>
        /\ pc[c] \in Waiting
        /\ \/ got[c].kind = "error"
           \/ got[c].id = id[c] /\ (id[c] \notin theirs => got[c].kind = "answer")

\* A caller that has registered is still known to the reader, or was told.
Known ==
    \A c \in Callers : pc[c] \in {"write", "await"} => id[c] \in pending \/ got[c] # None

IInv == Shapes /\ Mutex /\ Labelled /\ Addressed /\ Known /\ OwnAnswer /\ ReapedWakesAll

-----------------------------------------------------------------------------
LEMMA FailureIsAFrame == Failure \in Frames /\ Failure # None
BY ConstantsAssumption DEF ConstantsAssumption, Failure, Frames

LEMMA InitInv == Init => IInv
<1> SUFFICES ASSUME Init PROVE IInv
  OBVIOUS
<1>1. Shapes
  BY ConstantsAssumption DEF ConstantsAssumption, Init, Shapes, Outside, Loop
<1>2. Mutex /\ Labelled /\ Addressed /\ Known /\ OwnAnswer /\ ReapedWakesAll
  BY ConstantsAssumption
     DEF ConstantsAssumption, Init, Mutex, Labelled, Addressed, Known, OwnAnswer, ReapedWakesAll,
         Inside, Waiting
<1> QED
  BY <1>1, <1>2 DEF IInv
\* Every action keeps the shapes.
LEMMA ShapesStep ==
    ASSUME Shapes, Mutex, [Next]_vars
    PROVE  Shapes'
<1>1. ASSUME NEW c \in Callers, Call(c) PROVE Shapes'
  BY <1>1, ConstantsAssumption
     DEF Call, Shapes, Outside, Loop, Mutex, Inside, Waiting, ConstantsAssumption,
         callers, process
<1>2. ASSUME NEW c \in Callers, Acquire(c) PROVE Shapes'
<2>1. CASE alive /\ nextID < MaxCalls
  <3>1. nextID' = nextID + 1 /\ nextID' \in 1..MaxCalls
    BY <1>2, <2>1, ConstantsAssumption DEF Acquire, Shapes, ConstantsAssumption
  <3>2. id' = [id EXCEPT ![c] = nextID']
    BY <1>2, <2>1 DEF Acquire
  <3>3. id' \in [Callers -> 0..nextID']
    BY <3>1, <3>2 DEF Shapes
  <3>4. pending \subseteq 1..nextID' /\ stdin \subseteq 1..nextID'
    BY <3>1 DEF Shapes
  <3>5. pc' \in [Callers -> Outside \cup Inside]
    BY <1>2, <2>1 DEF Acquire, Shapes, Inside
  <3>6. nextID' \in 0..MaxCalls
    BY <3>1
  <3>7. /\ got' = got /\ mu' \in Callers /\ stdinMu' = stdinMu /\ pending' = pending
        /\ stdin' = stdin /\ lastFrame' = lastFrame /\ stdout' = stdout /\ inbound' = inbound
    BY <1>2, <2>1 DEF Acquire, process
  <3> QED
    BY <3>3, <3>4, <3>5, <3>6, <3>7 DEF Shapes
<2>2. CASE ~(alive /\ nextID < MaxCalls)
  BY <1>2, <2>2 DEF Acquire, Returned, Shapes, Outside, process
<2> QED
  BY <2>1, <2>2
<1>3. ASSUME NEW c \in Callers, Register(c) PROVE Shapes'
  BY <1>3, ConstantsAssumption
     DEF Register, Shapes, Outside, Loop, Mutex, Inside, Waiting, ConstantsAssumption,
         callers, process
<1>4. ASSUME NEW c \in Callers, Write(c) PROVE Shapes'
  BY <1>4, ConstantsAssumption
     DEF Write, Shapes, Outside, Loop, Mutex, Inside, Waiting, ConstantsAssumption,
         callers, process, Returned
<1>5. ASSUME NEW c \in Callers, Receive(c) PROVE Shapes'
  BY <1>5, ConstantsAssumption
     DEF Receive, Shapes, Outside, Loop, Mutex, Inside, Waiting, ConstantsAssumption,
         callers, process, Returned
<1>6. ASSUME NEW c \in Callers, Recv(c) PROVE Shapes'
  BY <1>6, ConstantsAssumption
     DEF Recv, Shapes, Outside, Loop, Mutex, Inside, Waiting, ConstantsAssumption,
         callers, process, Returned
<1>7. ASSUME NEW c \in Callers, Cancel(c) PROVE Shapes'
  BY <1>7, ConstantsAssumption
     DEF Cancel, Shapes, Outside, Loop, Mutex, Inside, Waiting, ConstantsAssumption,
         callers, process, Returned
<1>8. ASSUME NEW c \in Callers, RecvCancelled(c) PROVE Shapes'
  BY <1>8, ConstantsAssumption
     DEF RecvCancelled, Shapes, Outside, Loop, Mutex, Inside, Waiting,
         ConstantsAssumption, callers, process, Returned
<1>9. ASSUME ChildAnswers PROVE Shapes'
<2>1. PICK i \in stdin : /\ stdin' = stdin \ {i}
                       /\ stdout' = Append(stdout, [kind |-> "answer", id |-> i])
  BY <1>9 DEF ChildAnswers
<2>2. [kind |-> "answer", id |-> i] \in Sent
  BY <2>1, ConstantsAssumption DEF Shapes, Sent, ConstantsAssumption
<2>3. stdout' \in Seq(Sent)
  BY <2>1, <2>2 DEF Shapes
<2> QED
  BY <1>9, <2>1, <2>3 DEF ChildAnswers, Shapes, callers
<1>10. ASSUME ChildPushes PROVE Shapes'
<2>1. PICK kind \in {"ping", "roots", "note"}, i \in 0..MaxCalls :
         stdout' = Append(stdout, [kind |-> kind, id |-> i])
  BY <1>10, ConstantsAssumption DEF ChildPushes, ConstantsAssumption
<2>2. [kind |-> kind, id |-> i] \in Sent
  BY <2>1 DEF Sent
<2>3. stdout' \in Seq(Sent)
  BY <2>1, <2>2 DEF Shapes
<2> QED
  BY <1>10, <2>3 DEF ChildPushes, Shapes, callers
<1>11. ASSUME ChildExits PROVE Shapes'
  BY <1>11, ConstantsAssumption
     DEF ChildExits, Shapes, Outside, Loop, Mutex, Inside, Waiting,
         ConstantsAssumption, callers, process
<1>12. ASSUME ReadFrame PROVE Shapes'
<2> DEFINE f == Head(stdout)
<2>1. f \in Sent /\ stdout' \in Seq(Sent)
  BY <1>12 DEF ReadFrame, Shapes
<2>2. CASE f.kind # "note" /\ f.id \in pending
  <3>1. f \in Frames
    BY <2>1, <2>2 DEF Sent, Frames
  <3>2. got' \in [Callers -> Frames \cup {None}] /\ pending' \subseteq 1..nextID
    BY <1>12, <2>2, <3>1 DEF ReadFrame, Shapes
  <3> QED
    BY <1>12, <2>1, <2>2, <3>2 DEF ReadFrame, Shapes
<2>3. CASE ~(f.kind # "note" /\ f.id \in pending)
  <3>1. inbound' = IF Len(inbound) < InboundCap THEN Append(inbound, f) ELSE inbound
    BY <1>12, <2>3 DEF ReadFrame
  <3>2. Len(Append(inbound, f)) = Len(inbound) + 1 /\ Append(inbound, f) \in Seq(Sent)
    BY <2>1 DEF Shapes
  <3>3. inbound' \in Seq(Sent) /\ Len(inbound') <= InboundCap
    BY <3>1, <3>2, ConstantsAssumption DEF Shapes, ConstantsAssumption
  <3>4. /\ pc' = pc /\ nextID' = nextID /\ id' = id /\ got' = got /\ mu' = mu
        /\ stdinMu' = stdinMu /\ pending' = pending /\ stdin' = stdin /\ lastFrame' = lastFrame
    BY <1>12, <2>3 DEF ReadFrame
  <3> QED
    BY <2>1, <3>3, <3>4 DEF Shapes
<2> QED
  BY <2>2, <2>3
<1>13. ASSUME ReaderEnds PROVE Shapes'
<2>1. got' \in [Callers -> Frames \cup {None}] /\ pending' \subseteq 1..nextID
  BY <1>13, FailureIsAFrame DEF ReaderEnds, Shapes, CloseAllPending
<2> QED
  BY <1>13, <2>1 DEF ReaderEnds, Shapes, callers, process
<1>14. ASSUME ReaderFails PROVE Shapes'
<2>1. got' \in [Callers -> Frames \cup {None}] /\ pending' \subseteq 1..nextID
  BY <1>14, FailureIsAFrame DEF ReaderFails, Shapes, CloseAllPending
<2> QED
  BY <1>14, <2>1 DEF ReaderFails, Shapes, callers, process
<1>15. ASSUME Reap PROVE Shapes'
<2>1. got' \in [Callers -> Frames \cup {None}] /\ pending' \subseteq 1..nextID
  BY <1>15, FailureIsAFrame DEF Reap, Shapes, CloseAllPending
<2>2. stdout' \in Seq(Sent)
  BY <1>15 DEF Reap
<2> QED
  BY <1>15, <2>1, <2>2 DEF Reap, Shapes
<1>16. ASSUME Terminate PROVE Shapes'
  BY <1>16, ConstantsAssumption
     DEF Terminate, Shapes, Outside, Loop, Mutex, Inside, Waiting, ConstantsAssumption,
         callers, process
<1>17. ASSUME CloseReturns PROVE Shapes'
  BY <1>17, ConstantsAssumption
     DEF CloseReturns, Shapes, Outside, Loop, Mutex, Inside, Waiting,
         ConstantsAssumption, callers, process
<1>18. ASSUME LoopTakes PROVE Shapes'
<2>1. inbound' \in Seq(Sent) /\ Len(inbound') <= InboundCap
  BY <1>18, ConstantsAssumption DEF LoopTakes, Shapes, ConstantsAssumption
<2> QED
  BY <1>18, <2>1 DEF LoopTakes, Shapes, callers, process
<1>19. ASSUME LoopRoots PROVE Shapes'
  BY <1>19, ConstantsAssumption
     DEF LoopRoots, Shapes, Outside, Loop, Mutex, Inside, Waiting, ConstantsAssumption,
         callers, process
<1>20. ASSUME SendRaw PROVE Shapes'
  BY <1>20, ConstantsAssumption
     DEF SendRaw, Shapes, Outside, Loop, Mutex, Inside, Waiting, ConstantsAssumption,
         callers, process
<1>21. ASSUME LoopStops PROVE Shapes'
  BY <1>21, ConstantsAssumption
     DEF LoopStops, Shapes, Outside, Loop, Mutex, Inside, Waiting, ConstantsAssumption,
         callers, process
<1>22. ASSUME Close PROVE Shapes'
  BY <1>22, ConstantsAssumption
     DEF Close, Shapes, Outside, Loop, Mutex, Inside, Waiting, ConstantsAssumption,
         callers, process
<1>23. CASE UNCHANGED vars
  BY <1>23
     DEF Shapes, Outside, Loop, Mutex, Inside, Waiting, ConstantsAssumption, vars,
         callers, process
<1> QED
  BY <1>1, <1>2, <1>3, <1>4, <1>5, <1>6, <1>7, <1>8, <1>9, <1>10, <1>11, <1>12, <1>13,
     <1>14, <1>15, <1>16, <1>17, <1>18, <1>19, <1>20, <1>21, <1>22, <1>23
     DEF Next, CallerStep, TransportStep, LoopStep

\* Only `Acquire' enters, only its owner moves inside, and who leaves frees the mutex.
LEMMA MutexStep ==
    ASSUME Shapes, Mutex, [Next]_vars
    PROVE  Mutex'
<1>1. ASSUME NEW c \in Callers, Call(c) PROVE Mutex'
  BY <1>1, ConstantsAssumption
     DEF Call, Shapes, Mutex, Inside, Waiting, ConstantsAssumption, callers, process
<1>2. ASSUME NEW c \in Callers, Acquire(c) PROVE Mutex'
  BY <1>2, ConstantsAssumption
     DEF Acquire, Shapes, Mutex, Inside, Waiting, ConstantsAssumption, callers,
         process, Returned
<1>3. ASSUME NEW c \in Callers, Register(c) PROVE Mutex'
  BY <1>3, ConstantsAssumption
     DEF Register, Shapes, Mutex, Inside, Waiting, ConstantsAssumption, callers, process
<1>4. ASSUME NEW c \in Callers, Write(c) PROVE Mutex'
  BY <1>4, ConstantsAssumption
     DEF Write, Shapes, Mutex, Inside, Waiting, ConstantsAssumption, callers, process,
         Returned
<1>5. ASSUME NEW c \in Callers, Receive(c) PROVE Mutex'
  BY <1>5, ConstantsAssumption
     DEF Receive, Shapes, Mutex, Inside, Waiting, ConstantsAssumption, callers,
         process, Returned
<1>6. ASSUME NEW c \in Callers, Recv(c) PROVE Mutex'
  BY <1>6, ConstantsAssumption
     DEF Recv, Shapes, Mutex, Inside, Waiting, ConstantsAssumption, callers, process,
         Returned
<1>7. ASSUME NEW c \in Callers, Cancel(c) PROVE Mutex'
  BY <1>7, ConstantsAssumption
     DEF Cancel, Shapes, Mutex, Inside, Waiting, ConstantsAssumption, callers, process,
         Returned
<1>8. ASSUME NEW c \in Callers, RecvCancelled(c) PROVE Mutex'
  BY <1>8, ConstantsAssumption
     DEF RecvCancelled, Shapes, Mutex, Inside, Waiting, ConstantsAssumption, callers,
         process, Returned
<1>9. ASSUME ChildAnswers PROVE Mutex'
  BY <1>9, ConstantsAssumption
     DEF ChildAnswers, Shapes, Mutex, Inside, Waiting, ConstantsAssumption, callers,
         process
<1>10. ASSUME ChildPushes PROVE Mutex'
  BY <1>10, ConstantsAssumption
     DEF ChildPushes, Shapes, Mutex, Inside, Waiting, ConstantsAssumption, callers,
         process
<1>11. ASSUME ChildExits PROVE Mutex'
  BY <1>11, ConstantsAssumption
     DEF ChildExits, Shapes, Mutex, Inside, Waiting, ConstantsAssumption, callers,
         process
<1>12. ASSUME ReadFrame PROVE Mutex'
  BY <1>12, ConstantsAssumption
     DEF ReadFrame, Shapes, Mutex, Inside, Waiting, ConstantsAssumption, callers,
         process
<1>13. ASSUME ReaderEnds PROVE Mutex'
  BY <1>13, ConstantsAssumption
     DEF ReaderEnds, Shapes, Mutex, Inside, Waiting, ConstantsAssumption, callers,
         process, CloseAllPending
<1>14. ASSUME ReaderFails PROVE Mutex'
  BY <1>14, ConstantsAssumption
     DEF ReaderFails, Shapes, Mutex, Inside, Waiting, ConstantsAssumption, callers,
         process, CloseAllPending
<1>15. ASSUME Reap PROVE Mutex'
  BY <1>15, ConstantsAssumption
     DEF Reap, Shapes, Mutex, Inside, Waiting, ConstantsAssumption, callers, process,
         CloseAllPending
<1>16. ASSUME Terminate PROVE Mutex'
  BY <1>16, ConstantsAssumption
     DEF Terminate, Shapes, Mutex, Inside, Waiting, ConstantsAssumption, callers,
         process
<1>17. ASSUME CloseReturns PROVE Mutex'
  BY <1>17, ConstantsAssumption
     DEF CloseReturns, Shapes, Mutex, Inside, Waiting, ConstantsAssumption, callers,
         process
<1>18. ASSUME LoopTakes PROVE Mutex'
  BY <1>18 DEF LoopTakes, Mutex, Inside, Waiting, callers
<1>19. ASSUME LoopRoots PROVE Mutex'
  BY <1>19, ConstantsAssumption
     DEF LoopRoots, Shapes, Mutex, Inside, Waiting, ConstantsAssumption, callers,
         process
<1>20. ASSUME SendRaw PROVE Mutex'
  BY <1>20, ConstantsAssumption
     DEF SendRaw, Shapes, Mutex, Inside, Waiting, ConstantsAssumption, callers, process
<1>21. ASSUME LoopStops PROVE Mutex'
  BY <1>21, ConstantsAssumption
     DEF LoopStops, Shapes, Mutex, Inside, Waiting, ConstantsAssumption, callers,
         process
<1>22. ASSUME Close PROVE Mutex'
  BY <1>22, ConstantsAssumption
     DEF Close, Shapes, Mutex, Inside, Waiting, ConstantsAssumption, callers, process
<1>23. CASE UNCHANGED vars
  BY <1>23
     DEF Shapes, Mutex, Inside, Waiting, ConstantsAssumption, vars, callers, process
<1> QED
  BY <1>1, <1>2, <1>3, <1>4, <1>5, <1>6, <1>7, <1>8, <1>9, <1>10, <1>11, <1>12, <1>13,
     <1>14, <1>15, <1>16, <1>17, <1>18, <1>19, <1>20, <1>21, <1>22, <1>23
     DEF Next, CallerStep, TransportStep, LoopStep

\* The child marks the ids of its own requests as it writes them; frames it has
\* written are read in order or lost.
LEMMA LabelledStep ==
    ASSUME Shapes, Labelled, [Next]_vars
    PROVE  Labelled' /\ theirs \subseteq theirs'
<1>1. CASE UNCHANGED <<stdout, theirs>>
  BY <1>1 DEF Labelled
<1>2. CASE stdout # <<>> /\ stdout' = Tail(stdout) /\ theirs' = theirs
  BY <1>2 DEF Labelled, Shapes
<1>3. CASE stdout' = <<>> /\ theirs' = theirs
  BY <1>3 DEF Labelled
<1>4. CASE ChildAnswers
  <2>1. PICK i \in stdin : stdout' = Append(stdout, [kind |-> "answer", id |-> i])
    BY <1>4 DEF ChildAnswers
  <2>2. theirs' = theirs
    BY <1>4 DEF ChildAnswers
  <2> QED
    BY <2>1, <2>2 DEF Labelled, Shapes
<1>5. CASE ChildPushes
  <2>1. CASE stdout' = Append(stdout, [kind |-> "note", id |-> 0]) /\ theirs' = theirs
    BY <2>1 DEF Labelled, Shapes
  <2>2. CASE \E kind \in {"ping", "roots"}, i \in 0..MaxCalls :
               /\ stdout' = Append(stdout, [kind |-> kind, id |-> i])
               /\ theirs' = theirs \cup {i}
    BY <2>2 DEF Labelled, Shapes
  <2> QED
    BY <1>5, <2>1, <2>2 DEF ChildPushes
<1> QED
  BY <1>1, <1>2, <1>3, <1>4, <1>5
     DEF Next, CallerStep, TransportStep, LoopStep, vars, callers, process, Call, Acquire,
         Register, Write, Receive, Recv, Cancel, RecvCancelled, ChildExits, ReadFrame,
         ReaderEnds, ReaderFails, Reap, Terminate, CloseReturns, LoopTakes, LoopRoots,
         SendRaw, LoopStops, Close

\* The reader puts a frame into the channel of the caller that has its id; the
\* end of a call empties its channel.
LEMMA AddressedStep ==
    ASSUME Shapes, Mutex, Labelled, Addressed, [Next]_vars
    PROVE  Addressed'
<1>1. ASSUME NEW c \in Callers, Call(c) PROVE Addressed'
  BY <1>1, ConstantsAssumption, FailureIsAFrame
     DEF Call, Shapes, Addressed, Failure, Mutex, Inside, Waiting, ConstantsAssumption,
         callers, process
<1>2. ASSUME NEW c \in Callers, Acquire(c) PROVE Addressed'
  BY <1>2, ConstantsAssumption, FailureIsAFrame
     DEF Acquire, Shapes, Addressed, Failure, Mutex, Inside, Waiting,
         ConstantsAssumption, callers, process, Returned
<1>3. ASSUME NEW c \in Callers, Register(c) PROVE Addressed'
  BY <1>3, ConstantsAssumption, FailureIsAFrame
     DEF Register, Shapes, Addressed, Failure, Mutex, Inside, Waiting,
         ConstantsAssumption, callers, process
<1>4. ASSUME NEW c \in Callers, Write(c) PROVE Addressed'
  BY <1>4, ConstantsAssumption, FailureIsAFrame
     DEF Write, Shapes, Addressed, Failure, Mutex, Inside, Waiting,
         ConstantsAssumption, callers, process, Returned
<1>5. ASSUME NEW c \in Callers, Receive(c) PROVE Addressed'
  BY <1>5, ConstantsAssumption, FailureIsAFrame
     DEF Receive, Shapes, Addressed, Failure, Mutex, Inside, Waiting,
         ConstantsAssumption, callers, process, Returned
<1>6. ASSUME NEW c \in Callers, Recv(c) PROVE Addressed'
  BY <1>6, ConstantsAssumption, FailureIsAFrame
     DEF Recv, Shapes, Addressed, Failure, Mutex, Inside, Waiting, ConstantsAssumption,
         callers, process, Returned
<1>7. ASSUME NEW c \in Callers, Cancel(c) PROVE Addressed'
  BY <1>7, ConstantsAssumption, FailureIsAFrame
     DEF Cancel, Shapes, Addressed, Failure, Mutex, Inside, Waiting,
         ConstantsAssumption, callers, process, Returned
<1>8. ASSUME NEW c \in Callers, RecvCancelled(c) PROVE Addressed'
  BY <1>8, ConstantsAssumption, FailureIsAFrame
     DEF RecvCancelled, Shapes, Addressed, Failure, Mutex, Inside, Waiting,
         ConstantsAssumption, callers, process, Returned
<1>9. ASSUME ChildAnswers PROVE Addressed'
  BY <1>9, ConstantsAssumption, FailureIsAFrame
     DEF ChildAnswers, Shapes, Addressed, Failure, Mutex, Inside, Waiting,
         ConstantsAssumption, callers, process
<1>10. ASSUME ChildPushes PROVE Addressed'
  BY <1>10, ConstantsAssumption, FailureIsAFrame
     DEF ChildPushes, Shapes, Addressed, Failure, Mutex, Inside, Waiting,
         ConstantsAssumption, callers, process
<1>11. ASSUME ChildExits PROVE Addressed'
  BY <1>11, ConstantsAssumption, FailureIsAFrame
     DEF ChildExits, Shapes, Addressed, Failure, Mutex, Inside, Waiting,
         ConstantsAssumption, callers, process
<1>12. ASSUME ReadFrame PROVE Addressed'
  <2> DEFINE f == Head(stdout)
  <2>1. UNCHANGED <<pc, id, theirs>>
    BY <1>12 DEF ReadFrame
  <2>2. CASE f.kind # "note" /\ f.id \in pending
    <3>0. f = stdout[1] /\ 1 \in 1..Len(stdout) /\ f \in Sent
      BY <1>12 DEF ReadFrame, Shapes
    <3>1. f.kind = "answer" \/ f.id \in theirs
      BY <2>2, <3>0 DEF Labelled, Sent
    <3>2. got' = [c \in Callers |-> IF c \in Owners({f.id}) THEN f ELSE got[c]]
      BY <1>12, <2>2 DEF ReadFrame
    <3> HIDE DEF f
    <3> QED
      BY <2>1, <3>1, <3>2 DEF Addressed, Owners, Waiting
  <2>3. CASE ~(f.kind # "note" /\ f.id \in pending)
    BY <1>12, <2>1, <2>3 DEF ReadFrame, Addressed
  <2> QED
    BY <2>2, <2>3
<1>13. ASSUME ReaderEnds PROVE Addressed'
  BY <1>13, ConstantsAssumption, FailureIsAFrame
     DEF ReaderEnds, Shapes, Addressed, Failure, Mutex, Inside, Waiting,
         ConstantsAssumption, callers, process, CloseAllPending, Owners
<1>14. ASSUME ReaderFails PROVE Addressed'
  BY <1>14, ConstantsAssumption, FailureIsAFrame
     DEF ReaderFails, Shapes, Addressed, Failure, Mutex, Inside, Waiting,
         ConstantsAssumption, callers, process, CloseAllPending, Owners
<1>15. ASSUME Reap PROVE Addressed'
  BY <1>15, ConstantsAssumption, FailureIsAFrame
     DEF Reap, Shapes, Addressed, Failure, Mutex, Inside, Waiting, ConstantsAssumption,
         callers, process, CloseAllPending, Owners
<1>16. ASSUME Terminate PROVE Addressed'
  BY <1>16, ConstantsAssumption, FailureIsAFrame
     DEF Terminate, Shapes, Addressed, Failure, Mutex, Inside, Waiting,
         ConstantsAssumption, callers, process
<1>17. ASSUME CloseReturns PROVE Addressed'
  BY <1>17, ConstantsAssumption, FailureIsAFrame
     DEF CloseReturns, Shapes, Addressed, Failure, Mutex, Inside, Waiting,
         ConstantsAssumption, callers, process
<1>18. ASSUME LoopTakes PROVE Addressed'
  BY <1>18 DEF LoopTakes, Addressed, Waiting, callers, process
<1>19. ASSUME LoopRoots PROVE Addressed'
  BY <1>19, ConstantsAssumption, FailureIsAFrame
     DEF LoopRoots, Shapes, Addressed, Failure, Mutex, Inside, Waiting,
         ConstantsAssumption, callers, process
<1>20. ASSUME SendRaw PROVE Addressed'
  BY <1>20, ConstantsAssumption, FailureIsAFrame
     DEF SendRaw, Shapes, Addressed, Failure, Mutex, Inside, Waiting,
         ConstantsAssumption, callers, process
<1>21. ASSUME LoopStops PROVE Addressed'
  BY <1>21, ConstantsAssumption, FailureIsAFrame
     DEF LoopStops, Shapes, Addressed, Failure, Mutex, Inside, Waiting,
         ConstantsAssumption, callers, process
<1>22. ASSUME Close PROVE Addressed'
  BY <1>22, ConstantsAssumption, FailureIsAFrame
     DEF Close, Shapes, Addressed, Failure, Mutex, Inside, Waiting,
         ConstantsAssumption, callers, process
<1>23. CASE UNCHANGED vars
  BY <1>23
     DEF Shapes, Addressed, Failure, Mutex, Inside, Waiting, ConstantsAssumption, vars,
         callers, process
<1> QED
  BY <1>1, <1>2, <1>3, <1>4, <1>5, <1>6, <1>7, <1>8, <1>9, <1>10, <1>11, <1>12, <1>13,
     <1>14, <1>15, <1>16, <1>17, <1>18, <1>19, <1>20, <1>21, <1>22, <1>23
     DEF Next, CallerStep, TransportStep, LoopStep

\* An id leaves the pending map when its caller is told, or returns.
LEMMA KnownStep ==
    ASSUME Shapes, Mutex, Addressed, Known, [Next]_vars
    PROVE  Known'
<1>1. ASSUME NEW c \in Callers, Call(c) PROVE Known'
  BY <1>1, ConstantsAssumption, FailureIsAFrame
     DEF Call, Shapes, Addressed, Known, Failure, Mutex, Inside, Waiting,
         ConstantsAssumption, callers, process
<1>2. ASSUME NEW c \in Callers, Acquire(c) PROVE Known'
  BY <1>2, ConstantsAssumption, FailureIsAFrame
     DEF Acquire, Shapes, Addressed, Known, Failure, Mutex, Inside, Waiting,
         ConstantsAssumption, callers, process, Returned
<1>3. ASSUME NEW c \in Callers, Register(c) PROVE Known'
  BY <1>3, ConstantsAssumption, FailureIsAFrame
     DEF Register, Shapes, Addressed, Known, Failure, Mutex, Inside, Waiting,
         ConstantsAssumption, callers, process
<1>4. ASSUME NEW c \in Callers, Write(c) PROVE Known'
  BY <1>4, ConstantsAssumption, FailureIsAFrame
     DEF Write, Shapes, Addressed, Known, Failure, Mutex, Inside, Waiting,
         ConstantsAssumption, callers, process, Returned
<1>5. ASSUME NEW c \in Callers, Receive(c) PROVE Known'
  BY <1>5, ConstantsAssumption, FailureIsAFrame
     DEF Receive, Shapes, Addressed, Known, Failure, Mutex, Inside, Waiting,
         ConstantsAssumption, callers, process, Returned
<1>6. ASSUME NEW c \in Callers, Recv(c) PROVE Known'
  BY <1>6, ConstantsAssumption, FailureIsAFrame
     DEF Recv, Shapes, Addressed, Known, Failure, Mutex, Inside, Waiting,
         ConstantsAssumption, callers, process, Returned
<1>7. ASSUME NEW c \in Callers, Cancel(c) PROVE Known'
  BY <1>7, ConstantsAssumption, FailureIsAFrame
     DEF Cancel, Shapes, Addressed, Known, Failure, Mutex, Inside, Waiting,
         ConstantsAssumption, callers, process, Returned
<1>8. ASSUME NEW c \in Callers, RecvCancelled(c) PROVE Known'
  BY <1>8, ConstantsAssumption, FailureIsAFrame
     DEF RecvCancelled, Shapes, Addressed, Known, Failure, Mutex, Inside, Waiting,
         ConstantsAssumption, callers, process, Returned
<1>9. ASSUME ChildAnswers PROVE Known'
  BY <1>9, ConstantsAssumption, FailureIsAFrame
     DEF ChildAnswers, Shapes, Addressed, Known, Failure, Mutex, Inside, Waiting,
         ConstantsAssumption, callers, process
<1>10. ASSUME ChildPushes PROVE Known'
  BY <1>10, ConstantsAssumption, FailureIsAFrame
     DEF ChildPushes, Shapes, Addressed, Known, Failure, Mutex, Inside, Waiting,
         ConstantsAssumption, callers, process
<1>11. ASSUME ChildExits PROVE Known'
  BY <1>11, ConstantsAssumption, FailureIsAFrame
     DEF ChildExits, Shapes, Addressed, Known, Failure, Mutex, Inside, Waiting,
         ConstantsAssumption, callers, process
<1>12. ASSUME ReadFrame PROVE Known'
<2> DEFINE f == Head(stdout)
<2>1. pc' = pc /\ id' = id
  BY <1>12 DEF ReadFrame
<2>2. CASE f.kind # "note" /\ f.id \in pending
  <3>1. f \in Sent
    BY <1>12 DEF ReadFrame, Shapes
  <3>2. f # None
    BY <2>2, <3>1, ConstantsAssumption DEF Sent, Frames, ConstantsAssumption
  <3>3. /\ got' = [c \in Callers |-> IF c \in Owners({f.id}) THEN f ELSE got[c]]
        /\ pending' = pending \ {f.id}
    BY <1>12, <2>2 DEF ReadFrame
  <3> QED
    BY <2>1, <3>2, <3>3 DEF Known, Owners
<2>3. CASE ~(f.kind # "note" /\ f.id \in pending)
  BY <1>12, <2>1, <2>3 DEF ReadFrame, Known
<2> QED
  BY <2>2, <2>3
<1>13. ASSUME ReaderEnds PROVE Known'
  BY <1>13, ConstantsAssumption, FailureIsAFrame
     DEF ReaderEnds, Shapes, Addressed, Known, Failure, Mutex, Inside, Waiting,
         ConstantsAssumption, callers, process, CloseAllPending, Owners
<1>14. ASSUME ReaderFails PROVE Known'
  BY <1>14, ConstantsAssumption, FailureIsAFrame
     DEF ReaderFails, Shapes, Addressed, Known, Failure, Mutex, Inside, Waiting,
         ConstantsAssumption, callers, process, CloseAllPending, Owners
<1>15. ASSUME Reap PROVE Known'
  BY <1>15, ConstantsAssumption, FailureIsAFrame
     DEF Reap, Shapes, Addressed, Known, Failure, Mutex, Inside, Waiting,
         ConstantsAssumption, callers, process, CloseAllPending, Owners
<1>16. ASSUME Terminate PROVE Known'
  BY <1>16, ConstantsAssumption, FailureIsAFrame
     DEF Terminate, Shapes, Addressed, Known, Failure, Mutex, Inside, Waiting,
         ConstantsAssumption, callers, process
<1>17. ASSUME CloseReturns PROVE Known'
  BY <1>17, ConstantsAssumption, FailureIsAFrame
     DEF CloseReturns, Shapes, Addressed, Known, Failure, Mutex, Inside, Waiting,
         ConstantsAssumption, callers, process
<1>18. ASSUME LoopTakes PROVE Known'
  BY <1>18 DEF LoopTakes, Known, callers
<1>19. ASSUME LoopRoots PROVE Known'
  BY <1>19, ConstantsAssumption, FailureIsAFrame
     DEF LoopRoots, Shapes, Addressed, Known, Failure, Mutex, Inside, Waiting,
         ConstantsAssumption, callers, process
<1>20. ASSUME SendRaw PROVE Known'
  BY <1>20, ConstantsAssumption, FailureIsAFrame
     DEF SendRaw, Shapes, Addressed, Known, Failure, Mutex, Inside, Waiting,
         ConstantsAssumption, callers, process
<1>21. ASSUME LoopStops PROVE Known'
  BY <1>21, ConstantsAssumption, FailureIsAFrame
     DEF LoopStops, Shapes, Addressed, Known, Failure, Mutex, Inside, Waiting,
         ConstantsAssumption, callers, process
<1>22. ASSUME Close PROVE Known'
  BY <1>22, ConstantsAssumption, FailureIsAFrame
     DEF Close, Shapes, Addressed, Known, Failure, Mutex, Inside, Waiting,
         ConstantsAssumption, callers, process
<1>23. CASE UNCHANGED vars
  BY <1>23
     DEF Shapes, Addressed, Known, Failure, Mutex, Inside, Waiting,
         ConstantsAssumption, vars, callers, process
<1> QED
  BY <1>1, <1>2, <1>3, <1>4, <1>5, <1>6, <1>7, <1>8, <1>9, <1>10, <1>11, <1>12, <1>13,
     <1>14, <1>15, <1>16, <1>17, <1>18, <1>19, <1>20, <1>21, <1>22, <1>23
     DEF Next, CallerStep, TransportStep, LoopStep

\* What a caller keeps as its answer is what its channel held, and stays until
\* it returns: nobody else is inside.
LEMMA OwnAnswerStep ==
    ASSUME Shapes, Mutex, Addressed, OwnAnswer, [Next]_vars
    PROVE  OwnAnswer'
<1>1. ASSUME NEW c \in Callers, Call(c) PROVE OwnAnswer'
  BY <1>1, ConstantsAssumption
     DEF Call, Shapes, Addressed, OwnAnswer, Mutex, Inside, Waiting,
         ConstantsAssumption, callers, process
<1>2. ASSUME NEW c \in Callers, Acquire(c) PROVE OwnAnswer'
  BY <1>2, ConstantsAssumption
     DEF Acquire, Shapes, Addressed, OwnAnswer, Mutex, Inside, Waiting,
         ConstantsAssumption, callers, process, Returned
<1>3. ASSUME NEW c \in Callers, Register(c) PROVE OwnAnswer'
  BY <1>3, ConstantsAssumption
     DEF Register, Shapes, Addressed, OwnAnswer, Mutex, Inside, Waiting,
         ConstantsAssumption, callers, process
<1>4. ASSUME NEW c \in Callers, Write(c) PROVE OwnAnswer'
  BY <1>4, ConstantsAssumption
     DEF Write, Shapes, Addressed, OwnAnswer, Mutex, Inside, Waiting,
         ConstantsAssumption, callers, process, Returned
<1>5. ASSUME NEW c \in Callers, Receive(c) PROVE OwnAnswer'
<2>1. CASE got[c].kind = "error"
  BY <1>5, <2>1 DEF Receive, Returned, OwnAnswer, Shapes, process
<2>2. CASE got[c].kind # "error"
  <3>1. got[c].id = id[c] /\ (id[c] \notin theirs => got[c].kind = "answer")
    BY <1>5, <2>2 DEF Receive, Shapes, Addressed, Frames
  <3> QED
    BY <1>5, <2>2, <3>1 DEF Receive, OwnAnswer, Shapes, Mutex, Inside, Waiting, process
<2> QED
  BY <2>1, <2>2
<1>6. ASSUME NEW c \in Callers, Recv(c) PROVE OwnAnswer'
  BY <1>6, ConstantsAssumption
     DEF Recv, Shapes, Addressed, OwnAnswer, Mutex, Inside, Waiting,
         ConstantsAssumption, callers, process, Returned
<1>7. ASSUME NEW c \in Callers, Cancel(c) PROVE OwnAnswer'
  BY <1>7, ConstantsAssumption
     DEF Cancel, Shapes, Addressed, OwnAnswer, Mutex, Inside, Waiting,
         ConstantsAssumption, callers, process, Returned
<1>8. ASSUME NEW c \in Callers, RecvCancelled(c) PROVE OwnAnswer'
  BY <1>8, ConstantsAssumption
     DEF RecvCancelled, Shapes, Addressed, OwnAnswer, Mutex, Inside, Waiting,
         ConstantsAssumption, callers, process, Returned
<1>9. ASSUME ChildAnswers PROVE OwnAnswer'
  BY <1>9, ConstantsAssumption
     DEF ChildAnswers, Shapes, Addressed, OwnAnswer, Mutex, Inside, Waiting,
         ConstantsAssumption, callers, process
<1>10. ASSUME ChildPushes PROVE OwnAnswer'
  BY <1>10, ConstantsAssumption
     DEF ChildPushes, Shapes, Addressed, OwnAnswer, Mutex, Inside, Waiting,
         ConstantsAssumption, callers, process
<1>11. ASSUME ChildExits PROVE OwnAnswer'
  BY <1>11, ConstantsAssumption
     DEF ChildExits, Shapes, Addressed, OwnAnswer, Mutex, Inside, Waiting,
         ConstantsAssumption, callers, process
<1>12. ASSUME ReadFrame PROVE OwnAnswer'
  BY <1>12, ConstantsAssumption
     DEF ReadFrame, Shapes, Addressed, OwnAnswer, Mutex, Inside, Waiting,
         ConstantsAssumption, callers, process, Owners
<1>13. ASSUME ReaderEnds PROVE OwnAnswer'
  BY <1>13, ConstantsAssumption
     DEF ReaderEnds, Shapes, Addressed, OwnAnswer, Mutex, Inside, Waiting,
         ConstantsAssumption, callers, process, CloseAllPending, Owners
<1>14. ASSUME ReaderFails PROVE OwnAnswer'
  BY <1>14, ConstantsAssumption
     DEF ReaderFails, Shapes, Addressed, OwnAnswer, Mutex, Inside, Waiting,
         ConstantsAssumption, callers, process, CloseAllPending, Owners
<1>15. ASSUME Reap PROVE OwnAnswer'
  BY <1>15, ConstantsAssumption
     DEF Reap, Shapes, Addressed, OwnAnswer, Mutex, Inside, Waiting,
         ConstantsAssumption, callers, process, CloseAllPending, Owners
<1>16. ASSUME Terminate PROVE OwnAnswer'
  BY <1>16, ConstantsAssumption
     DEF Terminate, Shapes, Addressed, OwnAnswer, Mutex, Inside, Waiting,
         ConstantsAssumption, callers, process
<1>17. ASSUME CloseReturns PROVE OwnAnswer'
  BY <1>17, ConstantsAssumption
     DEF CloseReturns, Shapes, Addressed, OwnAnswer, Mutex, Inside, Waiting,
         ConstantsAssumption, callers, process
<1>18. ASSUME LoopTakes PROVE OwnAnswer'
  BY <1>18 DEF LoopTakes, OwnAnswer, callers, process
<1>19. ASSUME LoopRoots PROVE OwnAnswer'
  BY <1>19, ConstantsAssumption
     DEF LoopRoots, Shapes, Addressed, OwnAnswer, Mutex, Inside, Waiting,
         ConstantsAssumption, callers, process
<1>20. ASSUME SendRaw PROVE OwnAnswer'
  BY <1>20, ConstantsAssumption
     DEF SendRaw, Shapes, Addressed, OwnAnswer, Mutex, Inside, Waiting,
         ConstantsAssumption, callers, process
<1>21. ASSUME LoopStops PROVE OwnAnswer'
  BY <1>21, ConstantsAssumption
     DEF LoopStops, Shapes, Addressed, OwnAnswer, Mutex, Inside, Waiting,
         ConstantsAssumption, callers, process
<1>22. ASSUME Close PROVE OwnAnswer'
  BY <1>22, ConstantsAssumption
     DEF Close, Shapes, Addressed, OwnAnswer, Mutex, Inside, Waiting,
         ConstantsAssumption, callers, process
<1>23. CASE UNCHANGED vars
  BY <1>23
     DEF Shapes, Addressed, OwnAnswer, Mutex, Inside, Waiting, ConstantsAssumption,
         vars, callers, process
<1> QED
  BY <1>1, <1>2, <1>3, <1>4, <1>5, <1>6, <1>7, <1>8, <1>9, <1>10, <1>11, <1>12, <1>13,
     <1>14, <1>15, <1>16, <1>17, <1>18, <1>19, <1>20, <1>21, <1>22, <1>23
     DEF Next, CallerStep, TransportStep, LoopStep

\* Nobody begins to wait for a child that is gone, and who waited when it was
\* reaped was told.
LEMMA ReapedStep ==
    ASSUME Shapes, Mutex, Known, ReapedWakesAll, [Next]_vars
    PROVE  ReapedWakesAll'
<1>1. ASSUME NEW c \in Callers, Call(c) PROVE ReapedWakesAll'
  BY <1>1, ConstantsAssumption, FailureIsAFrame
     DEF Call, Shapes, Known, ReapedWakesAll, Failure, Mutex, Inside, Waiting,
         ConstantsAssumption, callers, process
<1>2. ASSUME NEW c \in Callers, Acquire(c) PROVE ReapedWakesAll'
  BY <1>2, ConstantsAssumption, FailureIsAFrame
     DEF Acquire, Shapes, Known, ReapedWakesAll, Failure, Mutex, Inside, Waiting,
         ConstantsAssumption, callers, process, Returned
<1>3. ASSUME NEW c \in Callers, Register(c) PROVE ReapedWakesAll'
  BY <1>3, ConstantsAssumption, FailureIsAFrame
     DEF Register, Shapes, Known, ReapedWakesAll, Failure, Mutex, Inside, Waiting,
         ConstantsAssumption, callers, process
<1>4. ASSUME NEW c \in Callers, Write(c) PROVE ReapedWakesAll'
  BY <1>4, ConstantsAssumption, FailureIsAFrame
     DEF Write, Shapes, Known, ReapedWakesAll, Failure, Mutex, Inside, Waiting,
         ConstantsAssumption, callers, process, Returned
<1>5. ASSUME NEW c \in Callers, Receive(c) PROVE ReapedWakesAll'
  BY <1>5, ConstantsAssumption, FailureIsAFrame
     DEF Receive, Shapes, Known, ReapedWakesAll, Failure, Mutex, Inside, Waiting,
         ConstantsAssumption, callers, process, Returned
<1>6. ASSUME NEW c \in Callers, Recv(c) PROVE ReapedWakesAll'
  BY <1>6, ConstantsAssumption, FailureIsAFrame
     DEF Recv, Shapes, Known, ReapedWakesAll, Failure, Mutex, Inside, Waiting,
         ConstantsAssumption, callers, process, Returned
<1>7. ASSUME NEW c \in Callers, Cancel(c) PROVE ReapedWakesAll'
  BY <1>7, ConstantsAssumption, FailureIsAFrame
     DEF Cancel, Shapes, Known, ReapedWakesAll, Failure, Mutex, Inside, Waiting,
         ConstantsAssumption, callers, process, Returned
<1>8. ASSUME NEW c \in Callers, RecvCancelled(c) PROVE ReapedWakesAll'
  BY <1>8, ConstantsAssumption, FailureIsAFrame
     DEF RecvCancelled, Shapes, Known, ReapedWakesAll, Failure, Mutex, Inside, Waiting,
         ConstantsAssumption, callers, process, Returned
<1>9. ASSUME ChildAnswers PROVE ReapedWakesAll'
  BY <1>9, ConstantsAssumption, FailureIsAFrame
     DEF ChildAnswers, Shapes, Known, ReapedWakesAll, Failure, Mutex, Inside, Waiting,
         ConstantsAssumption, callers, process
<1>10. ASSUME ChildPushes PROVE ReapedWakesAll'
  BY <1>10, ConstantsAssumption, FailureIsAFrame
     DEF ChildPushes, Shapes, Known, ReapedWakesAll, Failure, Mutex, Inside, Waiting,
         ConstantsAssumption, callers, process
<1>11. ASSUME ChildExits PROVE ReapedWakesAll'
  BY <1>11, ConstantsAssumption, FailureIsAFrame
     DEF ChildExits, Shapes, Known, ReapedWakesAll, Failure, Mutex, Inside, Waiting,
         ConstantsAssumption, callers, process
<1>12. ASSUME ReadFrame PROVE ReapedWakesAll'
  BY <1>12, ConstantsAssumption, FailureIsAFrame
     DEF ReadFrame, Shapes, Known, ReapedWakesAll, Failure, Mutex, Inside, Waiting,
         ConstantsAssumption, callers, process, Owners
<1>13. ASSUME ReaderEnds PROVE ReapedWakesAll'
  BY <1>13, ConstantsAssumption, FailureIsAFrame
     DEF ReaderEnds, Shapes, Known, ReapedWakesAll, Failure, Mutex, Inside, Waiting,
         ConstantsAssumption, callers, process, CloseAllPending, Owners
<1>14. ASSUME ReaderFails PROVE ReapedWakesAll'
  BY <1>14, ConstantsAssumption, FailureIsAFrame
     DEF ReaderFails, Shapes, Known, ReapedWakesAll, Failure, Mutex, Inside, Waiting,
         ConstantsAssumption, callers, process, CloseAllPending, Owners
<1>15. ASSUME Reap PROVE ReapedWakesAll'
  BY <1>15, ConstantsAssumption, FailureIsAFrame
     DEF Reap, Shapes, Known, ReapedWakesAll, Failure, Mutex, Inside, Waiting,
         ConstantsAssumption, callers, process, CloseAllPending, Owners
<1>16. ASSUME Terminate PROVE ReapedWakesAll'
  BY <1>16, ConstantsAssumption, FailureIsAFrame
     DEF Terminate, Shapes, Known, ReapedWakesAll, Failure, Mutex, Inside, Waiting,
         ConstantsAssumption, callers, process
<1>17. ASSUME CloseReturns PROVE ReapedWakesAll'
  BY <1>17, ConstantsAssumption, FailureIsAFrame
     DEF CloseReturns, Shapes, Known, ReapedWakesAll, Failure, Mutex, Inside, Waiting,
         ConstantsAssumption, callers, process
<1>18. ASSUME LoopTakes PROVE ReapedWakesAll'
  BY <1>18 DEF LoopTakes, ReapedWakesAll, callers, process
<1>19. ASSUME LoopRoots PROVE ReapedWakesAll'
  BY <1>19, ConstantsAssumption, FailureIsAFrame
     DEF LoopRoots, Shapes, Known, ReapedWakesAll, Failure, Mutex, Inside, Waiting,
         ConstantsAssumption, callers, process
<1>20. ASSUME SendRaw PROVE ReapedWakesAll'
  BY <1>20, ConstantsAssumption, FailureIsAFrame
     DEF SendRaw, Shapes, Known, ReapedWakesAll, Failure, Mutex, Inside, Waiting,
         ConstantsAssumption, callers, process
<1>21. ASSUME LoopStops PROVE ReapedWakesAll'
  BY <1>21, ConstantsAssumption, FailureIsAFrame
     DEF LoopStops, Shapes, Known, ReapedWakesAll, Failure, Mutex, Inside, Waiting,
         ConstantsAssumption, callers, process
<1>22. ASSUME Close PROVE ReapedWakesAll'
  BY <1>22, ConstantsAssumption, FailureIsAFrame
     DEF Close, Shapes, Known, ReapedWakesAll, Failure, Mutex, Inside, Waiting,
         ConstantsAssumption, callers, process
<1>23. CASE UNCHANGED vars
  BY <1>23
     DEF Shapes, Known, ReapedWakesAll, Failure, Mutex, Inside, Waiting,
         ConstantsAssumption, vars, callers, process
<1> QED
  BY <1>1, <1>2, <1>3, <1>4, <1>5, <1>6, <1>7, <1>8, <1>9, <1>10, <1>11, <1>12, <1>13,
     <1>14, <1>15, <1>16, <1>17, <1>18, <1>19, <1>20, <1>21, <1>22, <1>23
     DEF Next, CallerStep, TransportStep, LoopStep

-----------------------------------------------------------------------------
LEMMA StepInv == IInv /\ [Next]_vars => IInv'
BY ShapesStep, MutexStep, LabelledStep, AddressedStep, KnownStep, OwnAnswerStep, ReapedStep DEF IInv

\* In every reachable state callers, channels, pending ids and the child agree.
THEOREM Inductive == Spec => []IInv
BY InitInv, StepInv, PTL DEF Spec

\* Type correctness of the client and its transport, the owner of the mutex
\* among it.
THEOREM TypeCorrect == Spec => []TypeOK
<1>1. IInv => TypeOK
  BY DEF IInv, TypeOK, Shapes, Mutex, Outside, Inside, Waiting
<1> QED
  BY <1>1, Inductive, PTL

\* A call returns a frame with the id of its own request, and its own answer unless
\* the child has given that id to a request of its own, whatever was left behind by
\* calls before it, for any number of callers and requests (stdio.go Recv).
THEOREM Answering == Spec => []OwnAnswer
<1>1. IInv => OwnAnswer
  BY DEF IInv
<1> QED
  BY <1>1, Inductive, PTL

\* Nobody waits for what cannot come: a caller that waits is pending or has
\* been told, and has been told once the child is reaped (stdio_io.go).
THEOREM Waking == Spec => []WaitersAreWoken
<1>1. IInv => WaitersAreWoken
  BY DEF IInv, WaitersAreWoken, WokenOrPending, Known
<1> QED
  BY <1>1, Inductive, PTL

-----------------------------------------------------------------------------
(***************************************************************************)
(* Calls over an event stream.                                             *)
(***************************************************************************)

SseCalls == {"post", "await", "recv"}      \* registered with the reader
SseInside == {"register"} \cup SseCalls

\* What the server writes.
Written == [kind : {"endpoint", "answer", "ping", "roots"}, id : Nat]

CallerShapes ==
    /\ ssePc \in [Callers -> Outside \cup SseInside]
    /\ sseNextID \in 0 .. MaxSseCalls
    /\ sseId \in [Callers -> 0 .. sseNextID]
    /\ sseGot \in [Callers -> S!Frames \cup {None}]
    /\ ssePending \subseteq 1 .. sseNextID
    /\ sseLastFrame \in S!Frames \cup {None}

StreamShapes ==
    /\ stream \in 0 .. MaxStreams /\ endpoint \in 0 .. stream
    /\ late \subseteq Callers /\ asked \subseteq Nat
    /\ events \in Seq(Written)
    /\ sseInbound \in Seq(Written) /\ Len(sseInbound) <= InboundCap

\* An endpoint is that of a stream the reader has opened.
Announced ==
    \A k \in 1 .. Len(events) : events[k].kind = "endpoint" => events[k].id <= stream

\* Only the owner of the client's mutex is between Send and the end of Recv, under an
\* id it has drawn.
SseMutex ==
    \A c \in Callers :
        /\ ssePc[c] \in SseInside <=> sseMu = c
        /\ ssePc[c] \in SseInside => sseId[c] \in 1 .. sseNextID

\* A request of the server has an id the server has used.
SseLabelled ==
    \A k \in 1 .. Len(events) : events[k].kind \in {"ping", "roots"} => events[k].id \in sseTheirs

\* What lies in a caller's channel has the id of the request it has made, and answers it
\* if only the client uses that id; or it is an error.
SseAddressed ==
    \A c \in Callers : sseGot[c] # None =>
        /\ ssePc[c] \in SseCalls
        /\ \/ sseGot[c].kind = "error"
           \/ /\ sseGot[c].id = sseId[c]
              /\ sseId[c] \notin sseTheirs => sseGot[c].kind = "answer"

Talk == CallerShapes /\ SseMutex /\ SseAddressed /\ S!OwnAnswer
Wire == StreamShapes /\ Announced /\ SseLabelled
SseInv == Talk /\ Wire

\* What the constants of the stream are assumed to be.
LEMMA StreamConstants ==
    /\ None \notin Callers /\ MaxSseCalls \in Nat /\ MaxStreams \in Nat \ {0}
    /\ InboundCap \in Nat \ {0}
BY PartsAssumption DEF S!SseAssumption

LEMMA SseInit == S!Init => SseInv
BY StreamConstants
   DEF S!Init, SseInv, Talk, Wire, CallerShapes, StreamShapes, Announced, SseLabelled,
       SseMutex, SseAddressed, S!OwnAnswer, Outside, SseInside, SseCalls

\* Ids that were drawn are bounded like the counter they come from.
LEMMA Drawn ==
    ASSUME CallerShapes, NEW i \in ssePending
    PROVE  i \in 0 .. MaxSseCalls
<1>1. sseNextID \in 0 .. MaxSseCalls /\ i \in 1 .. sseNextID
  BY DEF CallerShapes
<1> QED
  BY <1>1, StreamConstants

\* A step of a caller keeps what the callers agree on.
LEMMA TalkStep ==
    ASSUME Talk, NEW c \in Callers,
           S!Call(c) \/ S!CallerStep(c) \/ S!PostUnacknowledged(c) \/ S!Cancel(c)
    PROVE  Talk'
<1> USE StreamConstants DEF Talk, CallerShapes, SseMutex, SseAddressed, S!OwnAnswer,
       Outside, SseInside, SseCalls, S!Move, S!Returned
<1>0. sseTheirs' = sseTheirs
  BY DEF S!Call, S!CallerStep, S!PostUnacknowledged, S!Cancel, S!Acquire, S!Register,
         S!Post, S!Receive, S!Recv, S!server
<1>1. CASE S!Call(c)
  BY <1>0, <1>1 DEF S!Call
<1>2. CASE S!Acquire(c)
  <2>1. CASE sseAlive /\ sseNextID < MaxSseCalls
    BY <1>0, <1>2, <2>1 DEF S!Acquire
  <2>2. CASE ~(sseAlive /\ sseNextID < MaxSseCalls)
    BY <1>0, <1>2, <2>2 DEF S!Acquire
  <2>3. QED
    BY <2>1, <2>2
<1>3. CASE S!Register(c)
  BY <1>0, <1>3 DEF S!Register
<1>4. CASE S!Post(c)
  <2>1. CASE ssePc' = [ssePc EXCEPT ![c] = "await"] /\ UNCHANGED <<sseGot, sseMu, ssePending>>
    BY <1>0, <1>4, <2>1 DEF S!Post
  <2>2. CASE S!Returned(c) /\ ssePending' = ssePending \ {sseId[c]}
    BY <1>0, <1>4, <2>2 DEF S!Post
  <2>3. QED
    BY <1>0, <1>4, <2>1, <2>2 DEF S!Post
<1>5. CASE S!PostUnacknowledged(c)
  BY <1>0, <1>5 DEF S!PostUnacknowledged
<1>6. CASE S!Receive(c)
  BY <1>0, <1>6 DEF S!Receive
<1>7. CASE S!Cancel(c)
  BY <1>0, <1>7 DEF S!Cancel
<1>8. CASE S!Recv(c)
  BY <1>0, <1>8 DEF S!Recv
<1>9. QED
  BY <1>1, <1>2, <1>3, <1>4, <1>5, <1>6, <1>7, <1>8 DEF S!CallerStep

\* It asks the server at most, with an id it has drawn.
LEMMA WireStep ==
    ASSUME SseInv, NEW c \in Callers,
           S!Call(c) \/ S!CallerStep(c) \/ S!PostUnacknowledged(c) \/ S!Cancel(c)
    PROVE  Wire'
<1>1. UNCHANGED <<stream, endpoint, events, sseInbound, sseTheirs>>
  BY DEF S!Call, S!CallerStep, S!PostUnacknowledged, S!Cancel, S!Acquire, S!Register,
         S!Post, S!Receive, S!Recv, S!server
<1>2. asked' \subseteq asked \cup {sseId[c]} /\ late' \subseteq late \cup {c}
  BY DEF S!Call, S!CallerStep, S!PostUnacknowledged, S!Cancel, S!Acquire, S!Register,
         S!Post, S!Receive, S!Recv, S!server, S!Returned
<1>3. sseId[c] \in Nat
  BY DEF SseInv, Talk, CallerShapes
<1> QED
  BY <1>1, <1>2, <1>3 DEF SseInv, Wire, StreamShapes, Announced, SseLabelled

\* A step of the reader, the server, the loop or Close keeps the events in order.
LEMMA WireKept ==
    ASSUME Wire, S!ReaderStep \/ S!Breaks \/ S!Answers \/ S!Pushes \/ S!LoopStep \/ S!Close
    PROVE  Wire'
<1> USE StreamConstants DEF Wire, StreamShapes, Announced, SseLabelled
<1>1. CASE S!Opens
  BY <1>1 DEF S!Opens, Written
<1>2. CASE S!SetEndpoint
  <2>1. events # <<>> => events[1] \in Written /\ 1 \in 1 .. Len(events)
    OBVIOUS
  <2>2. endpoint' \in 0 .. stream
    BY <1>2, <2>1 DEF S!SetEndpoint, Written
  <2>3. events' \in Seq(Written) /\ Announced' /\ SseLabelled'
    BY <1>2 DEF S!SetEndpoint
  <2>4. QED
    BY <1>2, <2>2, <2>3 DEF S!SetEndpoint
<1>3. CASE S!HandleMessage
  <2>1. Head(events) \in Written
    BY <1>3 DEF S!HandleMessage
  <2>2. events' \in Seq(Written) /\ Announced' /\ SseLabelled'
    <3>1. events # <<>> /\ events' = Tail(events) /\ stream' = stream /\ sseTheirs' = sseTheirs
      BY <1>3 DEF S!HandleMessage
    <3>2. QED
      BY <3>1
  <2>3. sseInbound' \in Seq(Written) /\ Len(sseInbound') <= InboundCap
    <3>1. \/ sseInbound' = sseInbound
          \/ Len(sseInbound) < InboundCap /\ sseInbound' = Append(sseInbound, Head(events))
      BY <1>3 DEF S!HandleMessage
    <3>2. QED
      BY <2>1, <3>1
  <2>4. QED
    BY <1>3, <2>2, <2>3 DEF S!HandleMessage
<1>4. CASE S!Breaks
  BY <1>4 DEF S!Breaks, S!Waiting
<1>5. CASE S!Answers
  <2>1. PICK i \in asked : events' = Append(events, [kind |-> "answer", id |-> i])
    BY <1>5 DEF S!Answers
  <2>2. [kind |-> "answer", id |-> i] \in Written
    BY <2>1 DEF Written
  <2>3. QED
    BY <1>5, <2>1, <2>2 DEF S!Answers
<1>6. CASE S!Pushes
  <2>1. PICK kind \in {"ping", "roots"}, i \in 0 .. MaxSseCalls :
           /\ events' = Append(events, [kind |-> kind, id |-> i])
           /\ sseTheirs' = sseTheirs \cup {i}
    BY <1>6 DEF S!Pushes
  <2>2. [kind |-> kind, id |-> i] \in Written /\ kind # "endpoint"
    BY <2>1 DEF Written
  <2>3. QED
    BY <1>6, <2>1, <2>2 DEF S!Pushes
<1>7. CASE S!LoopTakes
  BY <1>7 DEF S!LoopTakes, S!server
<1>8. CASE S!LoopRoots
  BY <1>8 DEF S!LoopRoots, S!server
<1>9. CASE S!Close
  BY <1>9 DEF S!Close
<1>10. QED
  BY <1>1, <1>2, <1>3, <1>4, <1>5, <1>6, <1>7, <1>8, <1>9 DEF S!ReaderStep, S!LoopStep

\* It gives a caller that waits at most the frame with its own id, or an error.
LEMMA TalkKept ==
    ASSUME SseInv, S!ReaderStep \/ S!Breaks \/ S!Answers \/ S!Pushes \/ S!LoopStep \/ S!Close
    PROVE  Talk'
<1> USE DEF SseInv, Talk, CallerShapes, SseMutex, SseAddressed, S!OwnAnswer
<1>0. sseTheirs \subseteq sseTheirs'
  BY DEF S!ReaderStep, S!LoopStep, S!Opens, S!SetEndpoint, S!HandleMessage, S!Breaks,
         S!Answers, S!Pushes, S!LoopTakes, S!LoopRoots, S!Close, S!server
<1>1. CASE UNCHANGED S!client
  BY <1>0, <1>1 DEF S!client
<1>2. CASE S!HandleMessage
  <2> DEFINE f == Head(events)
  <2>1. CASE f.id \in ssePending
    <3>1. f \in Written /\ f.kind # "endpoint"
      BY <1>2 DEF S!HandleMessage, Wire, StreamShapes
    <3>2. f \in S!Frames
      BY <2>1, <3>1, Drawn DEF Written, S!Frames
    <3>3. /\ ssePending' \subseteq ssePending
          /\ sseGot' = [c \in Callers |-> IF c \in S!Owners({f.id}) THEN f ELSE sseGot[c]]
          /\ UNCHANGED <<ssePc, sseId, sseMu, sseNextID, sseLastFrame>>
      BY <1>2, <2>1 DEF S!HandleMessage
    <3>4. f.kind = "answer" \/ f.id \in sseTheirs'
      BY <1>2, <3>1 DEF S!HandleMessage, Wire, StreamShapes, SseLabelled, Written
    <3> HIDE DEF f
    <3>5. QED
      BY <1>0, <3>2, <3>3, <3>4 DEF S!Owners, SseCalls
  <2>2. CASE f.id \notin ssePending
    BY <1>0, <1>2, <2>2 DEF S!HandleMessage
  <2>3. QED
    BY <2>1, <2>2
<1>3. CASE S!Close
  <2>1. S!Failure \in S!Frames /\ S!Failure.kind = "error"
    BY StreamConstants DEF S!Failure, S!Frames
  <2>2. QED
    BY <1>3, <2>1 DEF S!Close, S!Owners, SseCalls
<1>4. QED
  BY <1>1, <1>2, <1>3
     DEF S!ReaderStep, S!LoopStep, S!Opens, S!SetEndpoint, S!Breaks, S!Answers, S!Pushes,
         S!LoopTakes, S!LoopRoots

\* A call over an event stream, too, returns a frame with the id of its own request,
\* and its own answer unless the server has given that id to a request of its own,
\* whatever earlier streams and cancelled calls left behind, for any callers and
\* streams (sse.go handleMessage, client.go Call); and it keeps its types.
THEOREM SseAnswering == MCSpec => []SseOwnAnswer
<1>1. MCInit => SseInv
  BY SseInit DEF MCInit
<1>2. SseInv /\ [MCNext]_allVars => SseInv'
  <2> SUFFICES ASSUME SseInv, [MCNext]_allVars PROVE SseInv'
    OBVIOUS
  <2>1. CASE S!Next
    BY <2>1, TalkStep, WireStep, WireKept, TalkKept DEF S!Next, SseInv
  <2>2. CASE UNCHANGED sseVars
    BY <2>2 DEF sseVars, SseInv, Talk, Wire, CallerShapes, StreamShapes, Announced,
                SseLabelled, SseMutex, SseAddressed, S!OwnAnswer
  <2>3. QED
    BY <2>1, <2>2 DEF MCNext, Stdio, Sse, allVars
<1>3. SseInv => SseOwnAnswer
  <2> SUFFICES ASSUME SseInv PROVE S!TypeOK
    BY DEF SseOwnAnswer, SseInv, Talk
  <2>1. QED
    BY DEF SseInv, Talk, Wire, CallerShapes, StreamShapes, SseMutex, S!TypeOK, Outside,
           SseInside, SseCalls
<1>4. QED
  BY <1>1, <1>2, <1>3, PTL DEF MCSpec
==============================================================================
