---------------------------- MODULE WecomSocket ----------------------------
(***************************************************************************)
(* The enterprise-WeChat connector: im/wecom/wecom.go.  One goroutine      *)
(* keeps a WebSocket to the bot gateway; replies are written to the same   *)
(* socket by the sessions' loops, each waiting for the acknowledgement     *)
(* that carries its request id; the manager starts and stops the connector *)
(* (once each: a restarted channel is a new connector).  The gateway is    *)
(* external: it may answer late, refuse, drop the link or fall silent.     *)
(***************************************************************************)
EXTENDS Naturals, Sequences

CONSTANTS Senders,     \* sessions' loops that hand a reply to the connector
          None,
          MaxSockets,  \* bound: connections dialled
          MaxSends,    \* bound: replies handed over
          MaxFrames,   \* bound: frames of the gateway waiting to be read
          MaxPushes    \* bound: frames the gateway sends unasked

ASSUME ConstantsAssumption ==
    /\ None \notin BOOLEAN /\ None \notin {"sent", "refused"} /\ MaxPushes \in Nat
    /\ MaxSockets \in Nat /\ MaxSends \in Nat /\ MaxFrames \in Nat \ {0}

VARIABLES
    started, told,   \* Connector.started; the stop channel is closed
    conn,            \* Connector.conn, 0 for nil
    loop, found,     \* wsLoop and runOnce: the place, the channel an ack is for
    sock,            \* the loop's socket: the last one dialled
    open, up,        \* sockets not closed on this side; links the gateway holds
    frames, asked,   \* external: frames to be read; requests not answered yet
    pushes,          \* frames the gateway sent unasked
    pending, ack,    \* Connector.pending; the reply channel of each sender
    at, via, id,     \* a Send's place, its socket and its request id
    sends, accepted, \* history: requests made; those the gateway carried out
    result           \* what a Send is about to return

connector == <<started, told, conn, loop, found>>
gateway == <<up, frames, asked, accepted, pushes>>
sender == <<pending, ack, at, via, id, sends, result>>
vars == <<connector, sock, open, gateway, sender>>

Auth == 0        \* the req_id of the subscribe request
Reqs == 0 .. MaxSends
\* A callback, a pong or anything else that is no awaited acknowledgement.
Other == [req |-> MaxSends + 1, ok |-> TRUE]
Frame == [req : Reqs, ok : BOOLEAN] \cup {Other}

Init ==
    /\ started = FALSE /\ told = FALSE /\ conn = 0 /\ loop = "none" /\ found = None
    /\ sock = 0 /\ open = {} /\ up = {} /\ frames = <<>> /\ asked = {} /\ pushes = 0
    /\ pending = {} /\ ack = [s \in Senders |-> None]
    /\ at = [s \in Senders |-> "idle"] /\ via = [s \in Senders |-> 0] /\ id = [s \in Senders |-> 0]
    /\ sends = 0 /\ accepted = {} /\ result = [s \in Senders |-> None]

-----------------------------------------------------------------------------
(* The manager.                                                            *)

Start ==
    /\ ~started /\ ~told
    /\ started' = TRUE /\ loop' = "top"
    /\ UNCHANGED <<told, conn, found, sock, open, gateway, sender>>

\* The socket that is published now is closed, so that a blocked read returns.
Stop ==
    /\ started
    /\ started' = FALSE /\ told' = TRUE /\ conn' = 0
    /\ open' = open \ {conn}
    /\ UNCHANGED <<loop, found, sock, gateway, sender>>

-----------------------------------------------------------------------------
(* The connection's goroutine.                                             *)

\* The selects before a dial, and after the backoff.
Look ==
    /\ loop \in {"top", "backoff"}
    /\ loop' = IF told THEN "ended" ELSE IF loop = "top" THEN "dial" ELSE "top"
    /\ UNCHANGED <<started, told, conn, found, sock, open, gateway, sender>>

DialFails ==
    /\ loop = "dial"
    /\ loop' = "backoff"
    /\ UNCHANGED <<started, told, conn, found, sock, open, gateway, sender>>

\* Nothing looks at the stop channel while the handshake is in progress.
Dial ==
    /\ loop = "dial" /\ sock < MaxSockets
    /\ sock' = sock + 1
    /\ open' = open \cup {sock'} /\ up' = {sock'}
    /\ frames' = <<>> /\ asked' = {}
    /\ loop' = "publish"
    /\ UNCHANGED <<started, told, conn, found, accepted, pushes, sender>>

\* Replies may use the socket from here on, before it is authenticated.
SetConn ==
    /\ loop = "publish"
    /\ conn' = sock /\ loop' = "subscribe"
    /\ UNCHANGED <<started, told, found, sock, open, gateway, sender>>

\* A write on k: an error once the socket is closed here, and possibly once the
\* link is gone; otherwise the frame leaves, and arrives if the link holds.
WriteFails(k) == k \notin open \/ k \notin up
Arrives(k, r) == asked' = IF k = sock /\ k \in up THEN asked \cup {r} ELSE asked

Subscribe ==
    /\ loop = "subscribe"
    /\ \/ WriteFails(sock) /\ loop' = "leave" /\ UNCHANGED asked
       \/ sock \in open /\ Arrives(sock, Auth) /\ loop' = "auth"
    /\ UNCHANGED <<started, told, conn, found, sock, open, up, frames, accepted, pushes, sender>>

\* waitAuth throws away what is not the answer to the subscribe request, the
\* acknowledgement of an early reply included.
WaitAuth ==
    /\ loop = "auth" /\ sock \in open /\ frames # <<>>
    /\ frames' = Tail(frames)
    /\ loop' = IF Head(frames).req # Auth THEN "auth"
               ELSE IF Head(frames).ok THEN "poll" ELSE "fatal"
    /\ UNCHANGED <<started, told, conn, found, sock, open, up, asked, accepted, pushes, sender>>

\* A read fails when the socket is closed, the link is gone or, with nothing
\* to read, at its deadline.
ReadFails == sock \notin open \/ frames = <<>>

\* waitAuth reports any failing read as a refusal, which ends the loop.
WaitAuthFails ==
    /\ loop = "auth" /\ ReadFails
    /\ loop' = "fatal"
    /\ UNCHANGED <<started, told, conn, found, sock, open, gateway, sender>>

\* The head of the read loop: stop, a heartbeat that is due (whose write may
\* fail), or neither.  With stop and a heartbeat ready the select takes either.
Poll ==
    /\ loop = "poll"
    /\ \/ loop' = "read"
       \/ (told \/ WriteFails(sock)) /\ loop' = "leave"
    /\ UNCHANGED <<started, told, conn, found, sock, open, gateway, sender>>

ReadEnds ==
    /\ loop = "read" /\ ReadFails
    /\ loop' = "leave"
    /\ UNCHANGED <<started, told, conn, found, sock, open, gateway, sender>>

\* Fault: an acknowledgement goes to whoever has waited longest.
LookupFirst(r) == {p \in pending : \A q \in pending : p <= q}

\* The request an acknowledgement is for, if its Send is still registered.
Lookup(r) == pending \cap {r}

\* handleFrame: a callback goes to the manager; the channel of an
\* acknowledgement is looked up under the lock ...
Read ==
    /\ loop = "read" /\ sock \in open /\ frames # <<>>
    /\ frames' = Tail(frames)
    /\ LET f == Head(frames)
       IN \/ Lookup(f.req) = {} /\ found' = found /\ loop' = "poll"
          \/ \E r \in Lookup(f.req) : found' = [req |-> r, ok |-> f.ok] /\ loop' = "resolve"
    /\ UNCHANGED <<started, told, conn, sock, open, up, asked, accepted, pushes, sender>>

\* The Send an acknowledgement was looked up for, unless it has returned.
Owner(s) == found.req \in pending /\ id[s] = found.req

\* ... and filled, without waiting, after the unlock.  It has room for one
\* answer; once its Send has returned nobody reads it.
Resolve ==
    /\ loop = "resolve"
    /\ ack' = [s \in Senders |-> IF Owner(s) /\ ack[s] = None THEN found.ok ELSE ack[s]]
    /\ found' = None /\ loop' = "poll"
    /\ UNCHANGED <<started, told, conn, sock, open, gateway, pending, at, via, id, sends, result>>

\* runOnce returns: its socket is closed; Connector.conn keeps pointing at it.
Leave ==
    /\ loop \in {"leave", "fatal"}
    /\ open' = open \ {sock}
    /\ loop' = IF loop = "fatal" THEN "ended" ELSE "backoff"
    /\ UNCHANGED <<started, told, conn, found, sock, gateway, sender>>

-----------------------------------------------------------------------------
(* A Send.                                                                 *)

\* Without a published socket it returns at once.
Current(s) ==
    /\ at[s] = "idle" /\ sends < MaxSends /\ conn # 0
    /\ sends' = sends + 1
    /\ id' = [id EXCEPT ![s] = sends'] /\ via' = [via EXCEPT ![s] = conn]
    /\ at' = [at EXCEPT ![s] = "register"]
    /\ UNCHANGED <<connector, sock, open, gateway, pending, ack, result>>

Register(s) ==
    /\ at[s] = "register"
    /\ pending' = pending \cup {id[s]}
    /\ at' = [at EXCEPT ![s] = "write"]
    /\ UNCHANGED <<connector, sock, open, gateway, ack, via, id, sends, result>>

Write(s) ==
    /\ at[s] = "write"
    /\ \/ /\ WriteFails(via[s])
          /\ at' = [at EXCEPT ![s] = "return"] /\ result' = [result EXCEPT ![s] = "error"]
          /\ UNCHANGED asked
       \/ /\ via[s] \in open
          /\ Arrives(via[s], id[s])
          /\ at' = [at EXCEPT ![s] = "wait"] /\ UNCHANGED result
    /\ UNCHANGED <<connector, sock, open, up, frames, accepted, pushes, pending, ack, via, id, sends>>

Acked(s) ==
    /\ at[s] = "wait" /\ ack[s] # None
    /\ result' = [result EXCEPT ![s] = IF ack[s] THEN "sent" ELSE "refused"]
    /\ at' = [at EXCEPT ![s] = "return"]
    /\ UNCHANGED <<connector, sock, open, gateway, pending, ack, via, id, sends>>

\* Fault: the wait has no bound of its own.
AckTimeoutNever(s) ==
    /\ at[s] = "wait" /\ ack[s] # None
    /\ result' = [result EXCEPT ![s] = "timeout"] /\ at' = [at EXCEPT ![s] = "return"]
    /\ UNCHANGED <<connector, sock, open, gateway, pending, ack, via, id, sends>>

\* 15 s pass; the end of the connection wakes nobody earlier.
AckTimeout(s) ==
    /\ at[s] = "wait"
    /\ result' = [result EXCEPT ![s] = "timeout"] /\ at' = [at EXCEPT ![s] = "return"]
    /\ UNCHANGED <<connector, sock, open, gateway, pending, ack, via, id, sends>>

Forget(s) ==
    /\ at' = [at EXCEPT ![s] = "idle"] /\ ack' = [ack EXCEPT ![s] = None]
    /\ via' = [via EXCEPT ![s] = 0] /\ id' = [id EXCEPT ![s] = 0]
    /\ result' = [result EXCEPT ![s] = None]

\* The deferred delete.
Unregister(s) ==
    /\ at[s] = "return"
    /\ pending' = pending \ {id[s]} /\ Forget(s)
    /\ UNCHANGED <<connector, sock, open, gateway, sends>>

-----------------------------------------------------------------------------
(* External: the gateway.                                                  *)

Answer(r, ok) ==
    /\ r \in asked /\ sock \in up /\ Len(frames) < MaxFrames
    /\ asked' = asked \ {r}
    /\ frames' = Append(frames, [req |-> r, ok |-> ok])
    /\ accepted' = IF ok THEN accepted \cup ({r} \ {Auth}) ELSE accepted
    /\ UNCHANGED <<connector, sock, open, up, pushes, sender>>

Push ==
    /\ sock \in up /\ sock \in open /\ Len(frames) < MaxFrames /\ pushes < MaxPushes
    /\ pushes' = pushes + 1
    /\ frames' = Append(frames, Other)
    /\ UNCHANGED <<connector, sock, open, up, asked, accepted, sender>>

\* The link goes, with what was on its way.
Drop ==
    /\ sock \in up
    /\ up' = up \ {sock} /\ frames' = <<>>
    /\ UNCHANGED <<connector, sock, open, asked, accepted, pushes, sender>>

LoopStep == Look \/ DialFails \/ Dial \/ SetConn \/ Subscribe \/ WaitAuth \/ WaitAuthFails
            \/ Poll \/ ReadEnds \/ Read \/ Resolve \/ Leave
SendStep(s) == Register(s) \/ Write(s) \/ Acked(s) \/ AckTimeout(s) \/ Unregister(s)

Next ==
    \/ Start \/ Stop \/ LoopStep
    \/ \E s \in Senders : Current(s) \/ SendStep(s)
    \/ \E r \in asked, ok \in BOOLEAN : Answer(r, ok)
    \/ Push \/ Drop

Spec == Init /\ [][Next]_vars

\* Dials, reads and waits for an acknowledgement all end by their deadlines, so
\* the goroutines keep moving; of the gateway only MaxPushes is assumed: one that
\* talks without end and never answers the subscribe request holds waitAuth.
FairSpec == Spec /\ WF_vars(LoopStep) /\ \A s \in Senders : WF_vars(SendStep(s))

-----------------------------------------------------------------------------
(* Properties.                                                             *)

\* Shapes; a request id is registered exactly while its Send is under way; at
\* most one socket is open, and none while the loop is between connections.
TypeOK ==
    /\ conn \in 0 .. sock /\ open \subseteq {sock} /\ up \subseteq {sock}
    /\ frames \in Seq(Frame) /\ asked \subseteq Reqs
    /\ pending = {id[s] : s \in {s \in Senders : at[s] \in {"write", "wait", "return"}}}
    /\ \A s \in Senders : ack[s] \in BOOLEAN \cup {None} /\ via[s] \in 0 .. sock /\ id[s] \in 0 .. sends
    /\ loop \in {"none", "top", "dial", "backoff", "ended"} => open = {}

\* A reply reported as sent was carried out by the gateway under its own request
\* id, and one reported as refused was not, whatever other replies, heartbeats
\* and reconnections come between (wecom.go Send, resolveAck).
ReportsItsOwnAck ==
    \A s \in Senders :
      /\ result[s] = "sent" => id[s] \in accepted
      /\ result[s] = "refused" => id[s] \notin accepted

\* Every Send returns, so the session's loop that made it goes on (wecom.go Send).
SendsEnd == \A s \in Senders : (at[s] # "idle") ~> (at[s] = "idle")

\* After Stop the goroutine ends and its socket is closed, also when Stop comes
\* between the dial and the publication of the socket, or while an
\* acknowledgement nobody awaits any more is handed over (wecom.go Stop, wsLoop).
StopEndsTheLoop == told ~> (loop = "ended" /\ open = {})
=============================================================================
