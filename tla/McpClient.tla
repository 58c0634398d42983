---------------------------- MODULE McpClient ----------------------------
(***************************************************************************)
(* One MCP client over one stdio transport (mcp/client.go,                 *)
(* mcp/transport/stdio.go, stdio_io.go).  Callers hold the client's mutex  *)
(* for a whole request, the reader goroutine routes the child's frames by  *)
(* their id, the inbound loop answers the child's own requests, and a      *)
(* watcher reaps the child.  The child is external: it answers what it     *)
(* read in any order, sends requests and notifications of its own, breaks  *)
(* the framing, or exits.                                                  *)
(***************************************************************************)
EXTENDS Naturals, Sequences

CONSTANTS Callers,        \* goroutines that call the server
          None,           \* nobody, nothing
          MaxCalls,       \* bound: requests of the client
          MaxPushes,      \* bound: frames the child sends of its own
          InboundCap      \* capacity of the inbound channel, 32 in the code

\* What a caller may find in its channel: a frame of the child with the id of a
\* pending request, an answer or a request of the child's own, or an error.
Frames == [kind : {"answer", "ping", "roots", "error"}, id : 0..MaxCalls]

ASSUME ConstantsAssumption ==
    /\ None \notin Callers \cup Frames
    /\ MaxCalls \in Nat /\ MaxPushes \in Nat /\ InboundCap \in Nat \ {0}

VARIABLES
    pc,        \* where each caller is
    id,        \* the request id of each caller
    got,       \* the caller's response channel
    mu,        \* who holds Client.mu
    nextID,
    pending,   \* ids the reader may route to a caller
    lastFrame, \* StdioTransport.lastFrame
    stdinMu,   \* who holds stdinMu
    alive,
    child,     \* "running", "exited", "reaped"
    stdin,     \* requests the child has to answer
    stdout,    \* frames the child wrote
    pushes,    \* frames the child sent of its own
    theirs,    \* history: ids the child has given to requests of its own
    reader,    \* the reader goroutine runs
    inbound,   \* frames no caller waits for
    loop,      \* the inbound loop: "idle", "roots", "reply", "stuck", "gone"
    closing    \* "no", "waiting", "done"

callers == <<pc, id, got, mu, nextID, pending, lastFrame>>
process == <<child, stdin, stdout, pushes, theirs>>
vars == <<callers, stdinMu, alive, process, reader, inbound, loop, closing>>

Loop == "loop"                        \* the inbound loop as a lock holder
Failure == [kind |-> "error", id |-> 0]

-----------------------------------------------------------------------------
Init ==
    /\ pc = [c \in Callers |-> "idle"]
    /\ id = [c \in Callers |-> 0]
    /\ got = [c \in Callers |-> None]
    /\ mu = None /\ nextID = 0 /\ pending = {} /\ lastFrame = None
    /\ stdinMu = None
    /\ alive = TRUE
    /\ child = "running" /\ stdin = {} /\ stdout = <<>> /\ pushes = 0 /\ theirs = {}
    /\ reader = TRUE
    /\ inbound = <<>>
    /\ loop = "idle"
    /\ closing = "no"

-----------------------------------------------------------------------------
(* Client.Call over Send and Recv.                                         *)

\* The call is over: the mutex is free and nobody reads its channel any more.
Returned(c) ==
    /\ pc' = [pc EXCEPT ![c] = "idle"]
    /\ got' = [got EXCEPT ![c] = None]
    /\ mu' = None

Call(c) ==
    /\ pc[c] = "idle" /\ nextID < MaxCalls
    /\ pc' = [pc EXCEPT ![c] = "lock"]
    /\ UNCHANGED <<id, got, mu, nextID, pending, lastFrame, stdinMu, alive, process,
                   reader, inbound, loop, closing>>

\* The mutex, then the alive check: a dead transport fails the call at once.
Acquire(c) ==
    /\ pc[c] = "lock" /\ mu = None
    /\ IF alive /\ nextID < MaxCalls
       THEN /\ mu' = c
            /\ nextID' = nextID + 1
            /\ id' = [id EXCEPT ![c] = nextID']
            /\ pc' = [pc EXCEPT ![c] = "register"]
            /\ UNCHANGED got
       ELSE Returned(c) /\ UNCHANGED <<id, nextID>>
    /\ UNCHANGED <<pending, lastFrame, stdinMu, alive, process, reader, inbound,
                   loop, closing>>

\* Send puts the channel into the pending map before it writes; the alive check
\* and the map are not one step.
Register(c) ==
    /\ pc[c] = "register"
    /\ pc' = [pc EXCEPT ![c] = "write"]
    /\ pending' = pending \cup {id[c]}
    /\ UNCHANGED <<id, got, mu, nextID, lastFrame, stdinMu, alive, process, reader,
                   inbound, loop, closing>>

\* Fault: a write to a child that is gone is taken for a success.
WriteBlind(c) ==
    /\ pc[c] = "write" /\ stdinMu = None
    /\ stdin' = stdin \cup {id[c]}
    /\ pc' = [pc EXCEPT ![c] = "await"]
    /\ UNCHANGED <<got, mu, pending, alive>>
    /\ UNCHANGED <<id, nextID, lastFrame, stdinMu, child, stdout, pushes, theirs, reader,
                   inbound, loop, closing>>

\* writeMessage: the stdin lock is taken and given back around the write, which
\* fails when either end of the pipe is closed.
Write(c) ==
    /\ pc[c] = "write" /\ stdinMu = None
    /\ IF child = "running" /\ closing = "no"
       THEN /\ stdin' = stdin \cup {id[c]}
            /\ pc' = [pc EXCEPT ![c] = "await"]
            /\ UNCHANGED <<got, mu, pending, alive>>
       ELSE /\ Returned(c)
            /\ pending' = pending \ {id[c]}
            /\ alive' = FALSE
            /\ UNCHANGED stdin
    /\ UNCHANGED <<id, nextID, lastFrame, stdinMu, child, stdout, pushes, theirs, reader,
                   inbound, loop, closing>>

\* The channel has a frame, or an error.
Receive(c) ==
    /\ pc[c] = "await" /\ got[c] # None
    /\ IF got[c].kind = "error"
       THEN Returned(c) /\ UNCHANGED lastFrame
       ELSE /\ lastFrame' = got[c]
            /\ pc' = [pc EXCEPT ![c] = "recv"]
            /\ UNCHANGED <<got, mu>>
    /\ UNCHANGED <<id, nextID, pending, stdinMu, alive, process, reader, inbound,
                   loop, closing>>

\* The caller's context ends while it waits: the id is no longer pending.
Cancel(c) ==
    /\ pc[c] = "await"
    /\ pending' = pending \ {id[c]}
    /\ Returned(c)
    /\ UNCHANGED <<id, nextID, lastFrame, stdinMu, alive, process, reader, inbound,
                   loop, closing>>

\* Recv: an ended context or a dead transport fails the call and leaves the
\* frame where it is.
Recv(c) ==
    /\ pc[c] = "recv"
    /\ Returned(c)
    /\ lastFrame' = IF alive THEN None ELSE lastFrame
    /\ UNCHANGED <<id, nextID, pending, stdinMu, alive, process, reader, inbound,
                   loop, closing>>

RecvCancelled(c) ==
    /\ pc[c] = "recv"
    /\ Returned(c)
    /\ UNCHANGED <<id, nextID, pending, lastFrame, stdinMu, alive, process, reader, inbound,
                   loop, closing>>

-----------------------------------------------------------------------------
(* The child process (external).                                           *)

ChildAnswers ==
    /\ child = "running"
    /\ \E i \in stdin :
        /\ stdin' = stdin \ {i}
        /\ stdout' = Append(stdout, [kind |-> "answer", id |-> i])
    /\ UNCHANGED <<callers, stdinMu, alive, child, pushes, theirs, reader, inbound,
                   loop, closing>>

\* The child numbers its requests, ping and roots/list, as it likes: from 0 or 1,
\* like the client, or with a name, which counts as 0.  A notification has no id.
ChildPushes ==
    /\ child = "running" /\ pushes < MaxPushes
    /\ pushes' = pushes + 1
    /\ \/ \E kind \in {"ping", "roots"}, i \in 0..MaxCalls :
            stdout' = Append(stdout, [kind |-> kind, id |-> i]) /\ theirs' = theirs \cup {i}
       \/ stdout' = Append(stdout, [kind |-> "note", id |-> 0]) /\ UNCHANGED theirs
    /\ UNCHANGED <<callers, stdinMu, alive, child, stdin, reader, inbound, loop,
                   closing>>

ChildExits ==
    /\ child = "running"
    /\ child' = "exited"
    /\ stdin' = {}
    /\ UNCHANGED <<callers, stdinMu, alive, stdout, pushes, theirs, reader, inbound,
                   loop, closing>>

-----------------------------------------------------------------------------
(* The reader goroutine and the watcher.                                   *)

Owners(ids) == {c \in Callers : pc[c] \in {"write", "await", "recv"} /\ id[c] \in ids}

\* Fault: an answer goes to the caller that waits, without a look at its id.
ReadFrameInOrder ==
    /\ reader /\ stdout # <<>> /\ child # "reaped"
    /\ stdout' = Tail(stdout)
    /\ got' = [c \in Callers |-> IF c \in Owners(pending) THEN Head(stdout) ELSE got[c]]
    /\ pending' = {}
    /\ UNCHANGED <<pc, id, mu, nextID, lastFrame, stdinMu, alive, child, stdin, pushes, theirs,
                   reader, inbound, loop, closing>>

\* A frame whose id is pending goes to the caller that waits for it, the child's
\* own request with that id included; every other frame goes to the inbound
\* channel, or nowhere when that is full.
ReadFrame ==
    /\ reader /\ stdout # <<>> /\ child # "reaped"
    /\ stdout' = Tail(stdout)
    /\ LET f == Head(stdout) IN
        IF f.kind # "note" /\ f.id \in pending
        THEN /\ pending' = pending \ {f.id}
             /\ got' = [c \in Callers |-> IF c \in Owners({f.id}) THEN f ELSE got[c]]
             /\ UNCHANGED inbound
        ELSE /\ inbound' = IF Len(inbound) < InboundCap THEN Append(inbound, f) ELSE inbound
             /\ UNCHANGED <<pending, got>>
    /\ UNCHANGED <<pc, id, mu, nextID, lastFrame, stdinMu, alive, child, stdin, pushes, theirs,
                   reader, loop, closing>>

\* Fault: the map is cleared, and nobody is told.
CloseAllQuietly ==
    /\ got' = got
    /\ pending' = {}

\* closeAllPending: every registered caller finds an error in its channel.
CloseAllPending ==
    /\ got' = [c \in Callers |-> IF c \in Owners(pending) THEN Failure ELSE got[c]]
    /\ pending' = {}

\* The reader ends at the end of the output, or when Close or the watcher
\* closed the pipe.
ReaderEnds ==
    /\ reader /\ ((child = "exited" /\ stdout = <<>>) \/ child = "reaped" \/ closing # "no")
    /\ reader' = FALSE
    /\ alive' = FALSE
    /\ CloseAllPending
    /\ UNCHANGED <<pc, id, mu, nextID, lastFrame, stdinMu, process, inbound, loop,
                   closing>>

\* A frame it cannot read ends the reader too, but the transport stays alive.
ReaderFails ==
    /\ reader /\ child = "running" /\ closing = "no"
    /\ reader' = FALSE
    /\ CloseAllPending
    /\ UNCHANGED <<pc, id, mu, nextID, lastFrame, stdinMu, alive, process, inbound,
                   loop, closing>>

\* waitForExit: the pipes are closed by then, with what was unread in them.
Reap ==
    /\ child = "exited"
    /\ child' = "reaped"
    /\ stdout' = <<>>
    /\ alive' = FALSE
    /\ CloseAllPending
    /\ UNCHANGED <<pc, id, mu, nextID, lastFrame, stdinMu, stdin, pushes, theirs, reader, inbound,
                   loop, closing>>

-----------------------------------------------------------------------------
(* inboundLoop, handleInbound, replyToRequest.                             *)

\* Notifications are handed on; whatever has an id is taken for a request of the
\* child, an answer that came too late included.
LoopTakes ==
    /\ loop = "idle" /\ closing = "no" /\ inbound # <<>>
    /\ inbound' = Tail(inbound)
    /\ loop' = CASE Head(inbound).kind = "note"  -> "idle"
                 [] Head(inbound).kind = "roots" -> "roots"
                 [] OTHER -> "reply"
    /\ UNCHANGED <<callers, stdinMu, alive, process, reader, closing>>

\* The list of roots is read under the client's mutex.
LoopRoots ==
    /\ loop = "roots" /\ mu = None
    /\ loop' = "reply"
    /\ UNCHANGED <<callers, stdinMu, alive, process, reader, inbound, closing>>

\* SendRaw takes the stdin lock and calls writeMessage, which takes it again.
SendRaw ==
    /\ loop = "reply" /\ stdinMu = None
    /\ stdinMu' = Loop
    /\ loop' = "stuck"
    /\ UNCHANGED <<callers, alive, process, reader, inbound, closing>>

LoopStops ==
    /\ loop = "idle" /\ closing # "no"
    /\ loop' = "gone"
    /\ UNCHANGED <<callers, stdinMu, alive, process, reader, inbound, closing>>

-----------------------------------------------------------------------------
(* Close: the pipes are closed, the child is asked to end, killed after     *)
(* the grace period, and reaped.                                           *)

Close ==
    /\ closing = "no"
    /\ closing' = "waiting"
    /\ alive' = FALSE
    /\ UNCHANGED <<callers, stdinMu, process, reader, inbound, loop>>

Terminate ==
    /\ closing = "waiting" /\ child = "running"
    /\ child' = "exited"
    /\ stdin' = {}
    /\ UNCHANGED <<callers, stdinMu, alive, stdout, pushes, theirs, reader, inbound,
                   loop, closing>>

CloseReturns ==
    /\ closing = "waiting" /\ child = "reaped"
    /\ closing' = "done"
    /\ UNCHANGED <<callers, stdinMu, alive, process, reader, inbound, loop>>

-----------------------------------------------------------------------------
\* What a caller's goroutine does once it may.
CallerStep(c) == Acquire(c) \/ Register(c) \/ Write(c) \/ Receive(c) \/ Recv(c)

TransportStep == ReadFrame \/ ReaderEnds \/ Reap \/ Terminate \/ CloseReturns
LoopStep == LoopTakes \/ LoopRoots \/ SendRaw \/ LoopStops

Next ==
    \/ \E c \in Callers : Call(c) \/ CallerStep(c) \/ Cancel(c) \/ RecvCancelled(c)
    \/ ChildAnswers \/ ChildPushes \/ ChildExits
    \/ TransportStep \/ ReaderFails \/ LoopStep \/ Close

Spec == Init /\ [][Next]_vars

\* The goroutines of the client run, and a child that is alive answers what it
\* was sent: some MCP servers never do, and then only an ended context helps.
FairSpec ==
    /\ Spec
    /\ \A c \in Callers : SF_vars(Acquire(c)) /\ WF_vars(CallerStep(c))
    /\ WF_vars(ReadFrame) /\ WF_vars(ReaderEnds) /\ WF_vars(Reap)
    /\ WF_vars(Terminate) /\ WF_vars(CloseReturns)
    /\ WF_vars(ChildAnswers)
    /\ WF_vars(LoopStep)

-----------------------------------------------------------------------------
\* Every variable keeps its kind, and only the owner of the mutex is inside.
TypeOK ==
    /\ \A c \in Callers :
        /\ pc[c] \in {"idle", "lock", "register", "write", "await", "recv"}
        /\ id[c] \in 0..nextID
        /\ got[c] \in Frames \cup {None}
        /\ (pc[c] \in {"register", "write", "await", "recv"}) <=> (mu = c)
    /\ mu \in Callers \cup {None} /\ stdinMu \in {Loop, None}
    /\ pending \subseteq 1..nextID
    /\ lastFrame \in Frames \cup {None}
    /\ Len(inbound) <= InboundCap

\* The frame a caller is about to return carries the id of its own request and, if
\* the child has not given that id to a request of its own too, is the answer to
\* it.  A frame left behind by a call that failed after Send, a late answer to a call
\* that was cancelled, or one that raced the child's exit is never taken for it
\* (stdio.go Recv: "lastFrame is safe to access without locking here").
OwnAnswer ==
    \A c \in Callers : pc[c] = "recv" =>
        /\ lastFrame.id = id[c] /\ lastFrame.kind # "error"
        /\ id[c] \notin theirs => lastFrame.kind = "answer"

\* A caller that waits for an answer can still be woken by someone: its id is
\* pending, or its channel holds a frame or an error (stdio_io.go closeAllPending
\* "wake all pending waiters ... instead of hanging forever").
WokenOrPending ==
    \A c \in Callers : pc[c] = "await" => id[c] \in pending \/ got[c] # None

\* Once the child is reaped nobody waits for it: a request that enters the
\* pending map after the last closeAllPending cannot be written any more
\* (stdio_io.go waitForExit "no goroutine is left waiting on a channel that will
\* never receive a value").
ReapedWakesAll ==
    child = "reaped" => \A c \in Callers : pc[c] = "await" => got[c] # None

\* Both of them: nobody waits for what cannot come.
WaitersAreWoken == WokenOrPending /\ ReapedWakesAll

\* A frame of the child's that asks for a reply is the death of the client: its
\* loop waits for the lock it holds.
Wedged == loop = "stuck"
\* So is a frame the reader cannot parse: nobody reads the answers any more.
Deaf == ~reader /\ alive

\* What the comment on Close says: "All pending requests are woken with an error"
\* (stdio.go:233).
CloseWakes == \A c \in Callers : (closing = "done") ~> (pc[c] = "idle")
=============================================================================
