----------------------------- MODULE MCMcpCalls -----------------------------
(***************************************************************************)
(* Small instances of McpClient (calls over the pipes of a child process)  *)
(* and McpSse (calls over an event stream).  A behaviour is one of the     *)
(* two: `part` says which.                                                 *)
(***************************************************************************)
EXTENDS McpClient

CONSTANTS MaxSseCalls, MaxStreams

VARIABLES ssePc, sseId, sseGot, sseMu, sseNextID, ssePending, sseLastFrame, sseAlive,
          endpoint, stream, open, events, asked, ssePushes, sseTheirs, sseInbound,
          sseLoop, late,
          part

S == INSTANCE McpSse
       WITH MaxCalls <- MaxSseCalls, pc <- ssePc, id <- sseId, got <- sseGot, mu <- sseMu,
            nextID <- sseNextID, pending <- ssePending, lastFrame <- sseLastFrame,
            alive <- sseAlive, pushes <- ssePushes, theirs <- sseTheirs,
            inbound <- sseInbound, loop <- sseLoop

ASSUME PartsAssumption == S!SseAssumption

sseVars == <<ssePc, sseId, sseGot, sseMu, sseNextID, ssePending, sseLastFrame, sseAlive,
             endpoint, stream, open, events, asked, ssePushes, sseTheirs, sseInbound,
             sseLoop, late>>

Stdio(A) == part = "stdio" /\ A /\ UNCHANGED <<sseVars, part>>
Sse(A) == part = "sse" /\ A /\ UNCHANGED <<vars, part>>

MCInit == part \in {"stdio", "sse"} /\ Init /\ S!Init
MCNext == Stdio(Next) \/ Sse(S!Next)
allVars == <<vars, sseVars, part>>

\* The fairness of the part that moves, goroutine by goroutine.
MCSpec ==
    /\ MCInit /\ [][MCNext]_allVars
    /\ \A c \in Callers : /\ SF_allVars(Stdio(Acquire(c)) \/ Sse(S!Acquire(c)))
                          /\ WF_allVars(Stdio(CallerStep(c)) \/ Sse(S!CallerStep(c)))
    /\ WF_allVars(Stdio(ReadFrame) \/ Sse(S!ReaderStep))
    /\ WF_allVars(Stdio(ReaderEnds))
    /\ WF_allVars(Stdio(Reap))
    /\ WF_allVars(Stdio(Terminate))
    /\ WF_allVars(Stdio(CloseReturns))
    /\ WF_allVars(Stdio(ChildAnswers) \/ Sse(S!Answers))
    /\ WF_allVars(Stdio(LoopStep) \/ Sse(S!LoopStep))

(* A caller over an event stream returns the answer to its own request, as *)
(* one over pipes does, unless the server has given the id of that request *)
(* to one of its own (McpSse OwnAnswer).                                   *)
SseOwnAnswer == S!TypeOK /\ S!OwnAnswer

(* A call ends, with an answer or an error, through timeouts of others,    *)
(* exits of the child, Close and broken streams.  Over pipes it can hang   *)
(* only where a reply of the inbound loop wedged the client or a bad frame *)
(* deafened its reader; over a stream, where its own answer, or that of a  *)
(* call it waits behind, can no longer come (client.go Call).              *)
Busy(c) == pc[c] # "idle" \/ ssePc[c] # "idle"
CallsEnd ==
    \A c \in Callers :
      Busy(c) ~> ~Busy(c) \/ Wedged \/ Deaf \/ \E d \in Callers : S!Unanswerable(d)
=============================================================================
