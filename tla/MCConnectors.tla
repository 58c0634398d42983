---------------------------- MODULE MCConnectors ----------------------------
(***************************************************************************)
(* Small instances of WecomSocket (a connector over a WebSocket) and       *)
(* QqGateway (one over a WebSocket and an HTTP API).  A behaviour is one   *)
(* of the two: `part` says which.                                          *)
(***************************************************************************)
EXTENDS WecomSocket

CONSTANTS Starter, MaxDials, MaxBeats

VARIABLES qqStarted, qqTold, token, qqAt, qqLoop, dials, late, beats, aged,
          part

Q == INSTANCE QqGateway WITH started <- qqStarted, told <- qqTold, at <- qqAt, loop <- qqLoop

ASSUME PartsAssumption == Q!ConstantsAssumption

qqVars == <<qqStarted, qqTold, token, qqAt, qqLoop, dials, late, beats, aged>>

MCInit == part \in {"wecom", "qq"} /\ Init /\ Q!Init
MCNext ==
    \/ part = "wecom" /\ Next /\ UNCHANGED <<qqVars, part>>
    \/ part = "qq" /\ Q!Next /\ UNCHANGED <<vars, part>>

\* The fairness of the first: none of its goroutines runs in its initial state.
MCSpec ==
    /\ MCInit /\ [][MCNext]_<<vars, qqVars, part>>
    /\ WF_vars(LoopStep) /\ \A s \in Senders : WF_vars(SendStep(s))

(* A reply is not posted under a token that expires on the way, and a      *)
(* stopped connector reads few frames more (QqGateway                      *)
(* TokenOutlivesRequest, FewFramesAfterStop).                              *)
TokensOutliveRequests == TypeOK /\ Q!TypeOK /\ Q!TokenOutlivesRequest /\ Q!FewFramesAfterStop

(* Every Send returns, and a stopped connector's loop ends (WecomSocket    *)
(* SendsEnd, StopEndsTheLoop).                                             *)
ConnectorsGoOn == SendsEnd /\ StopEndsTheLoop
=============================================================================
