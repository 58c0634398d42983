------------------------------ MODULE MCEvents ------------------------------
(***************************************************************************)
(* Small instances of TokenStream (a model's answer on its way to the      *)
(* executor), EventBus (the events of a session on their way to its        *)
(* subscribers) and EventLedger (from the ledger's subscription to the     *)
(* clients).  A behaviour is one of the three: `part` says which.          *)
(*                                                                         *)
(* The three readers of a stream treat text alike, so one of them gets     *)
(* texts long enough for a think block that opens and closes; a token of a *)
(* tag is ordinary text where no tag is.                                   *)
(***************************************************************************)
EXTENDS EventBus

CONSTANTS Sessions, Clients, Tick, Cap, MaxEvents, MaxMoves,
          Wires, Calls, StreamCap, MaxRetries, MaxChunk

Tokens == {"<think", "</think", "ing", ">"}
Budget == [w \in Wires |-> IF w = "gemini" THEN 4 ELSE 3]

VARIABLES emitted, waiting, fwd, bySession, allConns, conn, reader, writeMu, peer, moves,
          taken, upTo,
          wire, ctx, at, attempt, splitter, toolBuf, out, err, deltas, got, result, sent,
          asked, stopped, broken, spent,
          part

L == INSTANCE EventLedger
T == INSTANCE TokenStream WITH chan <- deltas, Cap <- StreamCap

ASSUME PartsAssumption == L!ConstantsAssumption /\ T!ConstantsAssumption

ledgerVars == <<emitted, waiting, fwd, bySession, allConns, conn, reader, writeMu, peer, moves,
                taken, upTo>>
streamVars == <<wire, ctx, at, attempt, splitter, toolBuf, out, err, deltas, got, result, sent,
                asked, stopped, broken, spent>>

MCInit ==
    /\ Init /\ L!Init /\ T!Init
    /\ \/ part \in {"bus", "ledger"} /\ wire = "openai"
       \/ part = "stream"
MCNext ==
    \/ part = "bus" /\ Next /\ UNCHANGED <<ledgerVars, streamVars, part>>
    \/ part = "ledger" /\ L!Next /\ UNCHANGED <<vars, streamVars, part>>
    \/ part = "stream" /\ T!Next /\ UNCHANGED <<vars, ledgerVars, part>>

\* The fairness of the part that moves; in the initial state of the bus and of
\* the ledger none of their goroutines has anything to do.
MCSpec ==
    /\ MCInit /\ [][MCNext]_<<vars, ledgerVars, streamVars, part>>
    /\ Fairness /\ L!Fairness
    /\ WF_streamVars(part = "stream" /\ T!Steps) /\ WF_streamVars(part = "stream" /\ T!Drains)

(* Events are lost only where a channel was found full, and a connection   *)
(* that stays subscribed misses none that the ledger took (EventBus        *)
(* LossOnlyWhenFull, EventLedger SubscribersMissNothing).                  *)
NothingIsLostUnseen == TypeOK /\ LossOnlyWhenFull /\ L!TypeOK /\ L!SubscribersMissNothing

(* A turn's emitter and the ledger's writers go on, whatever subscribers   *)
(* do that do not receive and whichever connections close, and a cancelled *)
(* call to a provider ends (EventBus TurnsEnd, EventLedger EventsFlow,     *)
(* TokenStream CancelledEnds).                                             *)
EventsFlow == TurnsEnd /\ L!EventsFlow /\ T!CancelledEnds

(* The text that is shown and the calls that are run are those the         *)
(* provider sent, and a cut answer is not taken for a whole one            *)
(* (TokenStream ShownIsVisible, CallsArriveOnce, CutIsNotClean).           *)
AnswersAreWhole == T!TypeOK /\ T!ShownIsVisible /\ T!CallsArriveOnce /\ T!CutIsNotClean
=============================================================================
