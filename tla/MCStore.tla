------------------------------ MODULE MCStore -------------------------------
(***************************************************************************)
(* Small instances of Catalog (workspaces, agents and sessions),           *)
(* Conversation (the messages and digests of one session, a tail of two    *)
(* messages, the code's default, so that a second run meets a digest of    *)
(* the first) and ImChannels (one channel with one peer).  A behaviour is  *)
(* one of the three: `part` says which.                                    *)
(***************************************************************************)
EXTENDS Catalog

CONSTANTS
  RecentKeep, NoId, MaxRuns, MaxRounds, MaxCalls, MaxManual, MaxRestarts,
  Ids, Peers, MaxConns, MaxMessages, MaxPeerTurns, MaxOps, MaxCrashes

VARIABLES
  mem, loaded, disk, digests, now, pc, run, round, before, result, manual, used, compacted,
  owed, made, dropped,
  imRows, byID, imLive, conn, op, imFailed, inbox, queue, sending, ops, restarts,
  part

C == INSTANCE Conversation WITH MaxTurns <- MaxRounds, turn <- round, spent <- used
I == INSTANCE ImChannels
       WITH MaxTurns <- MaxPeerTurns, MaxRestarts <- MaxCrashes,
            rows <- imRows, live <- imLive, failed <- imFailed

ASSUME PartsAssumption ==
  C!CompactionAssumption /\ C!ConversationAssumption /\ I!ConstantsAssumption

conversationVars == <<mem, loaded, disk, digests, now, pc, run, round, before, result, manual,
                      used, compacted, owed, made, dropped>>
channelVars == <<imRows, byID, imLive, conn, op, imFailed, inbox, queue, sending, ops, restarts>>

MCInit ==
  /\ Init /\ C!Init /\ I!Init
  /\ \/ part = "channels"
     \/ part \in {"catalog", "conversation"} /\ imRows = [i \in Ids |-> None]
MCNext ==
  \/ part = "catalog" /\ Next /\ UNCHANGED <<conversationVars, channelVars, part>>
  \/ part = "conversation" /\ C!Next /\ UNCHANGED <<vars, channelVars, part>>
  \/ part = "channels" /\ I!Next /\ UNCHANGED <<vars, conversationVars, part>>
MCSpec == MCInit /\ [][MCNext]_<<vars, conversationVars, channelVars, part>>

(* The defaults of the workspaces and of their agents agree, what is       *)
(* active exists, and a deleted session has no rows left, but for what a   *)
(* failed statement or work that could not be cancelled left, what was     *)
(* asked for of a session without a row, and the workspaces of IM that     *)
(* have no default yet (Catalog).                                          *)
CatalogAgrees == TypeOK /\ DefaultsAgree /\ ActiveIsReal /\ DeletedLeaveNothing

(* A compaction keeps what it folds and the pairs of call and result, and  *)
(* each run has its rows (Conversation).                                   *)
HistoryIsKept ==
  C!TypeOK /\ C!CompactionKeepsPairs /\ C!CompactionForgetsNothing /\ C!RunsPersist

(* Once an operation has answered the tracked connectors are those of the  *)
(* enabled rows, and none of them was stopped (ImChannels).                *)
TrackedAreLive == I!TypeOK /\ I!TrackedFollowsRows /\ I!TrackedIsNotStopped

(* Between operations a message is let in by the mode the table holds      *)
(* (ImChannels).                                                           *)
AcceptedUnderStoredMode == I!AcceptedUnderStoredMode
==============================================================================
