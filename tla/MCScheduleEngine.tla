-------------------------- MODULE MCScheduleEngine --------------------------
(***************************************************************************)
(* Small instances of ScheduleEngine (a recurring schedule, few run rows,  *)
(* at most one exit of the process) and of Sessions, which takes the turns *)
(* it submits.  A behaviour is one of the two: `part` says which.          *)
(***************************************************************************)
EXTENDS ScheduleEngine

CONSTANTS Sessions, Clients, MaxSessions, MaxRuntimes, MaxPrompts, Absent

VARIABLES lru, entry, stalled, expired, owner, phase, parked, popped, active, cut, held,
          prompts, interrupted, part

G == INSTANCE Sessions

ASSUME PartsAssumption == G!SessionsAssumption

sessionVars ==
  <<lru, entry, stalled, expired, owner, phase, parked, popped, active, cut, held, prompts,
    interrupted>>

MCInit == part \in {"engine", "sessions"} /\ Init /\ G!Init
MCNext ==
  \/ part = "engine" /\ Next /\ UNCHANGED <<sessionVars, part>>
  \/ part = "sessions" /\ G!Next /\ UNCHANGED <<vars, part>>

\* The fairness of the part that moves.
MCSpec ==
  /\ MCInit /\ [][MCNext]_<<vars, sessionVars, part>>
  /\ LET engine == part = "engine"
     IN /\ WF_vars(engine /\ TickStep) /\ WF_vars(engine /\ HandlerStep)
        /\ WF_vars(engine /\ stopping /\ Restart)
        /\ \A r \in Rows : WF_vars(engine /\ TurnStarts(r))
  /\ \A k \in 1..MaxRuntimes : WF_sessionVars(part = "sessions" /\ G!Live(k))

\* If turns end, a row that was linked to its turn is closed, and a schedule that
\* is due does not stay due for ever (ScheduleEngine).
SchedulesGoOn == LinkedRunsClose /\ DueSchedulesMove

\* The map, the list and the runtimes of the manager agree (Sessions).
SessionsAreOwned == G!SessionsAreOwned

\* Making room for a session never ends a registered run of another (Sessions).
OthersRunsAreSpared == G!OthersRunsAreSpared

\* Once an entry has let go of it, a runtime closes (Sessions).
LetGoCloses == G!LetGoCloses
=============================================================================
