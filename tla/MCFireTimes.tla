---------------------------- MODULE MCFireTimes ----------------------------
(***************************************************************************)
(* ScheduleEngine with one run row more than in MCScheduleEngine (a        *)
(* success between two failures), and NextFire, which says what the fire   *)
(* times are that it moves between, on a day of three hours of two         *)
(* minutes, weeks of three days, months of four, years of two: every pair  *)
(* of fields and every zone within a day.  `part` says which of the two.   *)
(***************************************************************************)
EXTENDS ScheduleEngine, Integers

CONSTANTS MinutesPerHour, HoursPerDay, DaysPerWeek, DaysPerMonth, MonthsPerYear, Horizon, MaxLate

VARIABLES now, offset, body, next, since, answer, part

Star == [lo |-> -1, hi |-> -1, step |-> 1]
Val(v) == {[lo |-> v, hi |-> v, step |-> 1]}
Exprs == [minute : {{Star}, Val(0)}, hour : {{Star}, Val(1)},
          dom : {{Star}, Val(2), {[lo |-> -1, hi |-> -1, step |-> 3]}}, month : {{Star}, Val(2)},
          dow : {{Star}, {[lo |-> 1, hi |-> 2, step |-> 1]}, Val(3)}]
BadExpr == [minute |-> Val(2), hour |-> {Star}, dom |-> {Star}, month |-> {Star}, dow |-> {Star}]
Bodies ==
  [kind : {"cron"}, expr : Exprs \cup {BadExpr}]
    \cup [kind : {"every"}, every : {0, 2, 5}, anchor : {-1, 0, 9}]
    \cup [kind : {"at"}, at : {-1, 3}]
Offsets == {-2, 0, 1, 4}

F == INSTANCE NextFire

ASSUME PartsAssumption == F!NextFireAssumption

fireVars == <<now, offset, body, next, since, answer>>

MCInit ==
  /\ Init /\ F!Init
  /\ \/ part = "engine" /\ offset = 0
     \/ part = "fire"
MCNext ==
  \/ part = "engine" /\ Next /\ UNCHANGED <<fireVars, part>>
  \/ part = "fire" /\ F!Next /\ UNCHANGED <<vars, part>>
MCSpec == MCInit /\ [][MCNext]_<<vars, fireVars, part>>

\* The stored fire time of a schedule is one its body names in its own zone, and
\* no named minute is passed over where the code's arithmetic counts on none
\* (NextFire FiresWhenTold, NothingIsPassedOver).
FireTimesAreRight == F!TypeOK /\ F!FiresWhenTold /\ F!NothingIsPassedOver

\* cron.go: "Next returns the next time strictly after from that matches expr in
\* loc" (NextFire NextIsTheNext).
NextIsTheNext == F!NextIsTheNext
=============================================================================
