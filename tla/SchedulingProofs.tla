------------------------- MODULE SchedulingProofs -------------------------
(***************************************************************************)
(* Safety of the two parts of MCScheduleEngine.                            *)
(*                                                                         *)
(* ScheduleEngine, for every set of schedules, threshold, number of run    *)
(* rows and number of exits.                                               *)
(***************************************************************************)
EXTENDS MCScheduleEngine, SequencesExt, SequenceTheorems, FiniteSetTheorems, TLAPS

(***************************************************************************)
(* The inductive invariant.                                                *)
(***************************************************************************)

\* Where the two goroutines can be, and that they have a row in hand when they need one.
Placed ==
  /\ at["tick"] # "stamp"
  /\ at["hand"] \in {"idle", "submit", "link", "remember", "stamp"}
  /\ \A p \in Procs : at[p] \notin {"idle", "trigger", "check"} => row[p] \in 1 .. rows

\* Rows are made in order, for schedules that exist or did.
RowsMade ==
  /\ \A r \in Rows : r > rows => turn[r] = "none" /\ link[r] = NoRun /\ status[r] = "none"
  /\ \A r \in Rows : r <= rows => sched[r] \in Scheds /\ exists[sched[r]] # "never"

\* A row that is linked, listed, remembered or past its submit has a turn; a row about
\* to be submitted has none, and is in one hand only.
Submitted ==
  /\ \A r \in Rows : link[r] # NoRun => turn[r] # "none"
  /\ \A r \in listed : turn[r] # "none"
  /\ \A s \in Scheds : lastRow[s] # NoRow => turn[lastRow[s]] # "none"
  /\ \A p \in Procs : at[p] \in {"mark", "reset", "link", "remember", "close", "stamp"}
                        => turn[row[p]] # "none"
  /\ \A p \in Procs : at[p] = "submit" => turn[row[p]] = "none" /\ status[row[p]] = "running"
  /\ at["tick"] = "submit" /\ at["hand"] = "submit" => row["tick"] # row["hand"]

\* The tick is triggering s.
Triggering(s) ==
  /\ at["tick"] \in {"submit", "errors", "disable", "mark", "reset", "link", "remember"}
  /\ sched[row["tick"]] = s

\* A schedule waits to be triggered once.
Selected == \A s \in todo : exists[s] # "never" /\ ~Triggering(s)

\* A recurring schedule has been submitted for its next_fire_at only while MarkFired is
\* due, or if it is gone for good.
Fired ==
  \A s \in Scheds \ AtScheds :
    \/ s \in torn
    \/ fired[s] = 0
    \/ fired[s] = 1 /\ at["tick"] = "mark" /\ Triggering(s)
    \/ fired[s] = 1 /\ exists[s] = "deleted" /\ s \notin todo
       /\ ~(at["tick"] = "submit" /\ Triggering(s))

\* The count in the table never runs ahead of the failures in a row.
Counted ==
  /\ \A s \in Scheds : exists[s] # "yes" => errors[s] = 0
  /\ \A s \in Scheds : \/ s \in torn
                       \/ errors[s] <= streak[s]
                       \/ at["tick"] \in {"mark", "reset"} /\ Triggering(s)
  /\ at["tick"] = "errors" =>
       LET s == sched[row["tick"]] IN s \in torn \/ errors[s] + 1 <= streak[s]
  /\ at["tick"] = "disable" =>
       LET s == sched[row["tick"]] IN s \in torn \/ streak[s] >= MaxAttempts

IInv == TypeOK /\ Placed /\ RowsMade /\ Submitted /\ Selected /\ Fired /\ Counted
        /\ RowsTellWhatRan

(***************************************************************************)
(* Steps.                                                                  *)
(***************************************************************************)

\* A statement that commits or fails leaves a column of the same type.
LEMMA WrittenType ==
  ASSUME NEW p, NEW S, NEW T, NEW f \in [S -> T], NEW x \in S, NEW v \in T
  PROVE  Written(p, f, x, v) \in [S -> T]
BY DEF Written

LEMMA PatchedType ==
  ASSUME NEW T, NEW f \in [Scheds -> T], NEW s \in Scheds, NEW v \in T
  PROVE  Patched(f, s, v) \in [Scheds -> T]
BY DEF Patched, Written

\* The row in hand is one of the table, of a schedule that exists or did.
LEMMA InHand ==
  ASSUME TypeOK, Placed, RowsMade, NEW p \in Procs, at[p] \notin {"idle", "trigger", "check"}
  PROVE  /\ row[p] \in Rows /\ row[p] <= rows
         /\ sched[row[p]] \in Scheds /\ exists[sched[row[p]]] # "never"
<1>1. row[p] \in 1 .. rows
  BY DEF Placed
<1>2. rows \in 0 .. MaxRows
  BY DEF TypeOK
<1>3. row[p] \in Rows /\ row[p] <= rows
  BY <1>1, <1>2, ScheduleAssumption DEF Rows
<1>4. QED
  BY <1>3 DEF RowsMade

\* Every step keeps the types.
LEMMA TypeStep == IInv /\ [Next]_vars => TypeOK'
<1> SUFFICES ASSUME TypeOK, Placed, RowsMade, [Next]_vars PROVE TypeOK'
  BY DEF IInv
<1> USE ScheduleAssumption
    DEF TypeOK, Procs, Places, Statuses, Rows, NoRow, NoRun, RunID, vars, tableVars, rowVars,
        engineVars, procVars, historyVars
<1>1. ASSUME NEW p \in Procs, Submit(p) PROVE TypeOK'
  <2>1. row[p] \in Rows /\ sched[row[p]] \in Scheds
    BY <1>1, InHand DEF Submit
  <2>2. at' \in [Procs -> Places]
    BY <1>1 DEF Submit, Goto
  <2>3. turn' \in [Rows -> {"none", "waiting", "active", "ended"}]
    BY <1>1, <2>1 DEF Submit
  <2>4. fired' \in [Scheds -> Nat] /\ streak' \in [Scheds -> Nat]
    <3>1. fired[sched[row[p]]] + 1 \in Nat
      BY <2>1
    <3>2. CASE p = "tick"
      <4>1. /\ fired' = [fired EXCEPT ![sched[row[p]]] = fired[sched[row[p]]] + 1]
            /\ streak' = [streak EXCEPT ![sched[row[p]]] = 0]
        BY <1>1, <3>2 DEF Submit
      <4>2. QED
        BY <2>1, <3>1, <4>1
    <3>3. CASE p # "tick"
      BY <1>1, <3>3 DEF Submit
    <3>4. QED
      BY <3>2, <3>3
  <2>5. QED
    BY <1>1, <2>2, <2>3, <2>4 DEF Submit
<1>2. ASSUME NEW p \in Procs, SubmitFails(p) PROVE TypeOK'
  <2>1. row[p] \in Rows /\ sched[row[p]] \in Scheds
    BY <1>2, InHand DEF SubmitFails
  <2>2. at' \in [Procs -> Places] /\ row' \in [Procs -> Rows \cup {NoRow}]
    BY <1>2 DEF SubmitFails, Goto, Done
  <2>3. status' \in [Rows -> Statuses]
    BY <1>2, <2>1, WrittenType DEF SubmitFails
  <2>4. streak' \in [Scheds -> Nat]
    BY <1>2, <2>1 DEF SubmitFails
  <2>5. QED
    BY <1>2, <2>2, <2>3, <2>4 DEF SubmitFails
<1>3. ASSUME NEW p \in Procs, Link(p) PROVE TypeOK'
  <2>1. row[p] \in Rows
    BY <1>3, InHand DEF Link
  <2>2. at' \in [Procs -> Places]
    BY <1>3 DEF Link, Goto
  <2>3. link' \in [Rows -> Nat] /\ \A r \in Rows : link'[r] \in {NoRun, RunID(r)}
    BY <1>3, <2>1 DEF Link, Written, LinkFor, RunID
  <2>4. QED
    BY <1>3, <2>2, <2>3 DEF Link
<1>4. ASSUME NEW p \in Procs, Remember(p) PROVE TypeOK'
  <2>1. row[p] \in Rows /\ sched[row[p]] \in Scheds
    BY <1>4, InHand DEF Remember
  <2>2. QED
    BY <1>4, <2>1 DEF Remember, Goto, Done
<1>5. CASE CountError
  <2>1. row["tick"] \in Rows /\ sched[row["tick"]] \in Scheds
    BY <1>5, InHand DEF CountError
  <2>2. at' \in [Procs -> Places] /\ row' \in [Procs -> Rows \cup {NoRow}]
    BY <1>5 DEF CountError, Goto, Done
  <2>3. errors' \in [Scheds -> Nat] /\ due' \in [Scheds -> BOOLEAN] /\ fired' \in [Scheds -> Nat]
    <3>1. errors[sched[row["tick"]]] + 1 \in Nat /\ 0 \in Nat /\ FALSE \in BOOLEAN
      BY <2>1
    <3>2. QED
      BY <1>5, <2>1, <3>1, PatchedType DEF CountError
  <2>4. QED
    BY <1>5, <2>2, <2>3 DEF CountError
<1>6. CASE Disable
  <2>1. sched[row["tick"]] \in Scheds
    BY <1>6, InHand DEF Disable
  <2>2. enabled' \in [Scheds -> BOOLEAN]
    BY <1>6, <2>1, PatchedType DEF Disable
  <2>3. QED
    BY <1>6, <2>2 DEF Disable, Goto, Done
<1>7. CASE MarkFired
  <2>1. row["tick"] \in Rows /\ sched[row["tick"]] \in Scheds
    BY <1>7, InHand DEF MarkFired
  <2>2. at' \in [Procs -> Places]
    BY <1>7 DEF MarkFired, Goto
  <2>3. due' \in [Scheds -> BOOLEAN] /\ fired' \in [Scheds -> Nat]
    <3>1. 0 \in Nat /\ FALSE \in BOOLEAN
      OBVIOUS
    <3>2. QED
      BY <1>7, <2>1, <3>1, PatchedType DEF MarkFired
  <2>4. torn' \subseteq Scheds
    BY <1>7, <2>1 DEF MarkFired, Torn
  <2>5. QED
    BY <1>7, <2>2, <2>3, <2>4 DEF MarkFired
<1>8. CASE Reset
  <2>1. row["tick"] \in Rows /\ sched[row["tick"]] \in Scheds
    BY <1>8, InHand DEF Reset
  <2>2. at' \in [Procs -> Places]
    BY <1>8 DEF Reset, Goto
  <2>3. errors' \in [Scheds -> Nat]
    BY <1>8, <2>1, PatchedType DEF Reset, ResetCount
  <2>4. torn' \subseteq Scheds
    BY <1>8, <2>1 DEF Reset, Torn
  <2>5. QED
    BY <1>8, <2>2, <2>3, <2>4 DEF Reset
<1>9. CASE Tick
  BY <1>9 DEF Tick, Goto, SelectDue
<1>10. CASE ListRunning
  BY <1>10 DEF ListRunning, Goto, ListRunningRuns
<1>11. CASE CloseRow
  <2>1. row["tick"] \in Rows
    BY <1>11, InHand DEF CloseRow
  <2>2. status' \in [Rows -> Statuses]
    BY <1>11, <2>1, WrittenType DEF CloseRow
  <2>3. QED
    BY <1>11, <2>2 DEF CloseRow, Goto
<1>12. CASE TickEnds
  BY <1>12 DEF TickEnds, Goto
<1>13. ASSUME NEW s \in Scheds, Begin(s) PROVE TypeOK'
  <2>1. CASE UNCHANGED <<rowVars, at, row>>
    BY <1>13, <2>1 DEF Begin
  <2>2. CASE rows < MaxRows /\ CreateRun("tick", s)
    BY <1>13, <2>2 DEF Begin, CreateRun, Goto
  <2>3. QED
    BY <1>13, <2>1, <2>2 DEF Begin
<1>14. ASSUME NEW r \in Rows, Check(r) PROVE TypeOK'
  BY <1>14 DEF Check, Goto
<1>15. CASE Stamp
  BY <1>15 DEF Stamp, Goto, Done
<1>16. ASSUME NEW s \in Scheds, Create(s) PROVE TypeOK'
  BY <1>16 DEF Create
<1>17. ASSUME NEW s \in Scheds, Toggle(s) PROVE TypeOK'
  BY <1>17 DEF Toggle
<1>18. ASSUME NEW s \in Scheds, Delete(s) PROVE TypeOK'
  BY <1>18 DEF Delete
<1>19. ASSUME NEW s \in Scheds, TriggerNow(s) PROVE TypeOK'
  BY <1>19 DEF TriggerNow, CreateRun, Goto
<1>20. ASSUME NEW s \in Scheds, Abort(s) PROVE TypeOK'
  BY <1>20 DEF Abort, SessionAbort, Goto
<1>21. ASSUME NEW s \in Scheds, TimePasses(s) PROVE TypeOK'
  BY <1>21 DEF TimePasses
<1>22. ASSUME NEW r \in Rows, TurnStarts(r) PROVE TypeOK'
  BY <1>22 DEF TurnStarts
<1>23. ASSUME NEW r \in Rows, TurnEnds(r) PROVE TypeOK'
  BY <1>23 DEF TurnEnds
<1>24. CASE Stop
  BY <1>24 DEF Stop
<1>25. CASE Restart
  <2>1. torn' \subseteq Scheds
    BY <1>25, InHand DEF Restart
  <2>2. exits' \in 0 .. MaxExits
    BY <1>25 DEF Restart
  <2>3. turn' \in [Rows -> {"none", "waiting", "active", "ended"}]
    BY <1>25 DEF Restart
  <2>4. /\ lastRow' \in [Scheds -> Rows \cup {NoRow}] /\ at' \in [Procs -> Places]
        /\ row' \in [Procs -> Rows \cup {NoRow}] /\ todo' = {} /\ listed' = {}
        /\ stopping' = FALSE /\ UNCHANGED <<tableVars, rowVars, fired, streak>>
    BY <1>25 DEF Restart
  <2>5. QED
    BY <2>1, <2>2, <2>3, <2>4
<1>26. CASE UNCHANGED vars
  BY <1>26
<1>27. QED
  BY <1>1, <1>2, <1>3, <1>4, <1>5, <1>6, <1>7, <1>8, <1>9, <1>10, <1>11, <1>12,
     <1>13, <1>14, <1>15, <1>16, <1>17, <1>18, <1>19, <1>20, <1>21, <1>22, <1>23,
     <1>24, <1>25, <1>26
     DEF Next, TickStep, HandlerStep, UserStep, TriggerStep

\* Every step leaves the goroutines at places of theirs, with a row if they need one.
LEMMA PlaceStep == IInv /\ [Next]_vars => Placed'
<1> SUFFICES ASSUME TypeOK, Placed, RowsMade, Submitted, [Next]_vars PROVE Placed'
  BY DEF IInv
<1> USE ScheduleAssumption
    DEF TypeOK, Placed, Procs, Rows, NoRow, vars, tableVars, rowVars, engineVars, procVars,
        historyVars
<1>1. ASSUME NEW p \in Procs, Submit(p) PROVE Placed'
  BY <1>1 DEF Submit, Goto
<1>2. ASSUME NEW p \in Procs, SubmitFails(p) PROVE Placed'
  BY <1>2 DEF SubmitFails, Goto, Done, Written, Commits
<1>3. ASSUME NEW p \in Procs, Link(p) PROVE Placed'
  BY <1>3 DEF Link, Goto, Written, Commits, LinkFor
<1>4. ASSUME NEW p \in Procs, Remember(p) PROVE Placed'
  BY <1>4 DEF Remember, Goto, Done
<1>5. CASE CountError
  BY <1>5 DEF CountError, Goto, Done, Patched, Written, Commits
<1>6. CASE Disable
  BY <1>6 DEF Disable, Goto, Done, Patched, Written, Commits
<1>7. CASE MarkFired
  BY <1>7 DEF MarkFired, Goto, Torn, DueAgain, Patched, Written, Commits
<1>8. CASE Reset
  BY <1>8 DEF Reset, Goto, Torn, ResetCount, Patched, Written, Commits
<1>9. CASE Tick
  BY <1>9 DEF Tick, Goto, SelectDue
<1>10. CASE ListRunning
  BY <1>10 DEF ListRunning, Goto, ListRunningRuns
<1>11. CASE CloseRow
  BY <1>11 DEF CloseRow, Goto, Written, Commits
<1>12. CASE TickEnds
  BY <1>12 DEF TickEnds, Goto
<1>13. ASSUME NEW s \in Scheds, Begin(s) PROVE Placed'
  <2>1. CASE UNCHANGED <<rowVars, at, row>>
    BY <1>13, <2>1 DEF Begin
  <2>2. CASE rows < MaxRows /\ CreateRun("tick", s)
    <3>1. /\ row' = [row EXCEPT !["tick"] = rows + 1] /\ at' = [at EXCEPT !["tick"] = "submit"]
          /\ rows' = rows + 1
      BY <2>2 DEF CreateRun, Goto
    <3>2. QED
      BY <3>1
  <2>3. QED
    BY <1>13, <2>1, <2>2 DEF Begin
<1>14. ASSUME NEW r \in Rows, Check(r) PROVE Placed'
  <2>1. r \in 1 .. rows
    BY <1>14 DEF Check, Submitted, RowsMade
  <2>2. QED
    BY <1>14, <2>1 DEF Check, Goto
<1>15. CASE Stamp
  BY <1>15 DEF Stamp, Goto, Done
<1>16. ASSUME NEW s \in Scheds, TriggerNow(s) PROVE Placed'
  BY <1>16 DEF TriggerNow, CreateRun, Goto
<1>17. ASSUME NEW s \in Scheds, Abort(s) PROVE Placed'
  <2>1. lastRow[s] \in 1 .. rows
    BY <1>17 DEF Abort, Submitted, RowsMade
  <2>2. QED
    BY <1>17, <2>1 DEF Abort, Goto
<1>18. CASE Restart
  BY <1>18 DEF Restart
<1>19. CASE UNCHANGED <<at, row, rows>>
  BY <1>19
<1>20. QED
  BY <1>1, <1>2, <1>3, <1>4, <1>5, <1>6, <1>7, <1>8, <1>9, <1>10, <1>11, <1>12,
     <1>13, <1>14, <1>15, <1>16, <1>17, <1>18, <1>19
     DEF Next, TickStep, HandlerStep, UserStep, TriggerStep, Create, Toggle, Delete,
         TimePasses, TurnStarts, TurnEnds, Stop

\* Every step keeps the rows in order.
LEMMA RowsStep == IInv /\ [Next]_vars => RowsMade'
<1> SUFFICES ASSUME TypeOK, Placed, RowsMade, Selected, [Next]_vars PROVE RowsMade'
  BY DEF IInv
<1> USE ScheduleAssumption
    DEF TypeOK, RowsMade, Procs, Rows, NoRow, NoRun, vars, tableVars, rowVars, engineVars,
        procVars, historyVars
<1>1. ASSUME NEW p \in Procs, Submit(p) PROVE RowsMade'
  <2>1. row[p] \in Rows /\ row[p] <= rows
    BY <1>1, InHand DEF Submit
  <2>2. QED
    BY <1>1, <2>1 DEF Submit
<1>2. ASSUME NEW p \in Procs, SubmitFails(p) PROVE RowsMade'
  <2>1. row[p] \in Rows /\ row[p] <= rows
    BY <1>2, InHand DEF SubmitFails
  <2>2. QED
    BY <1>2, <2>1 DEF SubmitFails, Written
<1>3. ASSUME NEW p \in Procs, Link(p) PROVE RowsMade'
  <2>1. row[p] \in Rows /\ row[p] <= rows
    BY <1>3, InHand DEF Link
  <2>2. QED
    BY <1>3, <2>1 DEF Link, Written
<1>4. CASE CloseRow
  <2>1. row["tick"] \in Rows /\ row["tick"] <= rows
    BY <1>4, InHand DEF CloseRow
  <2>2. QED
    BY <1>4, <2>1 DEF CloseRow, Written
<1>5. ASSUME NEW s \in Scheds, Begin(s) PROVE RowsMade'
  <2>1. CASE UNCHANGED <<rowVars, at, row>>
    BY <1>5, <2>1 DEF Begin
  <2>2. CASE rows < MaxRows /\ CreateRun("tick", s)
    <3>1. exists[s] # "never"
      BY <1>5 DEF Begin, Selected
    <3>2. QED
      BY <1>5, <2>2, <3>1 DEF Begin, CreateRun
  <2>3. QED
    BY <1>5, <2>1, <2>2 DEF Begin
<1>6. CASE Stamp
  <2>1. row["hand"] \in Rows /\ row["hand"] <= rows
    BY <1>6, InHand DEF Stamp
  <2>2. QED
    BY <1>6, <2>1 DEF Stamp
<1>7. ASSUME NEW s \in Scheds, Create(s) PROVE RowsMade'
  BY <1>7 DEF Create
<1>8. ASSUME NEW s \in Scheds, Delete(s) PROVE RowsMade'
  BY <1>8 DEF Delete
<1>9. ASSUME NEW s \in Scheds, TriggerNow(s) PROVE RowsMade'
  BY <1>9 DEF TriggerNow, CreateRun, Goto
<1>10. ASSUME NEW s \in Scheds, Abort(s) PROVE RowsMade'
  BY <1>10 DEF Abort, SessionAbort, Goto
<1>11. ASSUME NEW r \in Rows, TurnStarts(r) PROVE RowsMade'
  BY <1>11 DEF TurnStarts
<1>12. ASSUME NEW r \in Rows, TurnEnds(r) PROVE RowsMade'
  BY <1>12 DEF TurnEnds
<1>13. CASE Restart
  BY <1>13 DEF Restart
<1>14. CASE UNCHANGED <<rows, sched, status, link, exists, turn>>
  BY <1>14
<1>15. QED
  BY <1>1, <1>2, <1>3, <1>4, <1>5, <1>6, <1>7, <1>8, <1>9, <1>10, <1>11, <1>12,
     <1>13, <1>14
     DEF Next, TickStep, HandlerStep, UserStep, TriggerStep, Remember, CountError,
         Disable, MarkFired, Reset, Tick, ListRunning, TickEnds, Check, Toggle,
         TimePasses, Stop

\* Every step keeps the truth of what rows say of their turns.
LEMMA TruthStep == IInv /\ [Next]_vars => RowsTellWhatRan'
<1> SUFFICES ASSUME TypeOK, Placed, RowsMade, Submitted, RowsTellWhatRan, [Next]_vars
             PROVE  RowsTellWhatRan'
  BY DEF IInv
<1> USE ScheduleAssumption
    DEF TypeOK, RowsTellWhatRan, Procs, Rows, NoRow, vars, tableVars, rowVars, engineVars,
        procVars, historyVars
<1>1. ASSUME NEW p \in Procs, Submit(p) PROVE RowsTellWhatRan'
  <2>1. row[p] \in Rows /\ status[row[p]] = "running"
    BY <1>1, InHand DEF Submit, Submitted
  <2>2. QED
    BY <1>1, <2>1 DEF Submit
<1>2. ASSUME NEW p \in Procs, SubmitFails(p) PROVE RowsTellWhatRan'
  <2>1. row[p] \in Rows /\ turn[row[p]] = "none"
    BY <1>2, InHand DEF SubmitFails, Submitted
  <2>2. QED
    BY <1>2, <2>1 DEF SubmitFails, Written
<1>3. CASE CloseRow
  <2>1. row["tick"] \in Rows /\ turn[row["tick"]] # "none"
    BY <1>3, InHand DEF CloseRow, Submitted
  <2>2. QED
    BY <1>3, <2>1 DEF CloseRow, Written
<1>4. ASSUME NEW s \in Scheds, Begin(s) PROVE RowsTellWhatRan'
  BY <1>4 DEF Begin, CreateRun, Goto, Commits, Submitted, RowsMade
<1>5. CASE Stamp
  <2>1. row["hand"] \in Rows /\ turn[row["hand"]] # "none"
    BY <1>5, InHand DEF Stamp, Submitted
  <2>2. QED
    BY <1>5, <2>1 DEF Stamp
<1>6. ASSUME NEW s \in Scheds, TriggerNow(s) PROVE RowsTellWhatRan'
  BY <1>6 DEF TriggerNow, CreateRun, Goto, Submitted, RowsMade
<1>7. ASSUME NEW s \in Scheds, Abort(s) PROVE RowsTellWhatRan'
  BY <1>7 DEF Abort, SessionAbort, Goto
<1>8. ASSUME NEW r \in Rows, TurnStarts(r) PROVE RowsTellWhatRan'
  BY <1>8 DEF TurnStarts
<1>9. ASSUME NEW r \in Rows, TurnEnds(r) PROVE RowsTellWhatRan'
  BY <1>9 DEF TurnEnds
<1>10. CASE Restart
  BY <1>10 DEF Restart
<1>11. CASE UNCHANGED <<status, turn>>
  BY <1>11
<1>12. QED
  BY <1>1, <1>2, <1>3, <1>4, <1>5, <1>6, <1>7, <1>8, <1>9, <1>10, <1>11
     DEF Next, TickStep, HandlerStep, UserStep, TriggerStep, Link, Remember,
         CountError, Disable, MarkFired, Reset, Tick, ListRunning, TickEnds, Check,
         Create, Toggle, Delete, TimePasses, Stop

\* Every step keeps the agreement of the rows in use with the turns.
LEMMA SubmittedStep == IInv /\ [Next]_vars => Submitted'
<1> SUFFICES ASSUME TypeOK, Placed, RowsMade, Submitted, [Next]_vars PROVE Submitted'
  BY DEF IInv
<1> USE ScheduleAssumption
    DEF TypeOK, Placed, Submitted, Procs, Rows, NoRow, NoRun, vars, tableVars, rowVars,
        engineVars, procVars, historyVars
<1>1. ASSUME NEW p \in Procs, Submit(p) PROVE Submitted'
  BY <1>1 DEF Submit, Goto
<1>2. ASSUME NEW p \in Procs, SubmitFails(p) PROVE Submitted'
  BY <1>2 DEF SubmitFails, Goto, Done, Written, Commits
<1>3. ASSUME NEW p \in Procs, Link(p) PROVE Submitted'
  BY <1>3 DEF Link, Goto, Written, Commits, LinkFor
<1>4. ASSUME NEW p \in Procs, Remember(p) PROVE Submitted'
  BY <1>4 DEF Remember, Goto, Done
<1>5. CASE CountError
  BY <1>5 DEF CountError, Goto, Done, Patched, Written, Commits
<1>6. CASE Disable
  BY <1>6 DEF Disable, Goto, Done, Patched, Written, Commits
<1>7. CASE MarkFired
  BY <1>7 DEF MarkFired, Goto, Torn, DueAgain, Patched, Written, Commits
<1>8. CASE Reset
  BY <1>8 DEF Reset, Goto, Torn, ResetCount, Patched, Written, Commits
<1>9. CASE Tick
  BY <1>9 DEF Tick, Goto, SelectDue
<1>10. CASE ListRunning
  BY <1>10 DEF ListRunning, Goto, ListRunningRuns
<1>11. CASE CloseRow
  BY <1>11 DEF CloseRow, Goto, Written, Commits
<1>12. CASE TickEnds
  BY <1>12 DEF TickEnds, Goto
<1>13. ASSUME NEW s \in Scheds, Begin(s) PROVE Submitted'
  <2>1. CASE UNCHANGED <<rowVars, at, row>>
    BY <1>13, <2>1 DEF Begin
  <2>2. CASE rows < MaxRows /\ CreateRun("tick", s)
    <3>1. rows + 1 \in Rows /\ turn[rows + 1] = "none"
      BY <2>2 DEF RowsMade
    <3>2. /\ at' = [at EXCEPT !["tick"] = "submit"] /\ row' = [row EXCEPT !["tick"] = rows + 1]
          /\ status' = [status EXCEPT ![rows + 1] = "running"]
          /\ UNCHANGED <<turn, link, listed, lastRow>>
      BY <1>13, <2>2 DEF Begin, CreateRun, Goto
    <3>3. QED
      BY <3>1, <3>2
  <2>3. QED
    BY <1>13, <2>1, <2>2 DEF Begin
<1>14. ASSUME NEW r \in Rows, Check(r) PROVE Submitted'
  BY <1>14 DEF Check, Goto
<1>15. CASE Stamp
  BY <1>15 DEF Stamp, Goto, Done
<1>16. ASSUME NEW s \in Scheds, TriggerNow(s) PROVE Submitted'
  <2>1. rows + 1 \in Rows /\ turn[rows + 1] = "none"
    BY <1>16 DEF TriggerNow, RowsMade
  <2>2. /\ at' = [at EXCEPT !["hand"] = "submit"] /\ row' = [row EXCEPT !["hand"] = rows + 1]
        /\ status' = [status EXCEPT ![rows + 1] = "running"]
        /\ UNCHANGED <<turn, link, listed, lastRow>>
    BY <1>16 DEF TriggerNow, CreateRun, Goto
  <2>3. QED
    BY <2>1, <2>2
<1>17. ASSUME NEW s \in Scheds, Abort(s) PROVE Submitted'
  <2>1. \A r \in Rows : turn[r] = "none" <=> turn'[r] = "none"
    BY <1>17 DEF Abort, SessionAbort
  <2>2. /\ at' = [at EXCEPT !["hand"] = "stamp"] /\ row' = [row EXCEPT !["hand"] = lastRow[s]]
        /\ lastRow[s] # NoRow /\ UNCHANGED <<status, link, listed, lastRow>>
    BY <1>17 DEF Abort, Goto
  <2>3. QED
    BY <2>1, <2>2
<1>18. ASSUME NEW r \in Rows, TurnStarts(r) PROVE Submitted'
  BY <1>18 DEF TurnStarts
<1>19. ASSUME NEW r \in Rows, TurnEnds(r) PROVE Submitted'
  BY <1>19 DEF TurnEnds
<1>20. CASE Restart
  BY <1>20 DEF Restart
<1>21. CASE UNCHANGED <<status, turn, at, row, listed, lastRow, link>>
  BY <1>21
<1>22. QED
  BY <1>1, <1>2, <1>3, <1>4, <1>5, <1>6, <1>7, <1>8, <1>9, <1>10, <1>11, <1>12,
     <1>13, <1>14, <1>15, <1>16, <1>17, <1>18, <1>19, <1>20, <1>21
     DEF Next, TickStep, HandlerStep, UserStep, TriggerStep, Create, Toggle, Delete,
         TimePasses, Stop

\* A handler's new row does not change what the tick is triggering.
LEMMA TriggerNowAside ==
  ASSUME TypeOK, Placed, NEW s \in Scheds, TriggerNow(s)
  PROVE  at'["tick"] = at["tick"] /\ \A t \in Scheds : Triggering(t)' <=> Triggering(t)
<1>1. /\ at' = [at EXCEPT !["hand"] = "submit"] /\ row' = [row EXCEPT !["hand"] = rows + 1]
      /\ sched' = [sched EXCEPT ![rows + 1] = s]
  BY DEF TriggerNow, CreateRun, Goto
<1>2. at'["tick"] = at["tick"] /\ row'["tick"] = row["tick"]
  BY <1>1 DEF TypeOK, Procs
<1>3. at["tick"] \notin {"idle", "trigger", "check"} => row["tick"] \in 1 .. rows
  BY DEF Placed, Procs
<1>4. row["tick"] \in 1 .. rows => sched'[row["tick"]] = sched[row["tick"]]
  BY <1>1, ScheduleAssumption DEF TypeOK, Rows
<1>5. QED
  BY <1>2, <1>3, <1>4 DEF Triggering

\* Every step leaves each selected schedule to be triggered once.
LEMMA SelectedStep == IInv /\ [Next]_vars => Selected'
<1> SUFFICES ASSUME TypeOK, Placed, RowsMade, Selected, [Next]_vars PROVE Selected'
  BY DEF IInv
<1> USE ScheduleAssumption
    DEF TypeOK, Selected, Triggering, Procs, Rows, NoRow, vars, tableVars, rowVars, engineVars,
        procVars, historyVars
<1>1. ASSUME NEW p \in Procs, Submit(p) PROVE Selected'
  BY <1>1 DEF Submit, Goto
<1>2. ASSUME NEW p \in Procs, SubmitFails(p) PROVE Selected'
  BY <1>2 DEF SubmitFails, Goto, Done, Written, Commits
<1>3. ASSUME NEW p \in Procs, Link(p) PROVE Selected'
  BY <1>3 DEF Link, Goto, Written, Commits, LinkFor
<1>4. ASSUME NEW p \in Procs, Remember(p) PROVE Selected'
  BY <1>4 DEF Remember, Goto, Done
<1>5. CASE CountError
  BY <1>5 DEF CountError, Goto, Done, Patched, Written, Commits
<1>6. CASE Disable
  BY <1>6 DEF Disable, Goto, Done, Patched, Written, Commits
<1>7. CASE MarkFired
  BY <1>7 DEF MarkFired, Goto, Torn, DueAgain, Patched, Written, Commits
<1>8. CASE Reset
  BY <1>8 DEF Reset, Goto, Torn, ResetCount, Patched, Written, Commits
<1>9. CASE Tick
  BY <1>9 DEF Tick, Goto, SelectDue
<1>10. CASE ListRunning
  BY <1>10 DEF ListRunning, Goto, ListRunningRuns
<1>11. CASE CloseRow
  BY <1>11 DEF CloseRow, Goto, Written, Commits
<1>12. CASE TickEnds
  BY <1>12 DEF TickEnds, Goto
<1>13. ASSUME NEW s \in Scheds, Begin(s) PROVE Selected'
  <2>1. CASE UNCHANGED <<rowVars, at, row>>
    BY <1>13, <2>1 DEF Begin
  <2>2. CASE rows < MaxRows /\ CreateRun("tick", s)
    <3>1. rows + 1 \in Rows
      BY <2>2
    <3>2. /\ at' = [at EXCEPT !["tick"] = "submit"] /\ row' = [row EXCEPT !["tick"] = rows + 1]
          /\ sched' = [sched EXCEPT ![rows + 1] = s]
      BY <2>2 DEF CreateRun, Goto
    <3>3. \A t : Triggering(t)' => t = s
      BY <3>1, <3>2
    <3>4. todo' = todo \ {s} /\ exists' = exists
      BY <1>13 DEF Begin
    <3>5. QED
      BY <3>3, <3>4
  <2>3. QED
    BY <1>13, <2>1, <2>2 DEF Begin
<1>14. ASSUME NEW r \in Rows, Check(r) PROVE Selected'
  BY <1>14 DEF Check, Goto
<1>15. CASE Stamp
  BY <1>15 DEF Stamp, Goto, Done
<1>16. ASSUME NEW s \in Scheds, Create(s) PROVE Selected'
  BY <1>16 DEF Create
<1>17. ASSUME NEW s \in Scheds, Delete(s) PROVE Selected'
  BY <1>17 DEF Delete
<1>18. ASSUME NEW s \in Scheds, TriggerNow(s) PROVE Selected'
  BY <1>18, TriggerNowAside DEF TriggerNow
<1>19. ASSUME NEW s \in Scheds, Abort(s) PROVE Selected'
  BY <1>19 DEF Abort, SessionAbort, Goto
<1>20. CASE Restart
  BY <1>20 DEF Restart
<1>21. CASE UNCHANGED <<exists, at, row, sched, todo>>
  BY <1>21
<1>22. QED
  BY <1>1, <1>2, <1>3, <1>4, <1>5, <1>6, <1>7, <1>8, <1>9, <1>10, <1>11, <1>12,
     <1>13, <1>14, <1>15, <1>16, <1>17, <1>18, <1>19, <1>20, <1>21
     DEF Next, TickStep, HandlerStep, UserStep, TriggerStep, Toggle, TimePasses,
         TurnStarts, TurnEnds, Stop

\* Every step keeps the account of what has been fired.
LEMMA FiredStep == IInv /\ [Next]_vars => Fired'
<1> SUFFICES ASSUME TypeOK, Placed, RowsMade, Selected, Fired, [Next]_vars PROVE Fired'
  BY DEF IInv
<1> USE ScheduleAssumption
    DEF TypeOK, Placed, Selected, Fired, Triggering, Procs, Rows, NoRow, vars, tableVars, rowVars,
        engineVars, procVars, historyVars
<1>1. ASSUME NEW p \in Procs, Submit(p) PROVE Fired'
  BY <1>1 DEF Submit, Goto
<1>2. ASSUME NEW p \in Procs, SubmitFails(p) PROVE Fired'
  BY <1>2 DEF SubmitFails, Goto, Done, Written, Commits
<1>3. ASSUME NEW p \in Procs, Link(p) PROVE Fired'
  BY <1>3 DEF Link, Goto, Written, Commits, LinkFor
<1>4. ASSUME NEW p \in Procs, Remember(p) PROVE Fired'
  BY <1>4 DEF Remember, Goto, Done
<1>5. CASE CountError
  BY <1>5 DEF CountError, Goto, Done, Patched, Written, Commits
<1>6. CASE Disable
  BY <1>6 DEF Disable, Goto, Done, Patched, Written, Commits
<1>7. CASE MarkFired
  <2> DEFINE s == sched[row["tick"]]
  <2>1. s \in Scheds /\ exists[s] # "never" /\ s \notin todo
    BY <1>7, InHand DEF MarkFired
  <2>2. ~Triggering(s)' \/ at'["tick"] = "reset"
    BY <1>7 DEF MarkFired, Goto
  <2>3. CASE ~Commits("tick")
    <3>1. torn' = torn \cup {s} /\ at'["tick"] = "reset"
      BY <1>7, <2>3 DEF MarkFired, Torn, Goto
    <3>2. UNCHANGED <<exists, row, sched, todo, fired>>
      BY <1>7, <2>3 DEF MarkFired, Patched, Written
    <3>3. QED
      BY <1>7, <3>1, <3>2 DEF MarkFired
  <2>4. CASE Commits("tick")
    <3>1. torn' = torn /\ at'["tick"] = "reset" /\ UNCHANGED <<exists, row, sched, todo>>
      BY <1>7, <2>4 DEF MarkFired, Torn, Goto
    <3>2. \A t \in Scheds : t # s => fired'[t] = fired[t]
      BY <1>7, <2>1 DEF MarkFired, Patched, Written
    <3>3. s \in AtScheds \/ fired'[s] = 0 \/ (exists[s] = "deleted" /\ fired'[s] = fired[s])
      BY <1>7, <2>1, <2>4 DEF MarkFired, DueAgain, Patched, Written
    <3>4. ASSUME NEW t \in Scheds \ AtScheds, t # s
          PROVE  \/ t \in torn \/ fired'[t] = 0
                 \/ fired'[t] = 1 /\ exists[t] = "deleted" /\ t \notin todo
      BY <1>7, <3>2, <3>4 DEF MarkFired
    <3>5. \/ s \in AtScheds \/ s \in torn \/ fired'[s] = 0
          \/ fired'[s] = 1 /\ exists[s] = "deleted" /\ s \notin todo
      <4>1. s \in AtScheds \/ s \in torn \/ fired[s] \in {0, 1}
        BY <2>1
      <4>2. QED
        BY ONLY <2>1, <3>3, <4>1
    <3>6. QED
      BY <3>1, <3>4, <3>5
  <2>5. QED
    BY <2>3, <2>4
<1>8. CASE Reset
  BY <1>8 DEF Reset, Goto, Torn, ResetCount, Patched, Written, Commits
<1>9. CASE Tick
  BY <1>9 DEF Tick, Goto, SelectDue
<1>10. CASE ListRunning
  BY <1>10 DEF ListRunning, Goto, ListRunningRuns
<1>11. CASE CloseRow
  BY <1>11 DEF CloseRow, Goto, Written, Commits
<1>12. CASE TickEnds
  BY <1>12 DEF TickEnds, Goto
<1>13. ASSUME NEW s \in Scheds, Begin(s) PROVE Fired'
  BY <1>13 DEF Begin, CreateRun, Goto, Commits, RowsMade
<1>14. ASSUME NEW r \in Rows, Check(r) PROVE Fired'
  BY <1>14 DEF Check, Goto
<1>15. CASE Stamp
  BY <1>15 DEF Stamp, Goto, Done
<1>16. ASSUME NEW s \in Scheds, Create(s) PROVE Fired'
  BY <1>16 DEF Create
<1>17. ASSUME NEW s \in Scheds, Delete(s) PROVE Fired'
  BY <1>17 DEF Delete
<1>18. ASSUME NEW s \in Scheds, TriggerNow(s) PROVE Fired'
  <2>1. UNCHANGED <<exists, todo, fired, torn>>
    BY <1>18 DEF TriggerNow
  <2>2. at'["tick"] = at["tick"] /\ \A t \in Scheds : Triggering(t)' <=> Triggering(t)
    BY ONLY <1>18, TypeOK, Placed, TriggerNowAside
  <2>3. QED
    BY <2>1, <2>2
<1>19. ASSUME NEW s \in Scheds, Abort(s) PROVE Fired'
  BY <1>19 DEF Abort, SessionAbort, Goto
<1>20. CASE Restart
  BY <1>20 DEF Restart
<1>21. CASE UNCHANGED <<exists, at, row, sched, todo, fired, torn>>
  BY <1>21
<1>22. QED
  BY <1>1, <1>2, <1>3, <1>4, <1>5, <1>6, <1>7, <1>8, <1>9, <1>10, <1>11, <1>12,
     <1>13, <1>14, <1>15, <1>16, <1>17, <1>18, <1>19, <1>20, <1>21
     DEF Next, TickStep, HandlerStep, UserStep, TriggerStep, Toggle, TimePasses,
         TurnStarts, TurnEnds, Stop

\* Every step keeps the account of the failures.
LEMMA CountedStep == IInv /\ [Next]_vars => Counted'
<1> SUFFICES ASSUME TypeOK, Placed, RowsMade, Selected, Counted, [Next]_vars PROVE Counted'
  BY DEF IInv
<1> USE ScheduleAssumption
    DEF TypeOK, Placed, Selected, Counted, Triggering, Procs, Rows, NoRow, vars, tableVars,
        rowVars, engineVars, procVars, historyVars
<1>1. ASSUME NEW p \in Procs, Submit(p) PROVE Counted'
  BY <1>1 DEF Submit, Goto
<1>2. ASSUME NEW p \in Procs, SubmitFails(p) PROVE Counted'
  <2>1. CASE p = "hand"
    BY <1>2, <2>1 DEF SubmitFails, Goto, Done
  <2>2. CASE p = "tick"
    <3> DEFINE s == sched[row["tick"]]
    <3>1. s \in Scheds
      BY <1>2, <2>2, InHand DEF SubmitFails
    <3>2. s \in torn \/ errors[s] <= streak[s]
      BY <1>2, <2>2, <3>1 DEF SubmitFails
    <3>3. /\ streak' = [streak EXCEPT ![s] = streak[s] + 1] /\ at'["tick"] = "errors"
          /\ UNCHANGED <<exists, row, sched, errors, torn>>
      BY <1>2, <2>2 DEF SubmitFails, Goto
    <3>4. streak'[s] = streak[s] + 1 /\ \A t \in Scheds : t # s => streak'[t] = streak[t]
      BY <3>1, <3>3
    <3>5. errors[s] \in Nat /\ streak[s] \in Nat
      BY <3>1
    <3>6. ASSUME NEW t \in Scheds PROVE t \in torn \/ errors[t] <= streak'[t]
      <4>1. CASE t = s
        BY <3>2, <3>4, <3>5, <4>1
      <4>2. CASE t # s
        BY <1>2, <2>2, <3>4, <4>2 DEF SubmitFails
      <4>3. QED
        BY <4>1, <4>2
    <3>7. QED
      BY <3>2, <3>3, <3>4, <3>5, <3>6
  <2>3. QED
    BY <2>1, <2>2
<1>3. ASSUME NEW p \in Procs, Link(p) PROVE Counted'
  BY <1>3 DEF Link, Goto, Written, Commits, LinkFor
<1>4. ASSUME NEW p \in Procs, Remember(p) PROVE Counted'
  BY <1>4 DEF Remember, Goto, Done
<1>5. CASE CountError
  <2> DEFINE s == sched[row["tick"]]
  <2>1. s \in Scheds
    BY <1>5, InHand DEF CountError
  <2>2. s \in torn \/ errors[s] + 1 <= streak[s]
    BY <1>5 DEF CountError
  <2>3. /\ UNCHANGED <<exists, sched, streak, torn>>
        /\ at'["tick"] \in {"disable", "trigger"}
        /\ at'["tick"] = "disable" => errors[s] + 1 >= MaxAttempts /\ row'["tick"] = row["tick"]
    BY <1>5 DEF CountError, Goto, Done
  <2>4. \A t \in Scheds : t # s => errors'[t] = errors[t]
    BY <1>5, <2>1 DEF CountError, Patched, Written
  <2>5. errors'[s] \in {errors[s], errors[s] + 1} /\ (exists[s] # "yes" => errors'[s] = errors[s])
    BY <1>5, <2>1 DEF CountError, Patched, Written
  <2>6. errors[s] \in Nat /\ streak[s] \in Nat
    BY <2>1
  <2>7. \A t \in Scheds : t \in torn \/ errors'[t] <= streak[t]
    BY <1>5, <2>1, <2>2, <2>4, <2>5, <2>6 DEF CountError
  <2>8. \A t \in Scheds : exists[t] # "yes" => errors'[t] = 0
    BY <2>1, <2>4, <2>5
  <2>9. at'["tick"] = "disable" => s \in torn \/ streak[s] >= MaxAttempts
    BY <2>2, <2>3, <2>6
  <2>10. QED
    BY <2>3, <2>7, <2>8, <2>9
<1>6. CASE Disable
  BY <1>6 DEF Disable, Goto, Done, Patched, Written, Commits
<1>7. CASE MarkFired
  BY <1>7 DEF MarkFired, Goto, Torn, DueAgain, Patched, Written, Commits
<1>8. CASE Reset
  BY <1>8 DEF Reset, Goto, Torn, ResetCount, Patched, Written, Commits
<1>9. CASE Tick
  BY <1>9 DEF Tick, Goto, SelectDue
<1>10. CASE ListRunning
  BY <1>10 DEF ListRunning, Goto, ListRunningRuns
<1>11. CASE CloseRow
  BY <1>11 DEF CloseRow, Goto, Written, Commits
<1>12. CASE TickEnds
  BY <1>12 DEF TickEnds, Goto
<1>13. ASSUME NEW s \in Scheds, Begin(s) PROVE Counted'
  BY <1>13 DEF Begin, CreateRun, Goto, Commits, RowsMade
<1>14. ASSUME NEW r \in Rows, Check(r) PROVE Counted'
  BY <1>14 DEF Check, Goto
<1>15. CASE Stamp
  BY <1>15 DEF Stamp, Goto, Done
<1>16. ASSUME NEW s \in Scheds, Create(s) PROVE Counted'
  BY <1>16 DEF Create
<1>17. ASSUME NEW s \in Scheds, Delete(s) PROVE Counted'
  BY <1>17 DEF Delete
<1>18. ASSUME NEW s \in Scheds, TriggerNow(s) PROVE Counted'
  <2>1. UNCHANGED <<exists, errors, streak, torn>>
    BY <1>18 DEF TriggerNow
  <2>2. at'["tick"] = at["tick"] /\ \A t \in Scheds : Triggering(t)' <=> Triggering(t)
    BY ONLY <1>18, TypeOK, Placed, TriggerNowAside
  <2>3. at["tick"] \in {"errors", "disable"} => sched'[row'["tick"]] = sched[row["tick"]]
    BY <2>2, InHand
  <2>4. QED
    BY <2>1, <2>2, <2>3
<1>19. ASSUME NEW s \in Scheds, Abort(s) PROVE Counted'
  BY <1>19 DEF Abort, SessionAbort, Goto
<1>20. CASE Restart
  BY <1>20 DEF Restart
<1>21. CASE UNCHANGED <<exists, at, row, sched, errors, streak, torn>>
  BY <1>21
<1>22. QED
  BY <1>1, <1>2, <1>3, <1>4, <1>5, <1>6, <1>7, <1>8, <1>9, <1>10, <1>11, <1>12,
     <1>13, <1>14, <1>15, <1>16, <1>17, <1>18, <1>19, <1>20, <1>21
     DEF Next, TickStep, HandlerStep, UserStep, TriggerStep, Toggle, TimePasses,
         TurnStarts, TurnEnds, Stop

\* The invariant holds at first.
LEMMA InitIInv == Init => IInv
<1> SUFFICES ASSUME Init PROVE IInv
  OBVIOUS
<1> USE ScheduleAssumption DEF Init, Procs, Rows, NoRow, NoRun
<1>1. TypeOK
  <2>1. at \in [Procs -> Places] /\ row \in [Procs -> Rows \cup {NoRow}]
    BY DEF Places
  <2>2. status \in [Rows -> Statuses]
    BY DEF Statuses
  <2>3. rows \in 0 .. MaxRows /\ exits \in 0 .. MaxExits
    OBVIOUS
  <2>4. link \in [Rows -> Nat] /\ \A r \in Rows : link[r] \in {NoRun, RunID(r)}
    OBVIOUS
  <2>5. QED
    BY <2>1, <2>2, <2>3, <2>4 DEF TypeOK
<1>2. Placed
  BY DEF Placed
<1>3. RowsMade
  BY DEF RowsMade
<1>4. Submitted /\ RowsTellWhatRan
  BY DEF Submitted, RowsTellWhatRan
<1>5. Selected /\ Fired /\ Counted
  BY DEF Selected, Fired, Counted
<1>6. QED
  BY <1>1, <1>2, <1>3, <1>4, <1>5 DEF IInv

\* Every step keeps it.
LEMMA StepIInv == IInv /\ [Next]_vars => IInv'
BY TypeStep, PlaceStep, RowsStep, SubmittedStep, SelectedStep, FiredStep, CountedStep, TruthStep
   DEF IInv

(***************************************************************************)
(* Theorems.                                                               *)
(***************************************************************************)

\* The engine, its tables and the sessions agree in every reachable state.
THEOREM Inductive == Spec => []IInv
BY InitIInv, StepIInv, PTL DEF Spec

\* Every variable keeps its type.
THEOREM TypeCorrect == Spec => []TypeOK
<1>1. IInv => TypeOK
  BY DEF IInv
<1>2. QED
  BY <1>1, Inductive, PTL

\* A recurring schedule is submitted at most once for each next_fire_at, whatever handlers
\* do between the writes of its trigger, unless the process stopped between them.
THEOREM FiredOnce == Spec => []OncePerFireTime
<1>1. IInv => OncePerFireTime
  BY DEF IInv, Fired, OncePerFireTime
<1>2. QED
  BY <1>1, Inductive, PTL

\* A row says failed only of a trigger that submitted nothing, done and aborted only of one
\* that submitted a turn.
THEOREM RowsAreTruthful == Spec => []RowsTellWhatRan
<1>1. IInv => RowsTellWhatRan
  BY DEF IInv
<1>2. QED
  BY <1>1, Inductive, PTL

\* The engine disables a schedule only for MaxAttempts failures in a row.
THEOREM Disabling == Spec => DisabledForAReason
<1> DEFINE Reason == \A s \in Scheds :
      (at["tick"] = "disable" /\ at'["tick"] # "disable" /\ enabled[s] /\ ~enabled'[s])
        => streak[s] >= MaxAttempts \/ s \in torn
<1>1. IInv /\ [Next]_vars => [Reason]_vars
  <2> SUFFICES ASSUME IInv, [Next]_vars, NEW s \in Scheds, at["tick"] = "disable",
                      at'["tick"] # "disable", enabled[s], ~enabled'[s]
               PROVE  streak[s] >= MaxAttempts \/ s \in torn
    OBVIOUS
  <2>1. CASE Disable
    BY <2>1 DEF IInv, TypeOK, Disable, Patched, Written, Counted
  <2>2. CASE UNCHANGED <<enabled>>
    BY <2>2
  <2>3. CASE UNCHANGED <<at>>
    BY <2>3
  <2>4. QED
    BY <2>1, <2>2, <2>3
       DEF Next, TickStep, HandlerStep, UserStep, TriggerStep, vars, tableVars, procVars, Submit,
           SubmitFails, Link, Remember, CountError, MarkFired, Reset, Tick, ListRunning, CloseRow,
           TickEnds, Begin, Check, Stamp, Create, Toggle, Delete, TriggerNow, Abort, TimePasses,
           TurnStarts, TurnEnds, Stop, Restart
<1>2. QED
  BY <1>1, Inductive, PTL DEF Spec, DisabledForAReason
-----------------------------------------------------------------------------
(* Sessions, for any sessions and clients, any cap and any number of       *)
(* runtimes and prompts: the map, the list and the runtimes agree, and     *)
(* making room for one session spares the runs of the others.              *)
(* First the inductive invariant.                                          *)

\* The library's operators are the same whether the instance sees them or this module.
LEMMA LibraryAgrees ==
  /\ \A X : G!IsFiniteSet(X) <=> IsFiniteSet(X)
  /\ \A X : G!Cardinality(X) = Cardinality(X)
  /\ \A q : G!ToSet(q) = ToSet(q) /\ (G!IsInjective(q) <=> IsInjective(q))
  /\ \A q, i : G!RemoveAt(q, i) = RemoveAt(q, i)
<1>1. \A X : G!IsFiniteSet(X) <=> IsFiniteSet(X)
  BY DEF G!IsFiniteSet, IsFiniteSet
<1>2. \A X : G!Cardinality(X) = Cardinality(X)
  BY DEF G!Cardinality, Cardinality
<1>3. \A q : G!ToSet(q) = ToSet(q)
  BY DEF G!ToSet, ToSet
<1>4. \A q : G!IsInjective(q) <=> IsInjective(q)
  BY DEF G!IsInjective, IsInjective
<1>5. \A q, i : G!RemoveAt(q, i) = RemoveAt(q, i)
  BY DEF G!RemoveAt, RemoveAt
<1> QED
  BY <1>1, <1>2, <1>3, <1>4, <1>5

\* The assumptions on the constants of the session manager.
LEMMA GatewayAssumption ==
  /\ IsFiniteSet(Sessions) /\ IsFiniteSet(Clients)
  /\ MaxSessions \in Nat \ {0} /\ MaxRuntimes \in Nat /\ MaxPrompts \in Nat
  /\ Absent \notin Nat
BY PartsAssumption, LibraryAgrees DEF PartsAssumption, G!SessionsAssumption

Requests == [op : {"prompt", "steer"}, runtime : G!Built]

IndexShapes ==
  /\ lru \in Seq(Sessions) /\ IsInjective(lru)
  /\ entry \in [Sessions -> {Absent} \cup 0..Len(owner)]
  /\ stalled \subseteq G!Known /\ expired \subseteq G!Known

RuntimeShapes ==
  /\ owner \in Seq(Sessions) /\ Len(owner) <= MaxRuntimes
  /\ phase \in [G!Built -> {"open", "cancelled", "closing", "closed"}]
  /\ parked \in [G!Built -> SUBSET (1..prompts)]
  /\ popped \in [G!Built -> 0..prompts] /\ active \in [G!Built -> 0..prompts]
  /\ prompts \in 0..MaxPrompts /\ cut \subseteq 1..prompts /\ interrupted \subseteq 1..prompts

Holding == held \in [Clients -> {G!Idle} \cup Requests]

\* An entry has a runtime that was built for its session.
Owned == \A s \in Sessions : G!HasRuntime(s) => owner[entry[s]] = s

\* A loop runs what it popped before it pops again, and no request is in two loops.
OneAtATime == \A k \in G!Built : popped[k] = G!Nobody \/ active[k] = G!Nobody
Apart == \A k, l \in G!Built : k # l => G!Pending(k) \cap G!Pending(l) = {}

SessionsInv ==
  /\ IndexShapes /\ RuntimeShapes /\ Holding
  /\ G!IndexAgrees /\ Owned /\ G!OpenMeansOwned /\ OneAtATime /\ Apart
-----------------------------------------------------------------------------
(* Lists without repetition.                                               *)

\* A session that is not in the list comes to its front.
LEMMA ToTheFront ==
  ASSUME NEW S, NEW q \in Seq(S), IsInjective(q), NEW s \in S, s \notin ToSet(q)
  PROVE  /\ <<s>> \o q \in Seq(S) /\ IsInjective(<<s>> \o q)
         /\ ToSet(<<s>> \o q) = ToSet(q) \cup {s}
<1> DEFINE r == <<s>> \o q
<1>1. /\ r \in Seq(S) /\ Len(r) = Len(q) + 1 /\ DOMAIN r = 1..Len(q) + 1
      /\ DOMAIN q = 1..Len(q) /\ Len(q) \in Nat
      /\ r[1] = s /\ \A i \in 1..Len(q) : r[i + 1] = q[i]
  OBVIOUS
<1> HIDE DEF r
<1>2. \A i \in 2..Len(q) + 1 : i - 1 \in 1..Len(q) /\ r[i] = q[i - 1]
  <2> SUFFICES ASSUME NEW i \in 2..Len(q) + 1 PROVE i - 1 \in 1..Len(q) /\ r[i] = q[i - 1]
    OBVIOUS
  <2>1. i - 1 \in 1..Len(q) /\ (i - 1) + 1 = i
    BY <1>1
  <2> QED
    BY <1>1, <2>1
<1>3. IsInjective(r)
  <2> SUFFICES ASSUME NEW i \in 1..Len(q) + 1, NEW j \in 1..Len(q) + 1, r[i] = r[j] PROVE i = j
    BY <1>1 DEF IsInjective
  <2>1. CASE i = 1 /\ j = 1
    BY <2>1
  <2>2. CASE i # 1 /\ j # 1
    <3>1. i - 1 \in 1..Len(q) /\ j - 1 \in 1..Len(q) /\ q[i - 1] = q[j - 1]
      BY <1>1, <1>2, <2>2
    <3>2. i - 1 = j - 1
      BY <1>1, <3>1 DEF IsInjective
    <3> QED
      BY <1>1, <3>2
  <2>3. CASE (i = 1) # (j = 1)
    <3>1. \A n \in 2..Len(q) + 1 : r[n] # s
      BY <1>1, <1>2 DEF ToSet
    <3> QED
      BY <1>1, <2>3, <3>1
  <2> QED
    BY <2>1, <2>2, <2>3
<1>4. ToSet(r) = ToSet(q) \cup {s}
  <2>1. \A e \in ToSet(r) : e \in ToSet(q) \cup {s}
    <3> SUFFICES ASSUME NEW i \in 1..Len(q) + 1 PROVE r[i] \in ToSet(q) \cup {s}
      BY <1>1 DEF ToSet
    <3>1. i = 1 \/ i \in 2..Len(q) + 1
      BY <1>1
    <3> QED
      BY <1>1, <1>2, <3>1 DEF ToSet
  <2>2. \A e \in ToSet(q) : e \in ToSet(r)
    BY <1>1 DEF ToSet
  <2>3. s \in ToSet(r)
    BY <1>1 DEF ToSet
  <2> QED
    BY <2>1, <2>2, <2>3
<1> QED
  BY <1>1, <1>3, <1>4 DEF r

\* The list that is left of the first n elements.
LEMMA FirstPart ==
  ASSUME NEW S, NEW q \in Seq(S), IsInjective(q), NEW n \in 0..Len(q)
  PROVE  /\ SubSeq(q, 1, n) \in Seq(S) /\ IsInjective(SubSeq(q, 1, n))
         /\ ToSet(SubSeq(q, 1, n)) = ToSet(q) \ {q[i] : i \in n + 1..Len(q)}
<1> DEFINE r == SubSeq(q, 1, n)
<1>1. /\ r \in Seq(S) /\ Len(r) = n /\ DOMAIN r = 1..n /\ \A i \in 1..n : r[i] = q[i]
      /\ DOMAIN q = 1..Len(q) /\ Len(q) \in Nat
  BY SubSeqProperties, LenProperties
<1> HIDE DEF r
<1>2. IsInjective(r)
  BY <1>1 DEF IsInjective
<1>3. \A i \in 1..Len(q) : i \in 1..n \/ i \in n + 1..Len(q)
  BY <1>1
<1>4. \A i \in 1..n, j \in n + 1..Len(q) : q[i] # q[j]
  BY <1>1 DEF IsInjective
<1>5. ToSet(r) = ToSet(q) \ {q[i] : i \in n + 1..Len(q)}
  BY <1>1, <1>3, <1>4 DEF ToSet
<1> QED
  BY <1>1, <1>2, <1>5 DEF r

LEMMA AtMost == \A n \in Nat : \A i \in 1..n : i < n \/ i = n
  OBVIOUS

\* The list without one of its elements, or as it was.
LEMMA TakenOut ==
  ASSUME NEW S, NEW q \in Seq(S), IsInjective(q), NEW s
  PROVE  /\ G!Without(q, s) \in Seq(S) /\ IsInjective(G!Without(q, s))
         /\ ToSet(G!Without(q, s)) = ToSet(q) \ {s}
<1>1. CASE s \notin ToSet(q)
  BY LibraryAgrees, <1>1 DEF G!Without
<1>2. CASE s \in ToSet(q)
  <2>1. DOMAIN q = 1..Len(q) /\ Len(q) \in Nat
    BY LenProperties
  <2>2. PICK i \in 1..Len(q) : q[i] = s /\ G!Without(q, s) = RemoveAt(q, i)
    <3>1. \E j \in DOMAIN q : q[j] = s
      BY <1>2 DEF ToSet
    <3> QED
      BY LibraryAgrees, <1>2, <2>1, <3>1 DEF G!Without
  <2> DEFINE r == RemoveAt(q, i)
  <2> DEFINE a == SubSeq(q, 1, i - 1)
             b == SubSeq(q, i + 1, Len(q))
  <2>3. a \in Seq(S) /\ Len(a) = i - 1 /\ \A j \in 1..i - 1 : a[j] = q[j]
    <3>1. \A j \in 1..i - 1 : j \in 1..Len(q)
      BY <2>1, <2>2
    <3> QED
      BY <2>1, <2>2, <3>1, SubSeqProperties
  <2>4. b \in Seq(S) /\ Len(b) = Len(q) - i /\ \A j \in 1..Len(q) - i : b[j] = q[j + i]
    <3>1. \A j \in i + 1..Len(q) : j \in 1..Len(q)
      BY <2>1, <2>2
    <3>2. \A j \in i + 1..Len(q) : q[j] \in S
      BY <2>1, <3>1
    <3>3. /\ b \in Seq(S)
          /\ Len(b) = IF i + 1 <= Len(q) THEN Len(q) - (i + 1) + 1 ELSE 0
          /\ \A j \in 1..Len(q) - (i + 1) + 1 : b[j] = q[i + 1 + j - 1]
      BY <2>1, <2>2, <3>2, SubSeqProperties
    <3> HIDE DEF b
    <3>4. \A j \in 1..Len(q) - i : i + 1 + j - 1 = j + i
      BY <2>1, <2>2
    <3>5. Len(q) - (i + 1) + 1 = Len(q) - i
      BY <2>1, <2>2
    <3>6. Len(b) = Len(q) - i
      <4>1. CASE i < Len(q)
        <5>1. i + 1 <= Len(q)
          BY <2>1, <2>2, <4>1
        <5> QED
          BY <3>3, <3>5, <5>1
      <4>2. CASE i = Len(q)
        <5>1. ~(i + 1 <= Len(q)) /\ Len(q) - i = 0
          BY <2>1, <4>2
        <5> QED
          BY <3>3, <5>1
      <4>3. i < Len(q) \/ i = Len(q)
        BY <2>1, AtMost
      <4> QED
        BY <4>1, <4>2, <4>3
    <3>7. ASSUME NEW j \in 1..Len(q) - i PROVE b[j] = q[j + i]
      BY <3>3, <3>4, <3>5
    <3> QED
      BY <3>3, <3>6, <3>7
  <2>5. r = a \o b
    BY DEF RemoveAt
  <2> HIDE DEF a, b, r
  <2>6. /\ r \in Seq(S) /\ Len(r) = Len(q) - 1 /\ DOMAIN r = 1..Len(q) - 1
        /\ \A j \in 1..i - 1 : r[j] = a[j]
        /\ \A j \in i..Len(q) - 1 : r[j] = b[j - (i - 1)]
    <3>1. /\ r \in Seq(S) /\ Len(r) = Len(a) + Len(b)
          /\ \A j \in 1..Len(a) + Len(b) :
               r[j] = IF j <= Len(a) THEN a[j] ELSE b[j - Len(a)]
      BY <2>3, <2>4, <2>5, ConcatProperties
    <3>2. Len(a) + Len(b) = Len(q) - 1
      BY <2>1, <2>2, <2>3, <2>4
    <3>3. DOMAIN r = 1..Len(q) - 1
      BY <3>1, <3>2, LenProperties
    <3>4. ASSUME NEW j \in 1..i - 1 PROVE r[j] = a[j]
      <4>1. j \in 1..Len(q) - 1 /\ j <= i - 1
        BY <2>1, <2>2
      <4> QED
        BY <2>3, <3>1, <3>2, <4>1
    <3>5. ASSUME NEW j \in i..Len(q) - 1 PROVE r[j] = b[j - (i - 1)]
      <4>1. j \in 1..Len(q) - 1 /\ ~(j <= i - 1)
        BY <2>1, <2>2
      <4> QED
        BY <2>3, <3>1, <3>2, <4>1
    <3> QED
      BY <3>1, <3>2, <3>3, <3>4, <3>5
  <2>7. \A j \in 1..Len(q) - 1 : r[j] = IF j < i THEN q[j] ELSE q[j + 1]
    <3> SUFFICES ASSUME NEW j \in 1..Len(q) - 1
                 PROVE  r[j] = IF j < i THEN q[j] ELSE q[j + 1]
      OBVIOUS
    <3>1. CASE j < i
      BY <2>1, <2>2, <2>3, <2>4, <2>6, <3>1
    <3>2. CASE ~(j < i)
      <4>1. j - (i - 1) \in 1..Len(q) - i /\ (j - (i - 1)) + i = j + 1 /\ j \in i..Len(q) - 1
        BY <2>1, <2>2, <3>2
      <4> QED
        BY <2>3, <2>4, <2>6, <3>2, <4>1
    <3> QED
      BY <3>1, <3>2
  <2>8. IsInjective(r)
    <3> SUFFICES ASSUME NEW j \in 1..Len(q) - 1, NEW k \in 1..Len(q) - 1, r[j] = r[k]
                 PROVE  j = k
      BY <2>6 DEF IsInjective
    <3> DEFINE At(n) == IF n < i THEN n ELSE n + 1
    <3>1. At(j) \in 1..Len(q) /\ At(k) \in 1..Len(q) /\ q[At(j)] = q[At(k)]
      BY <2>1, <2>2, <2>7
    <3>2. At(j) = At(k)
      BY <2>1, <3>1 DEF IsInjective
    <3> QED
      BY <2>1, <2>2, <3>2
  <2>9. \A e \in ToSet(r) : e \in ToSet(q) /\ e # s
    <3> SUFFICES ASSUME NEW j \in 1..Len(q) - 1 PROVE r[j] \in ToSet(q) /\ r[j] # s
      BY <2>6 DEF ToSet
    <3> DEFINE m == IF j < i THEN j ELSE j + 1
    <3>1. m \in 1..Len(q) /\ m # i /\ r[j] = q[m]
      BY <2>1, <2>2, <2>7
    <3> HIDE DEF m
    <3> QED
      BY <2>1, <2>2, <3>1 DEF ToSet, IsInjective
  <2>10. \A e \in ToSet(q) : e # s => e \in ToSet(r)
    <3> SUFFICES ASSUME NEW j \in 1..Len(q), q[j] # s PROVE q[j] \in ToSet(r)
      BY <2>1 DEF ToSet
    <3> DEFINE m == IF j < i THEN j ELSE j - 1
    <3>1. m \in 1..Len(q) - 1 /\ r[m] = q[j]
      BY <2>1, <2>2, <2>7
    <3> HIDE DEF m
    <3> QED
      BY <2>6, <3>1 DEF ToSet
  <2> QED
    BY <2>2, <2>6, <2>8, <2>9, <2>10 DEF r
<1> QED
  BY <1>1, <1>2


-----------------------------------------------------------------------------
(* What an operation makes of the index. The record x is the index it has  *)
(* got to, against the one of the state it began in.                       *)

IndexRecords ==
  [lru : Seq(Sessions), entry : [Sessions -> {Absent} \cup 0..Len(owner)],
   stalled : SUBSET Sessions, expired : SUBSET Sessions, let : SUBSET G!Built]

\* The list, the map and the marks agree.
Agrees(x) ==
  /\ x \in IndexRecords /\ IsInjective(x.lru) /\ ToSet(x.lru) = G!KnownIn(x)
  /\ x.stalled \subseteq G!KnownIn(x) /\ x.expired \subseteq G!KnownIn(x)

\* No runtime changed hands, and exactly those that lost their entry are let go of.
Accounts(x) ==
  /\ \A s \in Sessions : x.entry[s] \in {Absent, G!Bare} \/ x.entry[s] = entry[s]
  /\ \A k \in G!Built :
       k \in x.let <=> \E s \in Sessions : G!HasRuntime(s) /\ entry[s] = k /\ x.entry[s] # k

Good(x) == Agrees(x) /\ Accounts(x)

\* None of those let go of is running.
Spares(x) == \A k \in x.let : active[k] = G!Nobody

LEMMA IndexGood ==
  ASSUME SessionsInv
  PROVE  Good(G!Index) /\ Spares(G!Index) /\ G!KnownIn(G!Index) = G!Known
<1>1. G!KnownIn(G!Index) = G!Known
  BY DEF G!KnownIn, G!Known, G!Index
<1>2. Agrees(G!Index)
  BY LibraryAgrees, <1>1
     DEF SessionsInv, IndexShapes, G!IndexAgrees, Agrees, IndexRecords, G!Index, G!Known
<1>3. Accounts(G!Index)
  BY DEF Accounts, G!Index
<1>4. Spares(G!Index)
  BY DEF Spares, G!Index
<1> QED
  BY <1>1, <1>2, <1>3, <1>4 DEF Good

\* Sessions taken off the map, and off the list.
LEMMA Dropped ==
  ASSUME SessionsInv, NEW x, Good(x), NEW gone \in SUBSET Sessions,
         NEW rest \in Seq(Sessions), IsInjective(rest), ToSet(rest) = ToSet(x.lru) \ gone
  PROVE  /\ Good(G!Drop(x, gone, rest))
         /\ G!KnownIn(G!Drop(x, gone, rest)) = G!KnownIn(x) \ gone
         /\ \A k \in G!Drop(x, gone, rest).let :
              k \in x.let \/ \E s \in gone : G!HasRuntime(s) /\ entry[s] = k
<1> DEFINE y == G!Drop(x, gone, rest)
<1>1. /\ x \in IndexRecords /\ Accounts(x) /\ ToSet(x.lru) = G!KnownIn(x)
      /\ x.stalled \subseteq G!KnownIn(x) /\ x.expired \subseteq G!KnownIn(x)
  BY DEF Good, Agrees
<1>2. /\ y.lru = rest /\ y.stalled = x.stalled \ gone /\ y.expired = x.expired \ gone
      /\ y.entry = [s \in Sessions |-> IF s \in gone THEN Absent ELSE x.entry[s]]
      /\ y.let = x.let \cup ({x.entry[s] : s \in gone} \ {Absent, G!Bare})
      /\ y = [lru |-> y.lru, entry |-> y.entry, stalled |-> y.stalled,
              expired |-> y.expired, let |-> y.let]
  BY DEF G!Drop
<1> HIDE DEF y
<1>3. G!KnownIn(y) = G!KnownIn(x) \ gone
  BY <1>2 DEF G!KnownIn
<1>4. \A s \in gone : x.entry[s] \notin {Absent, G!Bare} =>
        x.entry[s] = entry[s] /\ G!HasRuntime(s) /\ x.entry[s] \in G!Built
  <2>1. \A s \in gone : x.entry[s] \in {Absent} \cup 0..Len(owner)
    BY <1>1 DEF IndexRecords
  <2>2. Len(owner) \in Nat
    BY DEF SessionsInv, RuntimeShapes
  <2>3. \A s \in gone : x.entry[s] \notin {Absent, G!Bare} => x.entry[s] \in G!Built
    BY <2>1, <2>2 DEF G!Built, G!Bare
  <2> QED
    BY <1>1, <2>3 DEF Accounts, G!HasRuntime, G!Known
<1>5. y.let \subseteq G!Built
  BY <1>1, <1>2, <1>4 DEF IndexRecords
<1>6. y \in IndexRecords
  <2>1. y.entry \in [Sessions -> {Absent} \cup 0..Len(owner)]
    BY <1>1, <1>2 DEF IndexRecords
  <2>2. y.stalled \in SUBSET Sessions /\ y.expired \in SUBSET Sessions
    BY <1>1, <1>2 DEF IndexRecords
  <2> QED
    BY <1>2, <1>5, <2>1, <2>2 DEF IndexRecords
<1>7. Agrees(y)
  BY <1>1, <1>2, <1>3, <1>6 DEF Agrees
<1>8. \A s \in Sessions : y.entry[s] \in {Absent, G!Bare} \/ y.entry[s] = entry[s]
  BY <1>1, <1>2 DEF Accounts
<1>9. ASSUME NEW k \in G!Built, k \in y.let
      PROVE  \E s \in Sessions : G!HasRuntime(s) /\ entry[s] = k /\ y.entry[s] # k
  <2>1. CASE k \in x.let
    <3>1. PICK s \in Sessions : G!HasRuntime(s) /\ entry[s] = k /\ x.entry[s] # k
      BY <1>1, <2>1 DEF Accounts
    <3> QED
      BY <1>2, <3>1 DEF G!HasRuntime, G!Known
  <2>2. CASE k \notin x.let
    <3>1. PICK s \in gone : x.entry[s] = k /\ k \notin {Absent, G!Bare}
      BY <1>2, <1>9, <2>2
    <3> QED
      BY <1>2, <1>4, <3>1
  <2> QED
    BY <2>1, <2>2
<1>10. ASSUME NEW k \in G!Built, NEW s \in Sessions, G!HasRuntime(s), entry[s] = k, y.entry[s] # k
       PROVE  k \in y.let
  <2>1. CASE x.entry[s] # k
    BY <1>1, <1>2, <1>10, <2>1 DEF Accounts
  <2>2. CASE x.entry[s] = k
    <3>1. s \in gone
      BY <1>2, <1>10, <2>2
    <3>2. k \notin {Absent, G!Bare}
      BY <1>10 DEF G!HasRuntime, G!Known
    <3> QED
      BY <1>2, <2>2, <3>1, <3>2
  <2> QED
    BY <2>1, <2>2
<1>11. Accounts(y)
  BY <1>8, <1>9, <1>10 DEF Accounts
<1>12. \A k \in y.let : k \in x.let \/ \E s \in gone : G!HasRuntime(s) /\ entry[s] = k
  BY <1>2, <1>4
<1> QED
  BY <1>3, <1>7, <1>11, <1>12 DEF Good, y

LEMMA Detached ==
  ASSUME SessionsInv, NEW x, Good(x), NEW s \in Sessions
  PROVE  /\ Good(G!Detach(x, s)) /\ G!KnownIn(G!Detach(x, s)) = G!KnownIn(x) \ {s}
         /\ \A k \in G!Detach(x, s).let : k \in x.let \/ (G!HasRuntime(s) /\ entry[s] = k)
<1>1. x.lru \in Seq(Sessions) /\ IsInjective(x.lru)
  BY DEF Good, Agrees, IndexRecords
<1>2. /\ G!Without(x.lru, s) \in Seq(Sessions) /\ IsInjective(G!Without(x.lru, s))
      /\ ToSet(G!Without(x.lru, s)) = ToSet(x.lru) \ {s}
  BY <1>1, TakenOut
<1> DEFINE rest == G!Without(x.lru, s)
<1> HIDE DEF rest
<1>3. rest \in Seq(Sessions) /\ IsInjective(rest) /\ ToSet(rest) = ToSet(x.lru) \ {s}
  BY <1>2 DEF rest
<1>4. /\ Good(G!Drop(x, {s}, rest)) /\ G!KnownIn(G!Drop(x, {s}, rest)) = G!KnownIn(x) \ {s}
      /\ \A k \in G!Drop(x, {s}, rest).let :
           k \in x.let \/ \E r \in {s} : G!HasRuntime(r) /\ entry[r] = k
  BY <1>3, Dropped, {s} \in SUBSET Sessions
<1>5. G!Detach(x, s) = G!Drop(x, {s}, rest)
  BY DEF G!Detach, rest
<1> QED
  BY <1>4, <1>5

\* An entry that does not run is let go of at no run's expense.
LEMMA IdleIsSpared ==
  ASSUME SessionsInv, NEW s \in Sessions, ~G!Runs(s), G!HasRuntime(s)
  PROVE  active[entry[s]] = G!Nobody
BY DEF G!Runs

LEMMA Reaped ==
  ASSUME SessionsInv, NEW x, Good(x), Spares(x), NEW y \in G!Reap(x)
  PROVE  Good(y) /\ Spares(y) /\ G!KnownIn(y) \subseteq G!KnownIn(x)
<1> DEFINE After(n) == {x.lru[i] : i \in n + 1..Len(x.lru)}
<1>1. x.lru \in Seq(Sessions) /\ IsInjective(x.lru)
  BY DEF Good, Agrees, IndexRecords
<1>2. PICK n \in 0..Len(x.lru) :
        /\ y = G!Drop(x, After(n), SubSeq(x.lru, 1, n))
        /\ \A s \in After(n) : ~G!Runs(s)
  BY DEF G!Reap
<1>3. /\ SubSeq(x.lru, 1, n) \in Seq(Sessions) /\ IsInjective(SubSeq(x.lru, 1, n))
      /\ ToSet(SubSeq(x.lru, 1, n)) = ToSet(x.lru) \ After(n)
  BY <1>1, FirstPart
<1>4. After(n) \subseteq Sessions
  <2>1. \A i \in n + 1..Len(x.lru) : i \in 1..Len(x.lru)
    BY <1>1, LenProperties
  <2> QED
    BY <1>1, <2>1, ElementOfSeq
<1> DEFINE gone == After(n)
           rest == SubSeq(x.lru, 1, n)
<1>5. /\ y = G!Drop(x, gone, rest) /\ \A s \in gone : ~G!Runs(s)
      /\ gone \in SUBSET Sessions /\ rest \in Seq(Sessions) /\ IsInjective(rest)
      /\ ToSet(rest) = ToSet(x.lru) \ gone
  BY <1>2, <1>3, <1>4
<1> HIDE DEF gone, rest
<1>6. /\ Good(y) /\ G!KnownIn(y) = G!KnownIn(x) \ gone
      /\ \A k \in y.let : k \in x.let \/ \E s \in gone : G!HasRuntime(s) /\ entry[s] = k
  BY <1>5, Dropped
<1>7. Spares(y)
  BY <1>5, <1>6, IdleIsSpared DEF Spares
<1> QED
  BY <1>6, <1>7

LEMMA AtMostSoMany ==
  ASSUME SessionsInv, NEW x
  PROVE  IsFiniteSet(G!KnownIn(x)) /\ Cardinality(G!KnownIn(x)) \in Nat
<1>1. IsFiniteSet(G!KnownIn(x))
  BY GatewayAssumption, FS_Subset DEF G!KnownIn
<1> QED
  BY <1>1, FS_CardinalityType

\* Once the oldest idle entry has gone there is room for one.
LEMMA Evicted ==
  ASSUME SessionsInv, NEW x, Good(x), Spares(x), Cardinality(G!KnownIn(x)) <= MaxSessions,
         NEW y \in G!Evict(x)
  PROVE  /\ Good(y) /\ Spares(y) /\ G!KnownIn(y) \subseteq G!KnownIn(x)
         /\ Cardinality(G!KnownIn(y)) < MaxSessions
<1>1. MaxSessions \in Nat /\ IsFiniteSet(G!KnownIn(x)) /\ Cardinality(G!KnownIn(x)) \in Nat
  BY GatewayAssumption, AtMostSoMany
<1>2. CASE Cardinality(G!KnownIn(x)) < MaxSessions
  BY LibraryAgrees, <1>2 DEF G!Evict
<1>3. CASE ~(Cardinality(G!KnownIn(x)) < MaxSessions)
  <2>1. PICK i \in DOMAIN x.lru : y = G!Detach(x, x.lru[i]) /\ ~G!Runs(x.lru[i])
    BY LibraryAgrees, <1>3 DEF G!Evict
  <2>2. x.lru[i] \in G!KnownIn(x) /\ x.lru[i] \in Sessions
    BY DEF Good, Agrees, ToSet, G!KnownIn
  <2> DEFINE s == x.lru[i]
  <2>3. s \in G!KnownIn(x) /\ s \in Sessions /\ ~G!Runs(s) /\ y = G!Detach(x, s)
    BY <2>1, <2>2
  <2> HIDE DEF s
  <2>4. /\ Good(y) /\ G!KnownIn(y) = G!KnownIn(x) \ {s}
        /\ \A k \in y.let : k \in x.let \/ (G!HasRuntime(s) /\ entry[s] = k)
    BY <2>3, Detached
  <2>5. Spares(y)
    BY <2>3, <2>4, IdleIsSpared DEF Spares
  <2>6. Cardinality(G!KnownIn(x) \ {s}) = Cardinality(G!KnownIn(x)) - 1
    BY <1>1, <2>3, FS_RemoveElement
  <2> QED
    BY <1>1, <2>4, <2>5, <2>6
<1> QED
  BY <1>2, <1>3

\* A session without an entry gets one.
LEMMA CreatedGood ==
  ASSUME SessionsInv, NEW s \in Sessions \ G!Known, NEW x \in G!Created(s)
  PROVE  /\ Good(x) /\ Spares(x) /\ s \in G!KnownIn(x)
         /\ Cardinality(G!KnownIn(x)) <= MaxSessions
<1>1. Good(G!Index) /\ Spares(G!Index) /\ G!KnownIn(G!Index) = G!Known
  BY IndexGood
<1> DEFINE Roomy == IF G!Full THEN G!Reap(G!Index) ELSE {G!Index}
<1>2. PICK y \in Roomy : \E z \in G!Evict(y) :
        x = [z EXCEPT !.lru = <<s>> \o z.lru, !.entry[s] = G!Bare]
  <2> HIDE DEF Roomy
  <2>1. x \in {[z EXCEPT !.lru = <<s>> \o @, !.entry[s] = G!Bare] :
                z \in UNION {G!Evict(y) : y \in Roomy}}
    BY DEF G!Created, Roomy
  <2>2. PICK z \in UNION {G!Evict(y) : y \in Roomy} :
          x = [z EXCEPT !.lru = <<s>> \o z.lru, !.entry[s] = G!Bare]
    BY <2>1
  <2> QED
    BY <2>2
<1>3. PICK z \in G!Evict(y) : x = [z EXCEPT !.lru = <<s>> \o z.lru, !.entry[s] = G!Bare]
  BY <1>2
<1>4. Good(y) /\ Spares(y) /\ G!KnownIn(y) \subseteq G!Known
  <2>1. CASE G!Full
    BY <1>1, <1>2, <2>1, Reaped
  <2>2. CASE ~G!Full
    BY <1>1, <1>2, <2>2
  <2> QED
    BY <2>1, <2>2
<1>5. Cardinality(G!KnownIn(y)) <= MaxSessions
  <2>1. IsFiniteSet(G!Known) /\ Cardinality(G!Known) <= MaxSessions
    BY LibraryAgrees, <1>1, AtMostSoMany DEF SessionsInv, G!IndexAgrees
  <2>2. Cardinality(G!KnownIn(y)) <= Cardinality(G!Known)
    BY <1>4, <2>1, FS_Subset
  <2> QED
    BY <1>1, <2>1, <2>2, GatewayAssumption, AtMostSoMany
<1>6. /\ Good(z) /\ Spares(z) /\ G!KnownIn(z) \subseteq G!KnownIn(y)
      /\ Cardinality(G!KnownIn(z)) < MaxSessions
  BY <1>3, <1>4, <1>5, Evicted
<1>7. z \in IndexRecords /\ IsInjective(z.lru) /\ ToSet(z.lru) = G!KnownIn(z)
  BY <1>6 DEF Good, Agrees
<1>8. /\ x.lru = <<s>> \o z.lru /\ x.entry = [z.entry EXCEPT ![s] = G!Bare]
      /\ x.stalled = z.stalled /\ x.expired = z.expired /\ x.let = z.let
      /\ x = [lru |-> x.lru, entry |-> x.entry, stalled |-> x.stalled,
              expired |-> x.expired, let |-> x.let]
  BY <1>3, <1>7 DEF IndexRecords
<1>9. s \notin ToSet(z.lru) /\ s \notin G!KnownIn(z)
  BY <1>4, <1>6, <1>7
<1>10. /\ x.lru \in Seq(Sessions) /\ IsInjective(x.lru) /\ ToSet(x.lru) = ToSet(z.lru) \cup {s}
  BY <1>7, <1>8, <1>9, ToTheFront DEF IndexRecords
<1>11. x.entry \in [Sessions -> {Absent} \cup 0..Len(owner)]
  <2>1. G!Bare \in 0..Len(owner)
    BY DEF SessionsInv, RuntimeShapes, G!Bare
  <2> QED
    BY <1>7, <1>8, <2>1 DEF IndexRecords
<1>12. G!KnownIn(x) = G!KnownIn(z) \cup {s}
  <2>1. G!Bare # Absent
    BY GatewayAssumption DEF G!Bare
  <2> QED
    BY <1>7, <1>8, <2>1 DEF G!KnownIn, IndexRecords
<1>13. Agrees(x)
  <2>1. x \in IndexRecords
    BY <1>7, <1>8, <1>10, <1>11 DEF IndexRecords
  <2> QED
    BY <1>6, <1>7, <1>8, <1>10, <1>12, <2>1 DEF Good, Agrees
<1>14. Accounts(x)
  <2>1. ~G!HasRuntime(s)
    BY DEF G!HasRuntime
  <2>2. \A r \in Sessions : r # s => x.entry[r] = z.entry[r]
    BY <1>7, <1>8 DEF IndexRecords
  <2>3. x.entry[s] = G!Bare
    BY <1>7, <1>8 DEF IndexRecords
  <2> QED
    BY <1>6, <1>8, <2>1, <2>2, <2>3 DEF Good, Accounts
<1>15. Cardinality(G!KnownIn(x)) <= MaxSessions
  <2>1. Cardinality(G!KnownIn(z) \cup {s}) = Cardinality(G!KnownIn(z)) + 1
    BY <1>9, AtMostSoMany, FS_AddElement
  <2> QED
    BY <1>6, <1>12, <2>1, GatewayAssumption, AtMostSoMany
<1>16. Spares(x)
  BY <1>6, <1>8 DEF Spares
<1> QED
  BY <1>12, <1>13, <1>14, <1>15, <1>16 DEF Good

\* A session with an entry moves to the front of the list.
LEMMA TouchedGood ==
  ASSUME SessionsInv, NEW s \in G!Known
  PROVE  LET x == G!Touched(G!Index, s)
         IN  /\ Good(x) /\ Spares(x) /\ s \in G!KnownIn(x)
             /\ Cardinality(G!KnownIn(x)) <= MaxSessions
<1> DEFINE x == G!Touched(G!Index, s)
<1>1. Good(G!Index) /\ Spares(G!Index) /\ G!KnownIn(G!Index) = G!Known
  BY IndexGood
<1>2. s \in Sessions /\ lru \in Seq(Sessions) /\ IsInjective(lru) /\ ToSet(lru) = G!Known
  BY LibraryAgrees DEF SessionsInv, IndexShapes, G!IndexAgrees, G!Known
<1>3. /\ x.lru = <<s>> \o G!Without(lru, s) /\ x.entry = entry /\ x.stalled = stalled
      /\ x.expired = expired \ {s} /\ x.let = {}
      /\ x = [lru |-> x.lru, entry |-> x.entry, stalled |-> x.stalled,
              expired |-> x.expired, let |-> x.let]
  <2>1. x = [G!Index EXCEPT !.lru = <<s>> \o G!Without(G!Index.lru, s),
                         !.expired = G!Index.expired \ {s}]
    BY DEF G!Touched
  <2> DEFINE moved == <<s>> \o G!Without(lru, s)
             fresh == expired \ {s}
  <2> HIDE DEF moved, fresh
  <2>2. x = [G!Index EXCEPT !.lru = moved, !.expired = fresh]
    BY <2>1 DEF G!Index, moved, fresh
  <2> HIDE DEF x
  <2>3. /\ x.lru = moved /\ x.entry = entry /\ x.stalled = stalled
        /\ x.expired = fresh /\ x.let = {}
        /\ x = [lru |-> x.lru, entry |-> x.entry, stalled |-> x.stalled,
                expired |-> x.expired, let |-> x.let]
    BY <2>2 DEF G!Index
  <2> QED
    BY <2>3 DEF moved, fresh
<1> HIDE DEF x
<1>4. /\ G!Without(lru, s) \in Seq(Sessions) /\ IsInjective(G!Without(lru, s))
      /\ ToSet(G!Without(lru, s)) = G!Known \ {s}
  BY <1>2, TakenOut
<1>5. x.lru \in Seq(Sessions) /\ IsInjective(x.lru) /\ ToSet(x.lru) = G!Known
  <2> DEFINE rest == G!Without(lru, s)
  <2>1. /\ rest \in Seq(Sessions) /\ IsInjective(rest) /\ ToSet(rest) = G!Known \ {s}
        /\ x.lru = <<s>> \o rest
    BY <1>3, <1>4
  <2> HIDE DEF rest
  <2>2. /\ x.lru \in Seq(Sessions) /\ IsInjective(x.lru)
        /\ ToSet(x.lru) = ToSet(rest) \cup {s}
    BY <1>2, <2>1, ToTheFront
  <2> QED
    BY <2>1, <2>2
<1>6. G!KnownIn(x) = G!Known
  BY <1>3 DEF G!KnownIn, G!Known
<1>7. Agrees(x)
  BY <1>3, <1>5, <1>6 DEF SessionsInv, IndexShapes, Agrees, IndexRecords, G!Known
<1>8. Accounts(x) /\ Spares(x)
  BY <1>3 DEF Accounts, Spares
<1> QED
  BY LibraryAgrees, <1>6, <1>7, <1>8 DEF SessionsInv, G!IndexAgrees, Good, x

LEMMA Entered ==
  ASSUME SessionsInv, NEW s \in Sessions, NEW x \in G!Enter(s)
  PROVE  /\ Good(x) /\ Spares(x) /\ s \in G!KnownIn(x)
         /\ Cardinality(G!KnownIn(x)) <= MaxSessions
<1>1. CASE s \in G!Known
  BY <1>1, TouchedGood DEF G!Enter
<1>2. CASE s \notin G!Known
  BY <1>2, CreatedGood DEF G!Enter
<1> QED
  BY <1>1, <1>2

\* Who holds a runtime that was built before: its entry, unless it was let go of.
LEMMA Holders ==
  ASSUME SessionsInv, NEW x, Good(x), NEW k \in G!Built
  PROVE  x.entry[owner[k]] = k <=> k \notin x.let /\ entry[owner[k]] = k
<1>1. /\ owner[k] \in Sessions /\ k \notin {Absent, G!Bare}
      /\ x.entry[owner[k]] \in {Absent, G!Bare} \/ x.entry[owner[k]] = entry[owner[k]]
      /\ k \in x.let <=> \E s \in Sessions : G!HasRuntime(s) /\ entry[s] = k /\ x.entry[s] # k
  <2>1. owner[k] \in Sessions
    BY DEF SessionsInv, RuntimeShapes, G!Built
  <2>2. k \in Nat /\ k # 0
    BY DEF SessionsInv, RuntimeShapes, G!Built
  <2>3. k \notin {Absent, G!Bare}
    BY <2>2, GatewayAssumption DEF G!Bare
  <2> QED
    BY <2>1, <2>3 DEF Good, Accounts
<1>2. ASSUME x.entry[owner[k]] = k PROVE k \notin x.let
  <2> SUFFICES ASSUME NEW s \in Sessions, G!HasRuntime(s), entry[s] = k, x.entry[s] # k
               PROVE  FALSE
    BY <1>1
  <2>1. owner[k] = s
    BY DEF SessionsInv, Owned
  <2> QED
    BY <1>2, <2>1
<1>3. ASSUME k \notin x.let, entry[owner[k]] = k PROVE x.entry[owner[k]] = k
  <2>1. G!HasRuntime(owner[k])
    BY <1>1, <1>3 DEF G!HasRuntime, G!Known
  <2> QED
    BY <1>1, <1>3, <2>1
<1> QED
  BY <1>1, <1>2, <1>3

-----------------------------------------------------------------------------
(* What the parts of a step leave true.                                    *)

\* The runtimes after those of "let" have gone, n of them built by then.
LEMMA LetGoRuntimes ==
  ASSUME SessionsInv, NEW let \in SUBSET G!Built, NEW n \in Nat, Len(owner) <= n, G!LetGo(let, n)
  PROVE  /\ phase' \in [1..n -> {"open", "cancelled", "closing", "closed"}]
         /\ parked' \in [1..n -> SUBSET (1..prompts)]
         /\ popped' \in [1..n -> 0..prompts] /\ active' \in [1..n -> 0..prompts]
         /\ cut' \subseteq 1..prompts
         /\ \A k \in 1..n : popped'[k] = G!Nobody \/ active'[k] = G!Nobody
         /\ \A k \in 1..n : k \notin G!Built =>
              phase'[k] = "open" /\ G!Pending(k)' = {}
         /\ \A k \in G!Built :
              /\ phase'[k] = IF k \in let THEN "cancelled" ELSE phase[k]
              /\ G!Pending(k)' \subseteq G!Pending(k)
         /\ cut' = cut \cup ({active'[k] : k \in let} \ {G!Nobody})
<1>1. PICK late \in SUBSET {k \in let : popped[k] # G!Nobody} :
    /\ phase' = [k \in 1..n |-> IF k \notin G!Built THEN "open"
                                ELSE IF k \in let THEN "cancelled" ELSE phase[k]]
    /\ parked' = [k \in 1..n |-> IF k \in G!Built \ let THEN parked[k] ELSE {}]
    /\ popped' = [k \in 1..n |-> IF k \in G!Built \ late THEN popped[k] ELSE G!Nobody]
    /\ active' = [k \in 1..n |-> IF k \in late THEN popped[k]
                                 ELSE IF k \in G!Built THEN active[k] ELSE G!Nobody]
    /\ cut' = cut \cup ({active'[k] : k \in let} \ {G!Nobody})
  BY DEF G!LetGo
<1>2. /\ Len(owner) \in Nat /\ prompts \in Nat /\ cut \subseteq 1..prompts
      /\ phase \in [G!Built -> {"open", "cancelled", "closing", "closed"}]
      /\ parked \in [G!Built -> SUBSET (1..prompts)]
      /\ popped \in [G!Built -> 0..prompts] /\ active \in [G!Built -> 0..prompts]
      /\ \A k \in G!Built : popped[k] = G!Nobody \/ active[k] = G!Nobody
  BY DEF SessionsInv, RuntimeShapes, OneAtATime
<1>3. G!Nobody = 0 /\ G!Nobody \in 0..prompts
  BY <1>2 DEF G!Nobody
<1>4. \A k \in G!Built : k \in 1..n
  BY <1>2 DEF G!Built
<1>5. phase' \in [1..n -> {"open", "cancelled", "closing", "closed"}]
  BY <1>1, <1>2
<1>6. parked' \in [1..n -> SUBSET (1..prompts)]
  BY <1>1, <1>2
<1>7. popped' \in [1..n -> 0..prompts] /\ active' \in [1..n -> 0..prompts]
  BY <1>1, <1>2, <1>3
<1>8. cut' \subseteq 1..prompts
  <2>1. \A k \in let : active'[k] \in 0..prompts
    BY <1>4, <1>7
  <2>2. \A a \in 0..prompts : a = G!Nobody \/ a \in 1..prompts
    BY <1>2, <1>3
  <2> QED
    BY <1>1, <1>2, <2>1, <2>2
<1>9. \A k \in 1..n : popped'[k] = G!Nobody \/ active'[k] = G!Nobody
  BY <1>1, <1>2
<1>10. \A k \in 1..n : k \notin G!Built => phase'[k] = "open" /\ G!Pending(k)' = {}
  BY <1>1 DEF G!Pending
<1>11. ASSUME NEW k \in G!Built
       PROVE  /\ phase'[k] = IF k \in let THEN "cancelled" ELSE phase[k]
              /\ G!Pending(k)' \subseteq G!Pending(k)
  <2>1. k \in 1..n
    BY <1>4
  <2>2. parked'[k] \subseteq parked[k] /\ popped'[k] \in {popped[k], G!Nobody}
    BY <1>1, <2>1
  <2>3. active'[k] \in {active[k], popped[k]}
    BY <1>1, <2>1
  <2>4. phase'[k] = IF k \in let THEN "cancelled" ELSE phase[k]
    BY <1>1, <2>1
  <2> QED
    BY <2>2, <2>3, <2>4 DEF G!Pending
<1> QED
  BY <1>1, <1>5, <1>6, <1>7, <1>8, <1>9, <1>10, <1>11

\* The index becomes x and the runtimes it let go of go.
LEMMA AbortKeeps ==
  ASSUME SessionsInv, NEW x, Good(x), Cardinality(G!KnownIn(x)) <= MaxSessions,
         G!Becomes(x), G!Abort(x.let), UNCHANGED prompts,
         held' \in [Clients -> {G!Idle} \cup Requests], interrupted' \subseteq 1..prompts
  PROVE  SessionsInv'
<1>1. /\ owner' = owner /\ G!Built' = G!Built /\ Len(owner) \in Nat /\ G!Built = 1..Len(owner)
      /\ x.let \in SUBSET G!Built
  BY DEF G!Abort, SessionsInv, RuntimeShapes, G!Built, Good, Agrees, IndexRecords
<1>2. lru' = x.lru /\ entry' = x.entry /\ stalled' = x.stalled /\ expired' = x.expired
  BY DEF G!Becomes
<1>3. G!LetGo(x.let, Len(owner))
  BY DEF G!Abort
<1>4. /\ phase' \in [G!Built -> {"open", "cancelled", "closing", "closed"}]
      /\ parked' \in [G!Built -> SUBSET (1..prompts)]
      /\ popped' \in [G!Built -> 0..prompts] /\ active' \in [G!Built -> 0..prompts]
      /\ cut' \subseteq 1..prompts
      /\ \A k \in G!Built : popped'[k] = G!Nobody \/ active'[k] = G!Nobody
      /\ \A k \in G!Built :
           /\ phase'[k] = IF k \in x.let THEN "cancelled" ELSE phase[k]
           /\ G!Pending(k)' \subseteq G!Pending(k)
  <2>1. PICK n \in Nat : n = Len(owner)
    BY <1>1
  <2>2. G!LetGo(x.let, n) /\ Len(owner) <= n /\ G!Built = 1..n
    BY <1>1, <1>3, <2>1
  <2> QED
    BY <1>1, <2>2, LetGoRuntimes
<1>5. IndexShapes' /\ G!IndexAgrees'
  <2>1. G!Known' = G!KnownIn(x)
    BY <1>2 DEF G!Known, G!KnownIn
  <2> QED
    BY LibraryAgrees, <1>1, <1>2, <2>1 DEF Good, Agrees, IndexRecords, IndexShapes, G!IndexAgrees
<1>6. RuntimeShapes'
  BY <1>1, <1>4 DEF SessionsInv, RuntimeShapes
<1>7. Holding'
  BY <1>1 DEF Holding, Requests
<1>8. Owned'
  <2>1. \A s \in Sessions : x.entry[s] \in {Absent, G!Bare} \/ x.entry[s] = entry[s]
    BY DEF Good, Accounts
  <2> QED
    BY <1>1, <1>2, <2>1 DEF SessionsInv, Owned, G!HasRuntime, G!Known
<1>9. G!OpenMeansOwned'
  <2> SUFFICES ASSUME NEW k \in G!Built PROVE phase'[k] = "open" <=> x.entry[owner[k]] = k
    BY <1>1, <1>2 DEF G!OpenMeansOwned
  <2>1. phase[k] = "open" <=> entry[owner[k]] = k
    BY DEF SessionsInv, G!OpenMeansOwned
  <2> QED
    BY <1>4, <2>1, Holders
<1>10. OneAtATime' /\ Apart'
  BY <1>1, <1>4 DEF SessionsInv, OneAtATime, Apart
<1> QED
  BY <1>5, <1>6, <1>7, <1>8, <1>9, <1>10 DEF SessionsInv

\* A session gets a new runtime while others go.
LEMMA AttachKeeps ==
  ASSUME SessionsInv, NEW x, Good(x), Cardinality(G!KnownIn(x)) <= MaxSessions,
         NEW s \in Sessions, x.entry[s] = G!Bare, G!Attach(x, s),
         UNCHANGED <<prompts, interrupted>>,
         held' \in [Clients -> {G!Idle}
                           \cup [op : {"prompt", "steer"}, runtime : 1..Len(owner) + 1]]
  PROVE  SessionsInv'
<1>1. PICK n \in Nat : n = Len(owner) + 1
  BY DEF SessionsInv, RuntimeShapes
<1>2. /\ Len(owner) \in Nat /\ n \in Nat /\ Len(owner) <= n /\ n <= MaxRuntimes
      /\ G!Built = 1..Len(owner) /\ n \notin G!Built /\ 1..n = G!Built \cup {n}
      /\ x.let \in SUBSET G!Built /\ G!Bare # Absent /\ n # G!Bare /\ n # Absent
  <2>1. n # Absent
    BY GatewayAssumption
  <2> QED
    BY <1>1, <2>1, GatewayAssumption
    DEF SessionsInv, RuntimeShapes, G!Built, Good, Agrees, IndexRecords, G!Bare, G!Attach
<1>3. /\ owner' = Append(owner, s) /\ owner' \in Seq(Sessions) /\ Len(owner') = n
      /\ G!Built' = 1..n /\ owner'[n] = s /\ \A k \in G!Built : owner'[k] = owner[k]
  BY <1>1 DEF G!Attach, SessionsInv, RuntimeShapes, G!Built
<1>4. /\ x.entry \in [Sessions -> {Absent} \cup 0..Len(owner)]
      /\ lru' = x.lru /\ entry' = [x.entry EXCEPT ![s] = n]
      /\ stalled' = x.stalled /\ expired' = x.expired
  <2> DEFINE e == [x.entry EXCEPT ![s] = n]
  <2> HIDE DEF e
  <2>1. x \in IndexRecords
    BY DEF Good, Agrees
  <2>2. G!Becomes([x EXCEPT !.entry = e])
    BY <1>1 DEF G!Attach, e
  <2>3. /\ [x EXCEPT !.entry = e].lru = x.lru /\ [x EXCEPT !.entry = e].entry = e
        /\ [x EXCEPT !.entry = e].stalled = x.stalled
        /\ [x EXCEPT !.entry = e].expired = x.expired
    BY <2>1 DEF IndexRecords
  <2> QED
    BY <2>1, <2>2, <2>3 DEF G!Becomes, IndexRecords, e
<1>5. G!LetGo(x.let, n)
  BY <1>1 DEF G!Attach
<1>6. /\ phase' \in [1..n -> {"open", "cancelled", "closing", "closed"}]
      /\ parked' \in [1..n -> SUBSET (1..prompts)]
      /\ popped' \in [1..n -> 0..prompts] /\ active' \in [1..n -> 0..prompts]
      /\ cut' \subseteq 1..prompts
      /\ \A k \in 1..n : popped'[k] = G!Nobody \/ active'[k] = G!Nobody
      /\ phase'[n] = "open" /\ G!Pending(n)' = {}
      /\ \A k \in G!Built :
           /\ phase'[k] = IF k \in x.let THEN "cancelled" ELSE phase[k]
           /\ G!Pending(k)' \subseteq G!Pending(k)
  BY <1>2, <1>5, LetGoRuntimes
<1>7. \A r \in Sessions : entry'[r] = IF r = s THEN n ELSE x.entry[r]
  BY <1>4
<1>8. IndexShapes' /\ G!IndexAgrees'
  <2>1. G!Known' = G!KnownIn(x)
    BY <1>2, <1>7 DEF G!Known, G!KnownIn
  <2>2. entry' \in [Sessions -> {Absent} \cup 0..n]
    <3>1. \A r \in Sessions : entry'[r] \in {Absent} \cup 0..n
      <4>1. \A m \in 0..Len(owner) : m \in 0..n
        BY <1>2
      <4> QED
        BY <1>2, <1>4, <1>7, <4>1
    <3> QED
      BY <1>4, <3>1
  <2> QED
    BY LibraryAgrees, <1>3, <1>4, <2>1, <2>2
       DEF Good, Agrees, IndexRecords, IndexShapes, G!IndexAgrees
<1>9. RuntimeShapes'
  BY <1>2, <1>3, <1>6 DEF SessionsInv, RuntimeShapes
<1>10. Holding'
  BY <1>3, <1>1 DEF Holding, Requests
<1>11. Owned'
  <2> SUFFICES ASSUME NEW r \in Sessions, G!HasRuntime(r)' PROVE owner'[entry'[r]] = r
    BY DEF Owned
  <2>1. CASE r = s
    BY <1>3, <1>7, <2>1
  <2>2. CASE r # s
    <3>1. entry'[r] = x.entry[r] /\ x.entry[r] \notin {Absent, G!Bare}
      BY <1>7, <2>2 DEF G!HasRuntime, G!Known
    <3>2. x.entry[r] = entry[r] /\ G!HasRuntime(r)
      BY <3>1 DEF Good, Accounts, G!HasRuntime, G!Known
    <3>3. entry[r] \in G!Built
      BY <1>2, <3>1, <3>2 DEF SessionsInv, IndexShapes, G!Bare
    <3> QED
      BY <1>3, <3>1, <3>2, <3>3 DEF SessionsInv, Owned
  <2> QED
    BY <2>1, <2>2
<1>12. G!OpenMeansOwned'
  <2>1. phase'[n] = "open" /\ entry'[owner'[n]] = n
    BY <1>3, <1>6, <1>7
  <2>2. ASSUME NEW k \in G!Built PROVE phase'[k] = "open" <=> entry'[owner'[k]] = k
    <3>1. phase[k] = "open" <=> entry[owner[k]] = k
      BY DEF SessionsInv, G!OpenMeansOwned
    <3>2. phase'[k] = "open" <=> x.entry[owner[k]] = k
      BY <1>6, <3>1, Holders
    <3>3. owner[k] \in Sessions /\ owner'[k] = owner[k] /\ k # n /\ k # G!Bare
      BY <1>2, <1>3 DEF SessionsInv, RuntimeShapes, G!Bare
    <3> QED
      BY <1>7, <3>2, <3>3
  <2> QED
    BY <1>2, <1>3, <2>1, <2>2 DEF G!OpenMeansOwned
<1>13. OneAtATime' /\ Apart'
  <2>1. OneAtATime'
    BY <1>3, <1>6 DEF OneAtATime
  <2>2. ASSUME NEW k \in 1..n, NEW l \in 1..n, k # l
        PROVE  G!Pending(k)' \cap G!Pending(l)' = {}
    <3>1. CASE k = n \/ l = n
      <4>1. CASE k = n
        BY <1>6, <4>1
      <4>2. CASE l = n
        BY <1>6, <4>2
      <4> QED
        BY <3>1, <4>1, <4>2
    <3>2. CASE k \in G!Built /\ l \in G!Built
      BY <1>6, <2>2, <3>2 DEF SessionsInv, Apart
    <3> QED
      BY <1>2, <3>1, <3>2
  <2> QED
    BY <1>3, <2>1, <2>2 DEF Apart
<1> QED
  BY <1>8, <1>9, <1>10, <1>11, <1>12, <1>13 DEF SessionsInv

\* A step of the loops that leaves the index and who built what alone.
LEMMA IndexStays ==
  ASSUME SessionsInv, UNCHANGED <<lru, entry, owner>>,
         stalled' \subseteq G!Known, expired' \subseteq G!Known,
         \A k \in G!Built : phase'[k] = "open" <=> phase[k] = "open"
  PROVE  IndexShapes' /\ G!IndexAgrees' /\ Owned' /\ G!OpenMeansOwned'
BY DEF SessionsInv, IndexShapes, G!IndexAgrees, Owned, G!OpenMeansOwned, G!HasRuntime, G!Known,
       G!Built

\* A step that moves what is pending within the loops, or drops it.
LEMMA LoopsStay ==
  ASSUME SessionsInv, UNCHANGED owner,
         \A k \in G!Built : G!Pending(k)' \subseteq G!Pending(k),
         \A k \in G!Built : popped'[k] = G!Nobody \/ active'[k] = G!Nobody
  PROVE  OneAtATime' /\ Apart'
<1>1. G!Built' = G!Built
  BY DEF G!Built
<1> QED
  BY <1>1 DEF SessionsInv, OneAtATime, Apart

-----------------------------------------------------------------------------
(* Every step preserves the invariant.                                     *)

LEMMA GetOrCreateEntryKeeps ==
  ASSUME SessionsInv, NEW c \in Clients, NEW s \in Sessions, G!GetOrCreateEntry(c, s)
  PROVE  SessionsInv'
<1>1. /\ UNCHANGED <<prompts, interrupted>> /\ interrupted \subseteq 1..prompts
      /\ Len(owner) \in Nat /\ G!Built = 1..Len(owner) /\ G!Bare = 0
      /\ held \in [Clients -> {G!Idle} \cup Requests]
  BY DEF G!GetOrCreateEntry, SessionsInv, RuntimeShapes, Holding, G!Built, G!Bare
<1>2. PICK x \in G!Enter(s) :
       \/ /\ x.entry[s] # G!Bare
          /\ G!Becomes(x) /\ G!Abort(x.let)
          /\ held' = [held EXCEPT ![c] = [op |-> "prompt", runtime |-> x.entry[s]]]
       \/ /\ x.entry[s] = G!Bare
          /\ G!Attach(x, s)
          /\ held' = [held EXCEPT ![c] = [op |-> "prompt", runtime |-> Len(owner) + 1]]
       \/ x.entry[s] = G!Bare /\ G!AttachFails(x, s) /\ UNCHANGED held
  BY DEF G!GetOrCreateEntry
<1>3. Good(x) /\ s \in G!KnownIn(x) /\ Cardinality(G!KnownIn(x)) <= MaxSessions
  BY Entered
<1>4. CASE /\ x.entry[s] # G!Bare /\ G!Becomes(x) /\ G!Abort(x.let)
           /\ held' = [held EXCEPT ![c] = [op |-> "prompt", runtime |-> x.entry[s]]]
  <2>1. x.entry[s] \in G!Built
    BY <1>1, <1>3, <1>4 DEF Good, Agrees, IndexRecords, G!KnownIn
  <2>2. held' \in [Clients -> {G!Idle} \cup Requests]
    BY <1>1, <1>4, <2>1 DEF Requests
  <2> QED
    BY <1>1, <1>3, <1>4, <2>2, AbortKeeps
<1>5. CASE /\ x.entry[s] = G!Bare /\ G!Attach(x, s)
           /\ held' = [held EXCEPT ![c] = [op |-> "prompt", runtime |-> Len(owner) + 1]]
  <2>1. Len(owner) + 1 \in 1..Len(owner) + 1 /\ G!Built \subseteq 1..Len(owner) + 1
    BY <1>1
  <2>2. held' \in [Clients -> {G!Idle} \cup [op : {"prompt", "steer"},
                                           runtime : 1..Len(owner) + 1]]
    BY <1>1, <1>5, <2>1 DEF Requests
  <2> QED
    BY <1>1, <1>3, <1>5, <2>2, AttachKeeps
<1>6. CASE x.entry[s] = G!Bare /\ G!AttachFails(x, s) /\ UNCHANGED held
  <2> DEFINE y == G!Detach(x, s)
  <2>1. Good(y) /\ G!KnownIn(y) = G!KnownIn(x) \ {s}
    BY <1>3, Detached
  <2>2. G!Becomes(y) /\ G!Abort(y.let)
    BY <1>6 DEF G!AttachFails, G!Detach, G!Drop
  <2>3. Cardinality(G!KnownIn(x) \ {s}) = Cardinality(G!KnownIn(x)) - 1
    BY <1>3, AtMostSoMany, FS_RemoveElement
  <2> HIDE DEF y
  <2>4. Cardinality(G!KnownIn(y)) <= MaxSessions
    BY <1>3, <2>1, <2>3, GatewayAssumption, AtMostSoMany
  <2> QED
    BY <1>1, <1>6, <2>1, <2>2, <2>4, AbortKeeps
<1> QED
  BY <1>2, <1>4, <1>5, <1>6

LEMMA SubscribeKeeps ==
  ASSUME SessionsInv, NEW s \in Sessions, G!Subscribe(s)
  PROVE  SessionsInv'
<1>1. PICK x \in G!Enter(s) : G!Becomes(x) /\ G!Abort(x.let)
  BY DEF G!Subscribe
<1>2. Good(x) /\ Cardinality(G!KnownIn(x)) <= MaxSessions
  BY Entered
<1>3. UNCHANGED <<held, prompts, interrupted>>
  BY DEF G!Subscribe
<1> QED
  BY <1>1, <1>2, <1>3, AbortKeeps DEF SessionsInv, Holding, RuntimeShapes

LEMMA EnsureEntryKeeps ==
  ASSUME SessionsInv, NEW c \in Clients, NEW s \in Sessions, G!EnsureEntry(c, s)
  PROVE  SessionsInv'
<1>1. PICK x \in G!Enter(s) :
        /\ G!Becomes(x) /\ G!Abort(x.let)
        /\ IF x.entry[s] = G!Bare THEN UNCHANGED held
           ELSE held' = [held EXCEPT ![c] = [op |-> "steer", runtime |-> x.entry[s]]]
  BY DEF G!EnsureEntry
<1>2. Good(x) /\ s \in G!KnownIn(x) /\ Cardinality(G!KnownIn(x)) <= MaxSessions
  BY Entered
<1>3. UNCHANGED <<prompts, interrupted>>
  BY DEF G!EnsureEntry
<1>4. held' \in [Clients -> {G!Idle} \cup Requests]
  <2>1. CASE x.entry[s] = G!Bare
    BY <1>1, <2>1 DEF SessionsInv, Holding
  <2>2. CASE x.entry[s] # G!Bare
    <3>1. x.entry[s] \in G!Built
      BY <1>2, <2>2
         DEF Good, Agrees, IndexRecords, G!KnownIn, G!Bare, SessionsInv, RuntimeShapes, G!Built
    <3> QED
      BY <1>1, <2>2, <3>1 DEF SessionsInv, Holding, Requests
  <2> QED
    BY <2>1, <2>2
<1> QED
  BY <1>1, <1>2, <1>3, <1>4, AbortKeeps DEF SessionsInv, RuntimeShapes

LEMMA RemoveSessionKeeps ==
  ASSUME SessionsInv, NEW s \in Sessions, G!RemoveSession(s)
  PROVE  SessionsInv'
<1>1. PICK y : y = G!Detach(G!Index, s)
  OBVIOUS
<1>2. Good(y) /\ G!KnownIn(y) = G!Known \ {s} /\ G!Becomes(y) /\ G!Abort(y.let)
  BY <1>1, IndexGood, Detached DEF G!RemoveSession
<1>3. Cardinality(G!KnownIn(y)) <= MaxSessions
  <2>1. IsFiniteSet(G!Known) /\ Cardinality(G!Known) <= MaxSessions
    BY LibraryAgrees, IndexGood, AtMostSoMany DEF SessionsInv, G!IndexAgrees
  <2>2. Cardinality(G!KnownIn(y)) <= Cardinality(G!Known)
    BY <1>2, <2>1, FS_Subset
  <2>3. Cardinality(G!Known) \in Nat /\ Cardinality(G!KnownIn(y)) \in Nat /\ MaxSessions \in Nat
    BY <2>1, FS_CardinalityType, GatewayAssumption, AtMostSoMany
  <2> QED
    BY <2>1, <2>2, <2>3
<1>4. interrupted' \subseteq 1..prompts
  <2>1. G!HasRuntime(s) => entry[s] \in G!Built
    BY DEF SessionsInv, IndexShapes, RuntimeShapes, G!HasRuntime, G!Known, G!Built, G!Bare
  <2>2. \A k \in G!Built : G!Pending(k) \subseteq 1..prompts
    BY DEF SessionsInv, RuntimeShapes, G!Pending, G!Nobody
  <2> QED
    BY <2>1, <2>2 DEF G!RemoveSession, SessionsInv, RuntimeShapes
<1> QED
  BY <1>2, <1>3, <1>4, AbortKeeps DEF G!RemoveSession, SessionsInv, Holding

LEMMA AdmitKeeps ==
  ASSUME SessionsInv, NEW c \in Clients, G!Admit(c)
  PROVE  SessionsInv'
<1>1. PICK k \in G!Built, p \in Nat : k = held[c].runtime /\ p = prompts + 1
  BY DEF G!Admit, SessionsInv, Holding, Requests, RuntimeShapes
<1>2. /\ UNCHANGED <<lru, entry, stalled, expired, owner, phase, popped, active>>
      /\ held' = [held EXCEPT ![c] = G!Idle]
  BY DEF G!Admit, G!index, G!runtimes
<1>3. G!Built' = G!Built /\ Holding'
  BY <1>2 DEF G!Built, SessionsInv, Holding, Requests
<1>4. IndexShapes' /\ G!IndexAgrees' /\ Owned' /\ G!OpenMeansOwned'
  BY <1>2, IndexStays DEF SessionsInv, IndexShapes
<1>5. CASE UNCHANGED <<G!runtimes, prompts, interrupted>>
  BY <1>3, <1>4, <1>5 DEF G!runtimes, SessionsInv, RuntimeShapes, OneAtATime, Apart, G!Pending
<1>6. CASE /\ p <= MaxPrompts /\ prompts' = p
           /\ parked' = [parked EXCEPT ![k] = @ \cup {p}]
           /\ cut' \subseteq cut \cup ({active[k]} \ {G!Nobody})
           /\ interrupted' \subseteq interrupted \cup ({active[k]} \ {G!Nobody})
  <2>1. /\ prompts \in Nat /\ p \in 1..p /\ p \notin 1..prompts /\ 1..prompts \subseteq 1..p
        /\ 0..prompts \subseteq 0..p /\ p \in 0..MaxPrompts /\ G!Nobody = 0
    BY <1>1, <1>6, GatewayAssumption DEF SessionsInv, RuntimeShapes, G!Nobody
  <2>2. /\ phase \in [G!Built -> {"open", "cancelled", "closing", "closed"}]
        /\ parked \in [G!Built -> SUBSET (1..prompts)]
        /\ popped \in [G!Built -> 0..prompts] /\ active \in [G!Built -> 0..prompts]
        /\ cut \subseteq 1..prompts /\ interrupted \subseteq 1..prompts
        /\ owner \in Seq(Sessions) /\ Len(owner) <= MaxRuntimes
    BY DEF SessionsInv, RuntimeShapes
  <2>3. parked' \in [G!Built -> SUBSET (1..p)]
    BY <1>6, <2>1, <2>2
  <2>4. popped \in [G!Built -> 0..p] /\ active \in [G!Built -> 0..p]
    BY <2>1, <2>2
  <2>5. active[k] \in 0..prompts /\ {active[k]} \ {G!Nobody} \subseteq 1..p
    BY <2>1, <2>2
  <2>6. RuntimeShapes'
    BY <1>2, <1>3, <1>6, <2>1, <2>2, <2>3, <2>4, <2>5 DEF RuntimeShapes
  <2>7. OneAtATime'
    BY <1>2, <1>3 DEF SessionsInv, OneAtATime
  <2>8. \A l \in G!Built : G!Pending(l) \subseteq 1..prompts
    BY <2>1, <2>2 DEF G!Pending
  <2>9. ASSUME NEW l \in G!Built
        PROVE  G!Pending(l)' = G!Pending(l) \cup (IF l = k THEN {p} ELSE {})
    BY <1>2, <1>6, <2>2 DEF G!Pending
  <2>10. ASSUME NEW l \in G!Built, NEW m \in G!Built, l # m
         PROVE  G!Pending(l)' \cap G!Pending(m)' = {}
    <3>1. G!Pending(l) \cap G!Pending(m) = {} /\ p \notin G!Pending(l) /\ p \notin G!Pending(m)
      BY <2>1, <2>8, <2>10 DEF SessionsInv, Apart
    <3>2. /\ G!Pending(l)' = G!Pending(l) \cup (IF l = k THEN {p} ELSE {})
          /\ G!Pending(m)' = G!Pending(m) \cup (IF m = k THEN {p} ELSE {})
      BY <2>9
    <3> QED
      BY <2>10, <3>1, <3>2
  <2>11. Apart'
    BY <1>3, <2>10 DEF Apart
  <2> QED
    BY <1>3, <1>4, <2>6, <2>7, <2>11 DEF SessionsInv
<1>7. UNCHANGED <<G!runtimes, prompts, interrupted>> \/
      (/\ p <= MaxPrompts /\ prompts' = p
       /\ parked' = [parked EXCEPT ![k] = @ \cup {p}]
       /\ cut' \subseteq cut \cup ({active[k]} \ {G!Nobody})
       /\ interrupted' \subseteq interrupted \cup ({active[k]} \ {G!Nobody}))
  <2>1. CASE phase[k] \in {"closing", "closed"}
    BY <1>1, <2>1 DEF G!Admit
  <2>2. CASE phase[k] \notin {"closing", "closed"}
    <3>1. prompts < MaxPrompts => p <= MaxPrompts
      BY <1>1, GatewayAssumption DEF SessionsInv, RuntimeShapes
    <3> QED
      BY <1>1, <2>2, <3>1 DEF G!Admit
  <2> QED
    BY <2>1, <2>2
<1> QED
  BY <1>5, <1>6, <1>7

LEMMA StopKeeps ==
  ASSUME SessionsInv, NEW s \in Sessions, G!Stop(s)
  PROVE  SessionsInv'
<1>1. PICK k \in G!Built : k = entry[s] /\ active[k] # G!Nobody /\ s \in G!Known
  BY DEF G!Stop, G!Runs, G!HasRuntime, G!Known, SessionsInv, IndexShapes, RuntimeShapes, G!Built,
         G!Bare
<1>2. /\ UNCHANGED <<lru, entry, expired, owner, phase, popped, active, held, prompts>>
      /\ parked' = [parked EXCEPT ![k] = {}] /\ cut' = cut \cup {active[k]}
      /\ stalled' \subseteq G!Known /\ interrupted' = interrupted \cup G!Pending(k)
  BY <1>1 DEF G!Stop, SessionsInv, IndexShapes
<1>3. G!Built' = G!Built
  BY <1>2 DEF G!Built
<1>4. IndexShapes' /\ G!IndexAgrees' /\ Owned' /\ G!OpenMeansOwned'
  BY <1>2, IndexStays DEF SessionsInv, IndexShapes
<1>5. G!Pending(k) \subseteq 1..prompts /\ active[k] \in 1..prompts
  BY <1>1 DEF SessionsInv, RuntimeShapes, G!Pending, G!Nobody
<1>6. RuntimeShapes' /\ Holding'
  BY <1>2, <1>3, <1>5 DEF SessionsInv, RuntimeShapes, Holding, Requests
<1>7. OneAtATime' /\ Apart'
  <2>1. \A l \in G!Built : G!Pending(l)' \subseteq G!Pending(l)
    BY <1>2 DEF G!Pending, SessionsInv, RuntimeShapes
  <2> QED
    BY <1>2, <2>1, LoopsStay DEF SessionsInv, OneAtATime
<1> QED
  BY <1>4, <1>6, <1>7 DEF SessionsInv

\* Steps of the marks alone.
LEMMA MarksKeep ==
  ASSUME SessionsInv, UNCHANGED <<lru, entry, G!runtimes, held, prompts, interrupted>>,
         stalled' \subseteq G!Known, expired' \subseteq G!Known
  PROVE  SessionsInv'
<1>1. UNCHANGED <<owner, phase, parked, popped, active, cut>> /\ G!Built' = G!Built
  BY DEF G!runtimes, G!Built
<1>2. IndexShapes' /\ G!IndexAgrees' /\ Owned' /\ G!OpenMeansOwned'
  BY <1>1, IndexStays
<1> QED
  BY <1>1, <1>2
  DEF SessionsInv, RuntimeShapes, Holding, Requests, OneAtATime, Apart, G!Pending

LEMMA WindowEndsKeeps ==
  ASSUME SessionsInv, NEW s \in Sessions, G!WindowEnds(s)
  PROVE  SessionsInv'
<1>1. stalled' \subseteq G!Known /\ expired' \subseteq G!Known
  BY DEF G!WindowEnds, SessionsInv, IndexShapes
<1> QED
  BY <1>1, MarksKeep DEF G!WindowEnds

LEMMA GrowsOldKeeps ==
  ASSUME SessionsInv, NEW s \in Sessions, G!GrowsOld(s)
  PROVE  SessionsInv'
<1>1. \A i \in DOMAIN lru : lru[i] \in G!Known
  BY LibraryAgrees DEF SessionsInv, G!IndexAgrees, ToSet
<1>2. stalled' \subseteq G!Known /\ expired' \subseteq G!Known
  BY <1>1 DEF G!GrowsOld, SessionsInv, IndexShapes
<1> QED
  BY <1>2, MarksKeep DEF G!GrowsOld

LEMMA PopKeeps ==
  ASSUME SessionsInv, NEW k \in G!Built, G!Pop(k)
  PROVE  SessionsInv'
<1>1. PICK p \in parked[k] :
        popped' = [popped EXCEPT ![k] = p] /\ parked' = [parked EXCEPT ![k] = @ \ {p}]
  BY DEF G!Pop
<1>2. /\ UNCHANGED <<lru, entry, stalled, expired, owner, phase, active, cut, held,
                     prompts, interrupted>>
      /\ popped[k] = G!Nobody /\ active[k] = G!Nobody
  BY DEF G!Pop, G!index
<1>3. G!Built' = G!Built
  BY <1>2 DEF G!Built
<1>4. IndexShapes' /\ G!IndexAgrees' /\ Owned' /\ G!OpenMeansOwned'
  BY <1>2, IndexStays DEF SessionsInv, IndexShapes
<1>5. p \in 1..prompts /\ p \in 0..prompts
  BY DEF SessionsInv, RuntimeShapes
<1>6. RuntimeShapes' /\ Holding'
  BY <1>1, <1>2, <1>3, <1>5 DEF SessionsInv, RuntimeShapes, Holding, Requests
<1>7. OneAtATime' /\ Apart'
  <2>1. \A l \in G!Built : G!Pending(l)' \subseteq G!Pending(l)
    BY <1>1, <1>2 DEF G!Pending, SessionsInv, RuntimeShapes
  <2>2. \A l \in G!Built : popped'[l] = G!Nobody \/ active'[l] = G!Nobody
    BY <1>1, <1>2 DEF SessionsInv, RuntimeShapes, OneAtATime
  <2> QED
    BY <1>2, <2>1, <2>2, LoopsStay
<1> QED
  BY <1>4, <1>6, <1>7 DEF SessionsInv

LEMMA RegisterKeeps ==
  ASSUME SessionsInv, NEW k \in G!Built, G!Register(k)
  PROVE  SessionsInv'
<1>1. /\ UNCHANGED <<lru, entry, stalled, expired, owner, phase, parked, held,
                     prompts, interrupted>>
      /\ popped[k] # G!Nobody /\ cut' \subseteq cut \cup {popped[k]}
      /\ active' = [active EXCEPT ![k] = popped[k]]
      /\ popped' = [popped EXCEPT ![k] = G!Nobody]
  BY DEF G!Register, G!index
<1>2. G!Built' = G!Built
  BY <1>1 DEF G!Built
<1>3. IndexShapes' /\ G!IndexAgrees' /\ Owned' /\ G!OpenMeansOwned'
  BY <1>1, IndexStays DEF SessionsInv, IndexShapes
<1>4. popped[k] \in 1..prompts /\ popped[k] \in 0..prompts /\ G!Nobody \in 0..prompts
  BY <1>1 DEF SessionsInv, RuntimeShapes, G!Nobody
<1>5. RuntimeShapes' /\ Holding'
  BY <1>1, <1>2, <1>4 DEF SessionsInv, RuntimeShapes, Holding, Requests
<1>6. OneAtATime' /\ Apart'
  <2>1. \A l \in G!Built : G!Pending(l)' \subseteq G!Pending(l)
    BY <1>1 DEF G!Pending, SessionsInv, RuntimeShapes
  <2>2. \A l \in G!Built : popped'[l] = G!Nobody \/ active'[l] = G!Nobody
    BY <1>1 DEF SessionsInv, RuntimeShapes, OneAtATime
  <2> QED
    BY <1>1, <2>1, <2>2, LoopsStay
<1> QED
  BY <1>3, <1>5, <1>6 DEF SessionsInv

LEMMA EndTurnKeeps ==
  ASSUME SessionsInv, NEW k \in G!Built, G!EndTurn(k)
  PROVE  SessionsInv'
<1>1. /\ UNCHANGED <<lru, entry, stalled, expired, owner, phase, parked, popped, held, prompts>>
      /\ active' = [active EXCEPT ![k] = G!Nobody]
      /\ cut' \subseteq cut /\ interrupted' \subseteq interrupted
  BY DEF G!EndTurn, G!index
<1>2. G!Built' = G!Built
  BY <1>1 DEF G!Built
<1>3. IndexShapes' /\ G!IndexAgrees' /\ Owned' /\ G!OpenMeansOwned'
  BY <1>1, IndexStays DEF SessionsInv, IndexShapes
<1>4. G!Nobody \in 0..prompts
  BY DEF SessionsInv, RuntimeShapes, G!Nobody
<1>5. RuntimeShapes' /\ Holding'
  BY <1>1, <1>2, <1>4 DEF SessionsInv, RuntimeShapes, Holding, Requests
<1>6. OneAtATime' /\ Apart'
  <2>1. \A l \in G!Built : G!Pending(l)' \subseteq G!Pending(l)
    BY <1>1 DEF G!Pending, SessionsInv, RuntimeShapes
  <2>2. \A l \in G!Built : popped'[l] = G!Nobody \/ active'[l] = G!Nobody
    BY <1>1 DEF SessionsInv, RuntimeShapes, OneAtATime
  <2> QED
    BY <1>1, <2>1, <2>2, LoopsStay
<1> QED
  BY <1>3, <1>5, <1>6 DEF SessionsInv

LEMMA CloseKeeps ==
  ASSUME SessionsInv, NEW k \in G!Built, G!Close(k)
  PROVE  SessionsInv'
<1>1. /\ UNCHANGED <<lru, entry, stalled, expired, owner, popped, active, held, prompts,
                     interrupted>>
      /\ phase[k] = "cancelled" /\ phase' = [phase EXCEPT ![k] = "closing"]
      /\ parked' = [parked EXCEPT ![k] = {}]
      /\ cut' = cut \cup ({active[k]} \ {G!Nobody})
  BY DEF G!Close, G!index
<1>2. G!Built' = G!Built
  BY <1>1 DEF G!Built
<1>3. IndexShapes' /\ G!IndexAgrees' /\ Owned' /\ G!OpenMeansOwned'
  BY <1>1, IndexStays DEF SessionsInv, IndexShapes, RuntimeShapes
<1>4. {active[k]} \ {G!Nobody} \subseteq 1..prompts
  BY DEF SessionsInv, RuntimeShapes, G!Nobody
<1>5. RuntimeShapes' /\ Holding'
  BY <1>1, <1>2, <1>4 DEF SessionsInv, RuntimeShapes, Holding, Requests
<1>6. OneAtATime' /\ Apart'
  <2>1. \A l \in G!Built : G!Pending(l)' \subseteq G!Pending(l)
    BY <1>1 DEF G!Pending, SessionsInv, RuntimeShapes
  <2> QED
    BY <1>1, <2>1, LoopsStay DEF SessionsInv, OneAtATime
<1> QED
  BY <1>3, <1>5, <1>6 DEF SessionsInv

LEMMA ExitKeeps ==
  ASSUME SessionsInv, NEW k \in G!Built, G!Exit(k)
  PROVE  SessionsInv'
<1>1. /\ UNCHANGED <<lru, entry, stalled, expired, owner, parked, popped, active, cut, held,
                     prompts, interrupted>>
      /\ phase[k] = "closing" /\ phase' = [phase EXCEPT ![k] = "closed"]
  BY DEF G!Exit, G!index
<1>2. G!Built' = G!Built
  BY <1>1 DEF G!Built
<1>3. IndexShapes' /\ G!IndexAgrees' /\ Owned' /\ G!OpenMeansOwned'
  BY <1>1, IndexStays DEF SessionsInv, IndexShapes, RuntimeShapes
<1>4. RuntimeShapes' /\ Holding' /\ OneAtATime' /\ Apart'
  BY <1>1, <1>2
  DEF SessionsInv, RuntimeShapes, Holding, Requests, OneAtATime, Apart, G!Pending
<1> QED
  BY <1>3, <1>4 DEF SessionsInv

\* The invariant holds at the start.
LEMMA InitSessionsInv == G!Init => SessionsInv
<1> SUFFICES ASSUME G!Init PROVE SessionsInv
  OBVIOUS
<1>1. /\ lru = <<>> /\ entry = [s \in Sessions |-> Absent] /\ stalled = {} /\ expired = {}
      /\ owner = <<>> /\ phase = <<>> /\ parked = <<>> /\ popped = <<>> /\ active = <<>>
      /\ cut = {} /\ held = [c \in Clients |-> G!Idle] /\ prompts = 0 /\ interrupted = {}
  BY DEF G!Init
<1>2. G!Known = {} /\ G!Built = {} /\ ToSet(lru) = {} /\ Len(owner) = 0
  BY <1>1 DEF G!Known, G!Built, ToSet
<1>3. IndexShapes /\ G!IndexAgrees
  <2>1. Cardinality(G!Known) = 0
    BY <1>2, FS_EmptySet
  <2> QED
    BY LibraryAgrees, <1>1, <1>2, <2>1, GatewayAssumption
       DEF IndexShapes, G!IndexAgrees, IsInjective
<1>4. RuntimeShapes /\ Holding
  BY <1>1, <1>2, GatewayAssumption DEF RuntimeShapes, Holding
<1>5. Owned /\ G!OpenMeansOwned /\ OneAtATime /\ Apart
  BY <1>1, <1>2 DEF Owned, G!OpenMeansOwned, OneAtATime, Apart, G!HasRuntime, G!Known
<1> QED
  BY <1>3, <1>4, <1>5 DEF SessionsInv

LEMMA StutterKeeps == SessionsInv /\ UNCHANGED G!vars => SessionsInv'
BY MarksKeep DEF SessionsInv, IndexShapes, G!vars, G!index

\* Every operation of the index and every step of a runtime's loop keeps the map, the
\* list and the runtimes in agreement (gateway/sessionmgr.go).
THEOREM SessionsInductive == G!Spec => []SessionsInv
<1>1. SessionsInv /\ [G!Next]_G!vars => SessionsInv'
  <2> SUFFICES ASSUME SessionsInv, [G!Next]_G!vars PROVE SessionsInv'
    OBVIOUS
  <2>1. ASSUME NEW c \in Clients, G!Admit(c) PROVE SessionsInv'
    BY <2>1, AdmitKeeps
  <2>2. ASSUME NEW c \in Clients, NEW s \in Sessions, G!GetOrCreateEntry(c, s) PROVE SessionsInv'
    BY <2>2, GetOrCreateEntryKeeps
  <2>3. ASSUME NEW c \in Clients, NEW s \in Sessions, G!EnsureEntry(c, s) PROVE SessionsInv'
    BY <2>3, EnsureEntryKeeps
  <2>4. ASSUME NEW s \in Sessions, G!Subscribe(s) PROVE SessionsInv'
    BY <2>4, SubscribeKeeps
  <2>5. ASSUME NEW s \in Sessions, G!Stop(s) PROVE SessionsInv'
    BY <2>5, StopKeeps
  <2>6. ASSUME NEW s \in Sessions, G!WindowEnds(s) PROVE SessionsInv'
    BY <2>6, WindowEndsKeeps
  <2>7. ASSUME NEW s \in Sessions, G!RemoveSession(s) PROVE SessionsInv'
    BY <2>7, RemoveSessionKeeps
  <2>8. ASSUME NEW s \in Sessions, G!GrowsOld(s) PROVE SessionsInv'
    BY <2>8, GrowsOldKeeps
  <2>9. ASSUME NEW k \in G!Built, G!Pop(k) PROVE SessionsInv'
    BY <2>9, PopKeeps
  <2>10. ASSUME NEW k \in G!Built, G!Register(k) PROVE SessionsInv'
    BY <2>10, RegisterKeeps
  <2>11. ASSUME NEW k \in G!Built, G!EndTurn(k) PROVE SessionsInv'
    BY <2>11, EndTurnKeeps
  <2>12. ASSUME NEW k \in G!Built, G!Close(k) PROVE SessionsInv'
    BY <2>12, CloseKeeps
  <2>13. ASSUME NEW k \in G!Built, G!Exit(k) PROVE SessionsInv'
    BY <2>13, ExitKeeps
  <2>14. ASSUME UNCHANGED G!vars PROVE SessionsInv'
    BY <2>14, StutterKeeps
  <2> QED
    BY <2>1, <2>2, <2>3, <2>4, <2>5, <2>6, <2>7, <2>8, <2>9, <2>10, <2>11, <2>12, <2>13,
       <2>14 DEF G!Next
<1> QED
  BY InitSessionsInv, <1>1, PTL DEF G!Spec

LEMMA SessionsInvGives == SessionsInv => G!SessionsAreOwned
<1> SUFFICES ASSUME SessionsInv PROVE G!SessionsAreOwned
  OBVIOUS
<1>1. /\ Len(owner) \in Nat /\ Len(owner) <= MaxRuntimes /\ prompts \in Nat /\ prompts <= MaxPrompts
      /\ MaxRuntimes \in Nat /\ MaxPrompts \in Nat
  BY GatewayAssumption DEF SessionsInv, RuntimeShapes
<1>2. /\ 0..Len(owner) \subseteq 0..MaxRuntimes /\ 1..prompts \subseteq 1..MaxPrompts
      /\ 0..prompts \subseteq 0..MaxPrompts
  BY <1>1
<1>3. entry \in [Sessions -> {Absent} \cup 0..MaxRuntimes]
  BY <1>2 DEF SessionsInv, IndexShapes
<1>4. /\ parked \in [G!Built -> SUBSET (1..MaxPrompts)]
      /\ popped \in [G!Built -> 0..MaxPrompts] /\ active \in [G!Built -> 0..MaxPrompts]
      /\ cut \subseteq 1..MaxPrompts /\ interrupted \subseteq 1..MaxPrompts
  BY <1>2 DEF SessionsInv, RuntimeShapes
<1>5. \A c \in Clients : held[c].op \in {"idle", "prompt", "steer"}
  BY DEF SessionsInv, Holding, Requests, G!Idle
<1>6. G!TypeOK
  BY LibraryAgrees, <1>3, <1>4, <1>5 DEF SessionsInv, IndexShapes, RuntimeShapes, G!TypeOK
<1> QED
  BY <1>6 DEF SessionsInv, G!SessionsAreOwned

\* The variables of the session manager and of its runtimes have their types.
THEOREM SessionsTypeCorrect == G!Spec => []G!TypeOK
BY SessionsInductive, SessionsInvGives, PTL DEF G!SessionsAreOwned

\* The list orders exactly the entries of the map, which never exceed the cap, and a
\* runtime is open exactly as long as one entry holds it, whatever is created, evicted,
\* rolled back or removed (createEntryLocked, evictLRULocked, reapIdleLocked, Remove).
THEOREM Ownership == G!Spec => []SessionsAreOwned
<1>1. SessionsInv => SessionsAreOwned
  BY SessionsInvGives DEF SessionsAreOwned
<1> QED
  BY <1>1, SessionsInductive, PTL

-----------------------------------------------------------------------------
(* What a step does to the runs of others.                                 *)

\* Runtimes that were let go of without a registered run: no registered run is cut,
\* whatever was registered since they were looked at.
LEMMA GoneSparesOthers ==
  ASSUME SessionsInv, NEW let \in SUBSET G!Built, NEW n \in Nat, Len(owner) <= n, G!LetGo(let, n),
         NEW k \in G!Built \ let, phase[k] = "open", active[k] # G!Nobody
  PROVE  phase'[k] = "open" /\ (active[k] \in cut' => active[k] \in cut)
<1>1. /\ \A l \in G!Built : G!Pending(l)' \subseteq G!Pending(l)
      /\ cut' = cut \cup ({active'[l] : l \in let} \ {G!Nobody})
      /\ phase'[k] = "open"
  BY LetGoRuntimes
<1>2. ASSUME NEW l \in let PROVE active'[l] = G!Nobody \/ active'[l] # active[k]
  <2>1. l \in G!Built /\ l # k /\ G!Pending(l) \cap G!Pending(k) = {}
    BY DEF SessionsInv, Apart
  <2>2. active[k] \in G!Pending(k)
    BY DEF G!Pending
  <2>3. active'[l] = G!Nobody \/ active'[l] \in G!Pending(l)
    BY <1>1, <2>1 DEF G!Pending
  <2> QED
    BY <2>1, <2>2, <2>3
<1> QED
  BY <1>1, <1>2

\* Entering an index lets go of idle runtimes only.
LEMMA RoomSparesOthers ==
  ASSUME SessionsInv, NEW x, Good(x), Spares(x), NEW n \in Nat, Len(owner) <= n, G!LetGo(x.let, n)
  PROVE  G!RunsAreSpared
<1> SUFFICES ASSUME NEW k \in G!Built, phase[k] = "open", active[k] # G!Nobody
             PROVE  phase'[k] = "open" /\ (active[k] \in cut' => active[k] \in cut)
  BY DEF G!RunsAreSpared
<1>1. x.let \in SUBSET G!Built /\ k \notin x.let
  BY DEF Good, Agrees, IndexRecords, Spares
<1> QED
  BY <1>1, GoneSparesOthers

LEMMA AbortSparesOthers ==
  ASSUME SessionsInv, NEW x, Good(x), Spares(x), G!Abort(x.let)
  PROVE  G!RunsAreSpared
<1>1. PICK n \in Nat : n = Len(owner)
  BY DEF SessionsInv, RuntimeShapes
<1> QED
  BY <1>1, RoomSparesOthers DEF G!Abort

LEMMA GetOrCreateEntrySpares ==
  ASSUME SessionsInv, NEW c \in Clients, NEW s \in Sessions, G!GetOrCreateEntry(c, s)
  PROVE  G!RunsAreSpared
<1>1. PICK x \in G!Enter(s) : G!Abort(x.let) \/ G!Attach(x, s) \/ G!AttachFails(x, s)
  BY DEF G!GetOrCreateEntry
<1>2. Good(x) /\ Spares(x)
  BY Entered
<1>3. CASE G!Abort(x.let) \/ G!AttachFails(x, s)
  BY <1>2, <1>3, AbortSparesOthers DEF G!AttachFails
<1>4. CASE G!Attach(x, s)
  <2>1. PICK n \in Nat : n = Len(owner) + 1 /\ Len(owner) <= n
    BY DEF SessionsInv, RuntimeShapes
  <2> QED
    BY <1>2, <1>4, <2>1, RoomSparesOthers DEF G!Attach
<1> QED
  BY <1>1, <1>3, <1>4

LEMMA EnsureEntrySpares ==
  ASSUME SessionsInv, NEW s \in Sessions, \E x \in G!Enter(s) : G!Becomes(x) /\ G!Abort(x.let)
  PROVE  G!RunsAreSpared
BY Entered, AbortSparesOthers

LEMMA RemoveSessionSpares ==
  ASSUME SessionsInv, NEW s \in Sessions, G!RemoveSession(s)
  PROVE  G!RunsAreSpared
<1>1. PICK y : y = G!Detach(G!Index, s)
  OBVIOUS
<1>2. /\ Good(y) /\ G!Abort(y.let)
      /\ \A k \in y.let : G!HasRuntime(s) /\ entry[s] = k
  <2>1. Good(G!Index) /\ G!Index.let = {}
    BY IndexGood DEF G!Index
  <2>2. Good(y) /\ \A k \in y.let : k \in G!Index.let \/ (G!HasRuntime(s) /\ entry[s] = k)
    <3> HIDE DEF Good
    <3> QED
      BY <1>1, <2>1, Detached
  <2> QED
    BY <1>1, <2>1, <2>2 DEF G!RemoveSession
<1>3. PICK n \in Nat : n = Len(owner)
  BY DEF SessionsInv, RuntimeShapes
<1>4. G!LetGo(y.let, n) /\ Len(owner) <= n
  BY <1>2, <1>3 DEF G!Abort
<1> SUFFICES ASSUME NEW k \in G!Built, phase[k] = "open", active[k] # G!Nobody,
                    active[k] \notin interrupted'
             PROVE  phase'[k] = "open" /\ (active[k] \in cut' => active[k] \in cut)
  BY DEF G!RunsAreSpared
<1>5. k \notin y.let
  BY <1>2 DEF G!RemoveSession, G!Pending
<1> QED
  BY <1>2, <1>4, <1>5, GoneSparesOthers DEF Good, Agrees, IndexRecords

\* A step of one loop, which may cut a request of its own.
LEMMA OneLoopSpares ==
  ASSUME SessionsInv, NEW k \in G!Built,
         \A l \in G!Built : phase[l] = "open" => phase'[l] = "open",
         cut' \subseteq cut \cup ({popped[k], active[k]} \ {G!Nobody}),
         phase[k] # "open" \/ cut' \subseteq cut \cup (interrupted' \ {G!Nobody})
  PROVE  G!RunsAreSpared
<1> SUFFICES ASSUME NEW l \in G!Built, phase[l] = "open", active[l] # G!Nobody,
                    active[l] \notin interrupted'
             PROVE  active[l] \in cut' => active[l] \in cut
  BY DEF G!RunsAreSpared
<1>1. CASE l = k
  BY <1>1
<1>2. CASE l # k
  <2>1. active[l] \notin {popped[k], active[k]} \ {G!Nobody}
    BY <1>2 DEF SessionsInv, Apart, G!Pending
  <2> QED
    BY <2>1
<1> QED
  BY <1>1, <1>2

\* Making room for one session never ends a run of another: only a stop, a steer or a
\* removal of its own session cancels a registered run of an open runtime
\* (evictLRULocked and reapIdleLocked pass over entries that run).
THEOREM RoomSparesRuns == G!Spec => OthersRunsAreSpared
<1>1. SessionsInv /\ [G!Next]_G!vars => [G!RunsAreSpared]_G!vars
  <2> SUFFICES ASSUME SessionsInv, G!Next PROVE G!RunsAreSpared
    OBVIOUS
  <2>1. ASSUME NEW c \in Clients, G!Admit(c) PROVE G!RunsAreSpared
    <3>1. PICK k \in G!Built : k = held[c].runtime
      BY <2>1 DEF G!Admit, SessionsInv, Holding, Requests
    <3>2. \A l \in G!Built : phase[l] = "open" => phase'[l] = "open"
      BY <2>1 DEF G!Admit, G!runtimes
    <3>3. CASE UNCHANGED cut
      BY <3>1, <3>2, <3>3, OneLoopSpares
    <3>4. CASE /\ cut' = cut \cup ({active[k]} \ {G!Nobody})
               /\ interrupted' = interrupted \cup ({active[k]} \ {G!Nobody})
      BY <3>1, <3>2, <3>4, OneLoopSpares
    <3> QED
      BY <2>1, <3>1, <3>3, <3>4 DEF G!Admit, G!runtimes
  <2>2. ASSUME NEW c \in Clients, NEW s \in Sessions, G!GetOrCreateEntry(c, s) PROVE G!RunsAreSpared
    BY <2>2, GetOrCreateEntrySpares
  <2>3. ASSUME NEW c \in Clients, NEW s \in Sessions, G!EnsureEntry(c, s) PROVE G!RunsAreSpared
    BY <2>3, EnsureEntrySpares DEF G!EnsureEntry
  <2>4. ASSUME NEW s \in Sessions, G!Subscribe(s) PROVE G!RunsAreSpared
    BY <2>4, EnsureEntrySpares DEF G!Subscribe
  <2>5. ASSUME NEW s \in Sessions, G!Stop(s) PROVE G!RunsAreSpared
    <3>1. PICK k \in G!Built : k = entry[s]
      BY <2>5
         DEF G!Stop, G!Runs, G!HasRuntime, G!Known, SessionsInv, IndexShapes, RuntimeShapes,
             G!Built, G!Bare
    <3>2. active[k] # G!Nobody /\ active[k] \in interrupted'
      BY <2>5, <3>1 DEF G!Stop, G!Runs, G!Pending
    <3> QED
      BY <2>5, <3>1, <3>2, OneLoopSpares DEF G!Stop
  <2>6. ASSUME NEW s \in Sessions, G!RemoveSession(s) PROVE G!RunsAreSpared
    BY <2>6, RemoveSessionSpares
  <2>7. ASSUME NEW s \in Sessions, G!WindowEnds(s) \/ G!GrowsOld(s) PROVE G!RunsAreSpared
    BY <2>7 DEF G!WindowEnds, G!GrowsOld, G!runtimes, G!RunsAreSpared
  <2>8. ASSUME NEW k \in G!Built, G!Pop(k) PROVE G!RunsAreSpared
    BY <2>8 DEF G!Pop, G!RunsAreSpared
  <2>9. ASSUME NEW k \in G!Built, G!Register(k) PROVE G!RunsAreSpared
    <3>1. /\ UNCHANGED phase /\ popped[k] # G!Nobody
          /\ cut' = IF phase[k] = "closing" THEN cut \cup {popped[k]} ELSE cut
      BY <2>9 DEF G!Register
    <3> QED
      BY <3>1, OneLoopSpares
  <2>10. ASSUME NEW k \in G!Built, G!EndTurn(k) PROVE G!RunsAreSpared
    BY <2>10 DEF G!EndTurn, G!RunsAreSpared
  <2>11. ASSUME NEW k \in G!Built, G!Close(k) PROVE G!RunsAreSpared
    <3>1. /\ phase[k] = "cancelled" /\ phase' = [phase EXCEPT ![k] = "closing"]
          /\ cut' = cut \cup ({active[k]} \ {G!Nobody})
      BY <2>11 DEF G!Close
    <3>2. \A l \in G!Built : phase[l] = "open" => phase'[l] = "open"
      BY <3>1 DEF SessionsInv, RuntimeShapes
    <3> QED
      BY <3>1, <3>2, OneLoopSpares
  <2>12. ASSUME NEW k \in G!Built, G!Exit(k) PROVE G!RunsAreSpared
    BY <2>12 DEF G!Exit, G!RunsAreSpared, SessionsInv, RuntimeShapes
  <2> QED
    BY <2>1, <2>2, <2>3, <2>4, <2>5, <2>6, <2>7, <2>8, <2>9, <2>10, <2>11, <2>12 DEF G!Next
<1> QED
  BY SessionsInductive, <1>1, PTL DEF G!Spec, OthersRunsAreSpared, G!OthersRunsAreSpared
=============================================================================
