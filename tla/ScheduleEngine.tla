--------------------------- MODULE ScheduleEngine ---------------------------
(***************************************************************************)
(* Scheduled tasks (scheduledtask/engine.go, agents/store/schedule_store.go *)
(* and the schedule methods of gateway/sessionmgr.go).                     *)
(*                                                                         *)
(* The tick goroutine selects the due schedules and triggers them one by   *)
(* one, each trigger being a sequence of separate database writes around   *)
(* one Submit; then it closes the run rows whose turn is no longer in      *)
(* flight. Gateway handlers run beside it (create, toggle, delete, run     *)
(* now, abort), sessions run the turns, and the process may be stopped or  *)
(* may crash between any two writes. The database survives.                *)
(***************************************************************************)
EXTENDS Naturals

CONSTANTS
  Scheds,        \* schedule ids
  AtScheds,      \* one-shot schedules; the others are "every" and "cron"
  MaxAttempts,   \* maxAttempts: failures in a row that disable a schedule
  MaxRows,       \* bound: run rows ever created
  MaxExits,      \* bound: times the process exits
  NoSched        \* no schedule

ASSUME ScheduleAssumption ==
  /\ AtScheds \subseteq Scheds /\ NoSched \notin Scheds
  /\ MaxAttempts \in Nat \ {0} /\ MaxRows \in Nat /\ MaxExits \in Nat

VARIABLES
  \* the schedules table
  exists,        \* "never" created, "yes", or "deleted"
  enabled,
  due,           \* next_fire_at <= now
  errors,        \* consecutive_errors
  \* the schedule_runs table; rows 1 .. rows have been created
  rows, sched, status, link,
  \* Engine
  stopping,      \* Stop has cancelled the engine's context
  lastRow,       \* runIDs
  \* the tick goroutine, and a handler of run_now or abort
  at, row,       \* where each is, the row it has in hand
  todo,          \* due schedules the tick still has to trigger
  listed,        \* running rows it still has to reconcile
  \* the sessions' turns, one per submitted row
  turn,
  \* history
  exits,
  fired,         \* scheduled turns submitted for the present next_fire_at
  streak,        \* scheduled submits that failed since the last that did not
  torn           \* schedules whose trigger was cut off between Submit and its bookkeeping

tableVars == <<exists, enabled, due, errors>>
rowVars == <<rows, sched, status, link>>
engineVars == <<stopping, lastRow>>
procVars == <<at, row, todo, listed>>
historyVars == <<exits, fired, streak, torn>>
vars == <<tableVars, rowVars, engineVars, procVars, turn, historyVars>>

Rows == 1 .. MaxRows
NoRow == 0
Procs == {"tick", "hand"}
Places == {"idle", "trigger", "submit", "errors", "disable", "mark", "reset", "link",
           "remember", "check", "close", "stamp"}
Statuses == {"none", "running", "failed", "done", "aborted"}

\* The Loop mints run ids of its own: none is ever the id of a row.
RunID(r) == MaxRows + r
NoRun == 0

TypeOK ==
  /\ exists \in [Scheds -> {"never", "yes", "deleted"}]
  /\ enabled \in [Scheds -> BOOLEAN] /\ due \in [Scheds -> BOOLEAN]
  /\ errors \in [Scheds -> Nat]
  /\ rows \in 0 .. MaxRows
  /\ sched \in [Rows -> Scheds \cup {NoSched}]
  /\ status \in [Rows -> Statuses]
  /\ link \in [Rows -> Nat] /\ \A r \in Rows : link[r] \in {NoRun, RunID(r)}
  /\ stopping \in BOOLEAN
  /\ lastRow \in [Scheds -> Rows \cup {NoRow}]
  /\ at \in [Procs -> Places]
  /\ row \in [Procs -> Rows \cup {NoRow}]
  /\ todo \subseteq Scheds /\ listed \subseteq Rows
  /\ turn \in [Rows -> {"none", "waiting", "active", "ended"}]
  /\ exits \in 0 .. MaxExits
  /\ fired \in [Scheds -> Nat] /\ streak \in [Scheds -> Nat]
  /\ torn \subseteq Scheds

Init ==
  /\ exists = [s \in Scheds |-> "never"]
  /\ enabled = [s \in Scheds |-> FALSE] /\ due = [s \in Scheds |-> FALSE]
  /\ errors = [s \in Scheds |-> 0]
  /\ rows = 0
  /\ sched = [r \in Rows |-> NoSched] /\ status = [r \in Rows |-> "none"]
  /\ link = [r \in Rows |-> NoRun]
  /\ stopping = FALSE /\ lastRow = [s \in Scheds |-> NoRow]
  /\ at = [p \in Procs |-> "idle"] /\ row = [p \in Procs |-> NoRow]
  /\ todo = {} /\ listed = {}
  /\ turn = [r \in Rows |-> "none"]
  /\ exits = 0
  /\ fired = [s \in Scheds |-> 0] /\ streak = [s \in Scheds |-> 0]
  /\ torn = {}

------------------------------------------------------------------------------
(* The database and the sessions, as the engine sees them. *)

\* A stopped engine's context is cancelled: each of its statements fails, and it
\* ignores or only logs the error. A handler has a context of its own.
Commits(p) == p = "hand" \/ ~stopping

\* A column with v at x, if p's statement commits.
Written(p, f, x, v) == IF Commits(p) THEN [f EXCEPT ![x] = v] ELSE f

\* The same for the tick and a column of the schedules table: a deleted schedule has
\* no row.
Patched(f, s, v) == IF exists[s] = "yes" THEN Written("tick", f, s, v) ELSE f

\* Fault: only schedules without errors are selected.
SelectDueHealthy == {s \in Scheds : exists[s] = "yes" /\ enabled[s] /\ due[s] /\ errors[s] = 0}

SelectDue == {s \in Scheds : exists[s] = "yes" /\ enabled[s] /\ due[s]}

\* Fault: the rows are joined with their schedules.
ListRunningJoined ==
  {r \in Rows : status[r] = "running" /\ link[r] # NoRun /\ exists[sched[r]] = "yes"}

\* Fault: rows without a run id are reconciled too.
ListRunningUnlinked == {r \in Rows : status[r] = "running"}

\* ListRunningRuns, less the rows without a run id.
ListRunningRuns == {r \in Rows : status[r] = "running" /\ link[r] # NoRun}

\* Fault: a success leaves the count as it is.
ResetKept(n) == n

\* ResetConsecutiveErrors.
ResetCount(n) == 0

\* Fault: next_fire_at is computed from the time that has just been served.
ServedAgain(s) == TRUE

\* Whether computeNextFire names a time that has passed: never for "every" and "cron",
\* but for "at" it is the one time again.
DueAgain(s) == s \in AtScheds

\* The run_id a row is given.
LinkFor(r) == RunID(r)

\* Loop.ActiveRunID of the session pinned to s.
ActiveRunID(s) ==
  IF \E r \in Rows : sched[r] = s /\ turn[r] = "active"
    THEN RunID(CHOOSE r \in Rows : sched[r] = s /\ turn[r] = "active")
    ELSE NoRun

IsRunActive(s, id) == ActiveRunID(s) = id

\* SessionManager.Abort: Loop.Abort, if id is the run in flight.
SessionAbort(s, id) ==
  turn' = IF IsRunActive(s, id)
            THEN [r \in Rows |-> IF sched[r] = s /\ turn[r] \in {"waiting", "active"}
                                   THEN "ended" ELSE turn[r]]
            ELSE turn

------------------------------------------------------------------------------
(* One trigger, by the tick (Engine.trigger) or by a handler (TriggerNow). *)

Goto(p, place) == at' = [at EXCEPT ![p] = place]
Done(p) == Goto(p, IF p = "tick" THEN "trigger" ELSE "idle") /\ row' = [row EXCEPT ![p] = NoRow]

CreateRun(p, s) ==
  /\ rows' = rows + 1
  /\ sched' = [sched EXCEPT ![rows + 1] = s]
  /\ status' = [status EXCEPT ![rows + 1] = "running"]
  /\ row' = [row EXCEPT ![p] = rows + 1]
  /\ Goto(p, "submit")
  /\ UNCHANGED link

\* SubmitForSchedule enqueues the turn; it does not look at the context.
Submit(p) ==
  /\ at[p] = "submit"
  /\ turn' = [turn EXCEPT ![row[p]] = "waiting"]
  /\ IF p = "tick"
       THEN /\ fired' = [fired EXCEPT ![sched[row[p]]] = @ + 1]
            /\ streak' = [streak EXCEPT ![sched[row[p]]] = 0]
            /\ Goto(p, "mark")
       ELSE Goto(p, "link") /\ UNCHANGED <<fired, streak>>
  /\ UNCHANGED <<tableVars, rowVars, engineVars, row, todo, listed, exits, torn>>

\* SubmitForSchedule fails (no room for the session, stop window, no runtime) and
\* the row is closed.
SubmitFails(p) ==
  /\ at[p] = "submit"
  /\ status' = Written(p, status, row[p], "failed")
  /\ IF p = "tick"
       THEN /\ streak' = [streak EXCEPT ![sched[row[p]]] = @ + 1]
            /\ Goto(p, "errors") /\ UNCHANGED row
       ELSE Done(p) /\ UNCHANGED streak
  /\ UNCHANGED <<tableVars, rows, sched, link, engineVars, todo, listed, turn, exits,
                 fired, torn>>

\* IncrementConsecutiveErrors, which also moves next_fire_at into the future. The
\* threshold is tested on the count SelectDue read; only this goroutine writes it.
CountError ==
  LET s == sched[row["tick"]] IN
  /\ at["tick"] = "errors"
  /\ errors' = Patched(errors, s, errors[s] + 1)
  /\ due' = Patched(due, s, FALSE)
  /\ fired' = IF s \in AtScheds THEN fired ELSE Patched(fired, s, 0)
  /\ IF errors[s] + 1 >= MaxAttempts
       THEN Goto("tick", "disable") /\ UNCHANGED row
       ELSE Done("tick")
  /\ UNCHANGED <<exists, enabled, rowVars, engineVars, todo, listed, turn, exits,
                 streak, torn>>

Disable ==
  /\ at["tick"] = "disable"
  /\ enabled' = Patched(enabled, sched[row["tick"]], FALSE)
  /\ Done("tick")
  /\ UNCHANGED <<exists, due, errors, rowVars, engineVars, todo, listed, turn,
                 historyVars>>

\* A bookkeeping statement of the trigger that does not commit leaves it torn.
Torn(s) == torn' = IF Commits("tick") THEN torn ELSE torn \cup {s}

MarkFired ==
  LET s == sched[row["tick"]] IN
  /\ at["tick"] = "mark"
  /\ due' = IF DueAgain(s) THEN due ELSE Patched(due, s, FALSE)
  /\ fired' = IF DueAgain(s) THEN fired ELSE Patched(fired, s, 0)
  /\ Torn(s)
  /\ Goto("tick", "reset")
  /\ UNCHANGED <<exists, enabled, errors, rowVars, engineVars, row, todo, listed,
                 turn, exits, streak>>

Reset ==
  LET s == sched[row["tick"]] IN
  /\ at["tick"] = "reset"
  /\ errors' = Patched(errors, s, ResetCount(errors[s]))
  /\ Torn(s)
  /\ Goto("tick", "link")
  /\ UNCHANGED <<exists, enabled, due, rowVars, engineVars, row, todo, listed, turn,
                 exits, fired, streak>>

\* UpdateRun: session_id and run_id.
Link(p) ==
  /\ at[p] = "link"
  /\ link' = Written(p, link, row[p], LinkFor(row[p]))
  /\ Goto(p, "remember")
  /\ UNCHANGED <<tableVars, rows, sched, status, engineVars, row, todo, listed, turn,
                 historyVars>>

Remember(p) ==
  /\ at[p] = "remember"
  /\ lastRow' = [lastRow EXCEPT ![sched[row[p]]] = row[p]]
  /\ Done(p)
  /\ UNCHANGED <<tableVars, rowVars, stopping, todo, listed, turn, historyVars>>

------------------------------------------------------------------------------
(* The tick goroutine: Engine.tick and reconcileRunningRuns. *)

Tick ==
  /\ ~stopping /\ at["tick"] = "idle"
  /\ todo' = SelectDue
  /\ Goto("tick", "trigger")
  /\ UNCHANGED <<tableVars, rowVars, engineVars, row, listed, turn, historyVars>>

\* trigger(s): CreateRun, or an error that leaves s for the next tick.
Begin(s) ==
  /\ at["tick"] = "trigger"
  /\ s \in todo
  /\ todo' = todo \ {s}
  /\ IF Commits("tick") /\ rows < MaxRows
       THEN CreateRun("tick", s)
       ELSE UNCHANGED <<rowVars, at, row>>
  /\ UNCHANGED <<tableVars, engineVars, listed, turn, historyVars>>

ListRunning ==
  /\ at["tick"] = "trigger" /\ todo = {}
  /\ listed' = IF Commits("tick") THEN ListRunningRuns ELSE {}
  /\ Goto("tick", "check")
  /\ UNCHANGED <<tableVars, rowVars, engineVars, row, todo, turn, historyVars>>

\* A listed row whose turn is in flight is left alone, any other is to be closed.
Check(r) ==
  /\ at["tick"] = "check" /\ r \in listed
  /\ listed' = listed \ {r}
  /\ IF IsRunActive(sched[r], link[r])
       THEN UNCHANGED <<at, row>>
       ELSE Goto("tick", "close") /\ row' = [row EXCEPT !["tick"] = r]
  /\ UNCHANGED <<tableVars, rowVars, engineVars, todo, turn, historyVars>>

\* UpdateRun: done, whatever the row says by now.
CloseRow ==
  /\ at["tick"] = "close"
  /\ status' = Written("tick", status, row["tick"], "done")
  /\ Goto("tick", "check") /\ row' = [row EXCEPT !["tick"] = NoRow]
  /\ UNCHANGED <<tableVars, rows, sched, link, engineVars, todo, listed, turn,
                 historyVars>>

TickEnds ==
  /\ at["tick"] = "check" /\ listed = {}
  /\ Goto("tick", "idle")
  /\ UNCHANGED <<tableVars, rowVars, engineVars, row, todo, listed, turn, historyVars>>

------------------------------------------------------------------------------
(* Gateway handlers. *)

\* HandleScheduleCreate. gorm replaces a false Enabled by the column's default, so
\* the row is stored enabled whatever the request says; an "at" may be past already.
Create(s) ==
  /\ exists[s] = "never"
  /\ exists' = [exists EXCEPT ![s] = "yes"]
  /\ enabled' = [enabled EXCEPT ![s] = TRUE]
  /\ \E d \in IF s \in AtScheds THEN BOOLEAN ELSE {FALSE} : due' = [due EXCEPT ![s] = d]
  /\ UNCHANGED <<errors, rowVars, engineVars, procVars, turn, historyVars>>

\* HandleScheduleToggle writes enabled and nothing else.
Toggle(s) ==
  /\ exists[s] = "yes"
  /\ enabled' = [enabled EXCEPT ![s] = ~@]
  /\ UNCHANGED <<exists, due, errors, rowVars, engineVars, procVars, turn, historyVars>>

\* HandleScheduleDelete: the row is gone. No foreign key is declared: the run rows
\* stay.
Delete(s) ==
  /\ exists[s] = "yes"
  /\ exists' = [exists EXCEPT ![s] = "deleted"]
  /\ enabled' = [enabled EXCEPT ![s] = FALSE]
  /\ due' = [due EXCEPT ![s] = FALSE]
  /\ errors' = [errors EXCEPT ![s] = 0]
  /\ UNCHANGED <<rowVars, engineVars, procVars, turn, historyVars>>

\* TriggerNow: Get and CreateRun, whether or not s is enabled.
TriggerNow(s) ==
  /\ at["hand"] = "idle"
  /\ exists[s] = "yes" /\ rows < MaxRows
  /\ CreateRun("hand", s)
  /\ UNCHANGED <<tableVars, engineVars, todo, listed, turn, historyVars>>

\* Abort of the row remembered for s. The session is asked to abort the ROW's id.
Abort(s) ==
  /\ at["hand"] = "idle"
  /\ lastRow[s] # NoRow
  /\ SessionAbort(s, lastRow[s])
  /\ Goto("hand", "stamp") /\ row' = [row EXCEPT !["hand"] = lastRow[s]]
  /\ UNCHANGED <<tableVars, rowVars, engineVars, todo, listed, historyVars>>

\* UpdateRun: aborted, whatever the row says.
Stamp ==
  /\ at["hand"] = "stamp"
  /\ status' = [status EXCEPT ![row["hand"]] = "aborted"]
  /\ Done("hand")
  /\ UNCHANGED <<tableVars, rows, sched, link, engineVars, todo, listed, turn,
                 historyVars>>

------------------------------------------------------------------------------
(* Time, the sessions' run loops, and the process. *)

TimePasses(s) ==
  /\ exists[s] = "yes" /\ ~due[s]
  /\ due' = [due EXCEPT ![s] = TRUE]
  /\ UNCHANGED <<exists, enabled, errors, rowVars, engineVars, procVars, turn, historyVars>>

\* The session pinned to the schedule starts a parked turn (in which order is
\* RunLoop's concern), ends the one in flight, or drops a parked one.
TurnStarts(r) ==
  /\ turn[r] = "waiting" /\ ActiveRunID(sched[r]) = NoRun
  /\ turn' = [turn EXCEPT ![r] = "active"]
  /\ UNCHANGED <<tableVars, rowVars, engineVars, procVars, historyVars>>

TurnEnds(r) ==
  /\ turn[r] \in {"waiting", "active"}
  /\ turn' = [turn EXCEPT ![r] = "ended"]
  /\ UNCHANGED <<tableVars, rowVars, engineVars, procVars, historyVars>>

\* Engine.Stop cancels the engine's context and waits for the tick goroutine.
Stop ==
  /\ ~stopping /\ exits < MaxExits
  /\ stopping' = TRUE
  /\ UNCHANGED <<tableVars, rowVars, lastRow, procVars, turn, historyVars>>

\* The process exits, after Stop or by a crash, and Build starts a new engine, whose
\* first tick is immediate. Memory is gone, the tables are as they were.
Restart ==
  /\ exits < MaxExits
  /\ exits' = exits + 1
  /\ stopping' = FALSE /\ lastRow' = [s \in Scheds |-> NoRow]
  /\ torn' = IF at["tick"] \in {"mark", "reset"} THEN torn \cup {sched[row["tick"]]} ELSE torn
  /\ at' = [p \in Procs |-> "idle"] /\ row' = [p \in Procs |-> NoRow]
  /\ todo' = {} /\ listed' = {}
  /\ turn' = [r \in Rows |-> IF turn[r] = "none" THEN "none" ELSE "ended"]
  /\ UNCHANGED <<tableVars, rowVars, fired, streak>>

------------------------------------------------------------------------------
TriggerStep(p) == Submit(p) \/ SubmitFails(p) \/ Link(p) \/ Remember(p)

TickStep ==
  \/ TriggerStep("tick")
  \/ CountError \/ Disable \/ MarkFired \/ Reset
  \/ Tick \/ ListRunning \/ CloseRow \/ TickEnds
  \/ \E s \in Scheds : Begin(s)
  \/ \E r \in Rows : Check(r)

HandlerStep == TriggerStep("hand") \/ Stamp

UserStep ==
  \E s \in Scheds : Create(s) \/ Toggle(s) \/ Delete(s) \/ TriggerNow(s) \/ Abort(s)

Next ==
  \/ TickStep \/ HandlerStep \/ UserStep
  \/ \E s \in Scheds : TimePasses(s)
  \/ \E r \in Rows : TurnStarts(r) \/ TurnEnds(r)
  \/ Stop \/ Restart

Spec == Init /\ [][Next]_vars

\* Goroutines that can move are run and a stopped process exits and is started again;
\* nobody has to call a handler, and a turn may last for ever.
Fairness ==
  /\ WF_vars(TickStep) /\ WF_vars(HandlerStep)
  /\ WF_vars(stopping /\ Restart)
  /\ \A r \in Rows : WF_vars(TurnStarts(r))
FairSpec == Spec /\ Fairness

------------------------------------------------------------------------------
(* Properties. *)

\* One turn per fire time: whatever the handlers do meanwhile, a recurring schedule
\* is submitted at most once for each next_fire_at, unless the process was stopped
\* or crashed between the submit and its bookkeeping.
OncePerFireTime ==
  \A s \in Scheds \ AtScheds : fired[s] > 1 => s \in torn

\* The engine disables a schedule only for maxAttempts failures in a row, with the
\* same exception.
DisabledForAReason ==
  [][\A s \in Scheds :
       (at["tick"] = "disable" /\ at'["tick"] # "disable" /\ enabled[s] /\ ~enabled'[s])
         => streak[s] >= MaxAttempts \/ s \in torn]_vars

\* A row says "failed" only of a trigger that submitted nothing, and "done" or
\* "aborted" only of one that submitted a turn, however the tick, run_now, abort and
\* a restart interleave.
RowsTellWhatRan ==
  \A r \in Rows :
    /\ status[r] = "failed" => turn[r] = "none"
    /\ status[r] \in {"done", "aborted"} => turn[r] # "none"

\* If turns end, a row that was linked to its turn is closed, also across restarts
\* and for a schedule that has been deleted meanwhile.
LinkedRunsClose ==
  (\A r \in Rows : WF_vars(TurnEnds(r))) =>
    \A r \in Rows : (status[r] = "running" /\ link[r] # NoRun) ~> status[r] # "running"

\* A recurring schedule that is due does not stay due for ever: it is fired or moved
\* by its backoff, or somebody disables or deletes it (or the bound is reached).
DueSchedulesMove ==
  \A s \in Scheds \ AtScheds :
    (exists[s] = "yes" /\ enabled[s] /\ due[s])
      ~> (exists[s] # "yes" \/ ~enabled[s] \/ ~due[s] \/ rows = MaxRows)

==============================================================================
