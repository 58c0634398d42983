--------------------------- MODULE SubagentManager ---------------------------
(***************************************************************************)
(* The sub-agent runs of one parent session (subagent/manager.go), their   *)
(* rows (agents/store/subagent_store.go), and what the production runner   *)
(* (sessionruntime/factory.go, agents/dispatcher.go) can answer.           *)
(*                                                                         *)
(* Each run has two goroutines: the caller inside Spawn, whose program     *)
(* counter is spawn[r], and runSpec, whose program counter is body[r].     *)
(* Beside them the renderer and the model abort runs, and goroutines close *)
(* the manager. The locks are Manager.mu (one action per locked section)   *)
(* and storeMu (each row is written by one statement).                     *)
(***************************************************************************)

CONSTANTS
  Runs,         \* calls of Spawn, each with an id of its own
  Background,   \* those with RunInBackground
  Closers       \* goroutines calling Close

ASSUME SubagentAssumption == Background \subseteq Runs

VARIABLES
  \* Manager and runState, guarded by mu
  runs,         \* ids in Manager.runs
  closed,
  status,       \* info.Status
  aborted,      \* runs whose aborted flag is set
  armed,        \* runs whose cancel function is set
  \* contexts and clocks
  ctx,          \* each run's context: live, or what ended it first
  overdue,      \* runs whose timeout has elapsed
  \* the subagent_runs table
  row,          \* the status column, "none" while there is no row
  \* goroutines
  spawn, answer,   \* where each Spawn is, the status it returned
  body,            \* where each runSpec is; doneCh is closed when it is "done"
  closer, drained  \* where each Close is, the runs the first one waits for

managerVars == <<runs, closed, status, aborted, armed>>
timeVars == <<ctx, overdue>>
spawnVars == <<spawn, answer>>
closeVars == <<closer, drained>>
vars == <<managerVars, timeVars, row, spawnVars, body, closeVars>>

Final == {"done", "error", "timeout", "aborted"}
Statuses == Final \cup {"none", "pending", "running"}

TypeOK ==
  /\ runs \subseteq Runs /\ closed \in BOOLEAN
  /\ status \in [Runs -> Statuses]
  /\ aborted \subseteq Runs /\ armed \subseteq Runs
  /\ ctx \in [Runs -> {"live", "cancelled", "expired"}] /\ overdue \subseteq armed
  /\ row \in [Runs -> Statuses]
  /\ spawn \in [Runs -> {"idle", "register", "insert", "forget", "started", "wait",
                         "waiting", "get", "returned", "failed"}]
  /\ answer \in [Runs -> Statuses]
  /\ body \in [Runs -> {"none", "start", "record", "arm", "run", "save", "tell", "done"}]
  /\ closer \in [Closers -> {"idle", "drain", "returned", "refused"}]
  /\ drained \subseteq Runs

Init ==
  /\ runs = {} /\ closed = FALSE
  /\ status = [r \in Runs |-> "none"]
  /\ aborted = {} /\ armed = {}
  /\ ctx = [r \in Runs |-> "live"] /\ overdue = {}
  /\ row = [r \in Runs |-> "none"]
  /\ spawn = [r \in Runs |-> "idle"] /\ answer = [r \in Runs |-> "none"]
  /\ body = [r \in Runs |-> "none"]
  /\ closer = [c \in Closers |-> "idle"] /\ drained = {}

\* Fault: cancel is not wired to the run's context.
CtxDoneByTime(r) == ctx[r] = "expired"

\* runCtx is done.
CtxDone(r) == ctx[r] # "live"

\* cancel() of the runs in S that have one; a context that has ended keeps its cause.
Cancelled(S) ==
  [r \in Runs |-> IF r \in S \cap armed /\ ctx[r] = "live" THEN "cancelled" ELSE ctx[r]]

------------------------------------------------------------------------------
(* Spawn. *)

\* isClosed, under a lock of its own.
SpawnBegin(r) ==
  /\ spawn[r] = "idle"
  /\ spawn' = [spawn EXCEPT ![r] = IF closed THEN "failed" ELSE "register"]
  /\ UNCHANGED <<managerVars, timeVars, row, answer, body, closeVars>>

SpawnRegister(r) ==
  /\ spawn[r] = "register"
  /\ runs' = runs \cup {r}
  /\ status' = [status EXCEPT ![r] = "pending"]
  /\ spawn' = [spawn EXCEPT ![r] = "insert"]
  /\ UNCHANGED <<closed, aborted, armed, timeVars, row, answer, body, closeVars>>

\* The row is inserted and runSpec started.
SpawnInsert(r) ==
  /\ spawn[r] = "insert"
  /\ row' = [row EXCEPT ![r] = "pending"]
  /\ body' = [body EXCEPT ![r] = "start"]
  /\ spawn' = [spawn EXCEPT ![r] = "started"]
  /\ UNCHANGED <<managerVars, timeVars, answer, closeVars>>

\* Insert fails, for one because the caller's context is done: runSpec is never
\* started, and nobody will close this run's doneCh.
SpawnInsertFails(r) ==
  /\ spawn[r] = "insert"
  /\ spawn' = [spawn EXCEPT ![r] = "forget"]
  /\ UNCHANGED <<managerVars, timeVars, row, answer, body, closeVars>>

SpawnForget(r) ==
  /\ spawn[r] = "forget"
  /\ runs' = runs \ {r}
  /\ spawn' = [spawn EXCEPT ![r] = "failed"]
  /\ UNCHANGED <<closed, status, aborted, armed, timeVars, row, answer, body, closeVars>>

\* Fault: only a run that is armed closes started, and doneCh is not watched.
SpawnStartedArmed(r) ==
  /\ spawn[r] = "started"
  /\ r \in armed
  /\ spawn' = [spawn EXCEPT ![r] = IF r \in Background THEN "get" ELSE "wait"]
  /\ UNCHANGED <<managerVars, timeVars, row, answer, body, closeVars>>

\* <-started, or <-doneCh.
SpawnStarted(r) ==
  /\ spawn[r] = "started"
  /\ body[r] \notin {"start", "record", "arm"}
  /\ spawn' = [spawn EXCEPT ![r] = IF r \in Background THEN "get" ELSE "wait"]
  /\ UNCHANGED <<managerVars, timeVars, row, answer, body, closeVars>>

\* The locked section of Wait: a run that has ended already is not waited for, even
\* if its row is still to be written; any other gets one more waiter.
WaitBegin(r) ==
  /\ spawn[r] = "wait"
  /\ spawn' = [spawn EXCEPT ![r] = IF status[r] \in Final THEN "get" ELSE "waiting"]
  /\ UNCHANGED <<managerVars, timeVars, row, answer, body, closeVars>>

\* The waiter's channel and doneCh both fire at the end of runSpec.
WaitReleased(r) ==
  /\ spawn[r] = "waiting"
  /\ body[r] = "done"
  /\ spawn' = [spawn EXCEPT ![r] = "get"]
  /\ UNCHANGED <<managerVars, timeVars, row, answer, body, closeVars>>

\* Wait's own timer. It runs for the timeout of the run and was started after it, so
\* it fires only when the run is overdue.
WaitTimer(r) ==
  /\ spawn[r] = "waiting"
  /\ r \in overdue
  /\ spawn' = [spawn EXCEPT ![r] = "get"]
  /\ UNCHANGED <<managerVars, timeVars, row, answer, body, closeVars>>

\* Spawn returns the info that Get reads.
SpawnGet(r) ==
  /\ spawn[r] = "get"
  /\ answer' = [answer EXCEPT ![r] = status[r]]
  /\ spawn' = [spawn EXCEPT ![r] = "returned"]
  /\ UNCHANGED <<managerVars, timeVars, row, body, closeVars>>

------------------------------------------------------------------------------
(* runSpec. *)

\* Fault: runSpec does not look at closed and aborted.
StartUnchecked(r) ==
  /\ body[r] = "start"
  /\ status' = [status EXCEPT ![r] = "running"] /\ body' = [body EXCEPT ![r] = "record"]
  /\ UNCHANGED <<runs, closed, aborted, armed, timeVars, row, spawnVars, closeVars>>

\* A run overtaken by Close or Abort is aborted, and its row left as it is.
Start(r) ==
  /\ body[r] = "start"
  /\ IF closed \/ r \in aborted
       THEN status' = [status EXCEPT ![r] = "aborted"] /\ body' = [body EXCEPT ![r] = "done"]
       ELSE status' = [status EXCEPT ![r] = "running"] /\ body' = [body EXCEPT ![r] = "record"]
  /\ UNCHANGED <<runs, closed, aborted, armed, timeVars, row, spawnVars, closeVars>>

RecordRunning(r) ==
  /\ body[r] = "record"
  /\ row' = [row EXCEPT ![r] = "running"]
  /\ body' = [body EXCEPT ![r] = "arm"]
  /\ UNCHANGED <<managerVars, timeVars, spawnVars, closeVars>>

\* The run's context and its cancel function. The aborted flag is not looked at again.
Arm(r) ==
  /\ body[r] = "arm"
  /\ armed' = armed \cup {r}
  /\ body' = [body EXCEPT ![r] = "run"]
  /\ UNCHANGED <<runs, closed, status, aborted, timeVars, row, spawnVars, closeVars>>

\* What the runner's verdict can be mapped to. The agent turns a cancellation into
\* ErrAborted, which is not context.Canceled, so never to "aborted".
Verdicts(r) == {"done", "error"} \cup (IF ctx[r] = "expired" THEN {"timeout"} ELSE {})

Settle(r) ==
  /\ \E v \in Verdicts(r) : status' = [status EXCEPT ![r] = v]
  /\ body' = [body EXCEPT ![r] = "save"]
  /\ UNCHANGED <<runs, closed, aborted, armed, timeVars, row, spawnVars, closeVars>>

\* The runner returns by itself, whenever the provider gets there.
RunnerReturns(r) ==
  /\ body[r] = "run"
  /\ Settle(r)

\* The runner returns because its context is done.
RunnerStops(r) ==
  /\ body[r] = "run"
  /\ CtxDone(r)
  /\ Settle(r)

\* Fault: the row of an aborted run is left as it was.
SaveSkipped(r) ==
  /\ body[r] = "save"
  /\ row' = IF r \in aborted THEN row ELSE [row EXCEPT ![r] = status[r]]
  /\ body' = [body EXCEPT ![r] = "tell"]
  /\ UNCHANGED <<managerVars, timeVars, spawnVars, closeVars>>

\* The final Update of the row.
Save(r) ==
  /\ body[r] = "save"
  /\ row' = [row EXCEPT ![r] = status[r]]
  /\ body' = [body EXCEPT ![r] = "tell"]
  /\ UNCHANGED <<managerVars, timeVars, spawnVars, closeVars>>

\* The waiters' channels, then doneCh.
Tell(r) ==
  /\ body[r] = "tell"
  /\ body' = [body EXCEPT ![r] = "done"]
  /\ UNCHANGED <<managerVars, timeVars, row, spawnVars, closeVars>>

------------------------------------------------------------------------------
(* Abort, Close, and time. *)

\* The flag, then cancel, if there was one when the lock was held. The call of cancel
\* after the unlock is folded in: nobody can tell it from a later Abort.
Abort(r) ==
  /\ r \in runs
  /\ aborted' = aborted \cup {r}
  /\ ctx' = Cancelled({r})
  /\ UNCHANGED <<runs, closed, status, armed, overdue, row, spawnVars, body, closeVars>>

\* The first Close flags and cancels every run and collects their doneChs; another
\* returns at once, though the first may still be waiting.
Close(c) ==
  /\ closer[c] = "idle"
  /\ IF closed
       THEN /\ closer' = [closer EXCEPT ![c] = "refused"]
            /\ UNCHANGED <<closed, aborted, ctx, drained>>
       ELSE /\ closed' = TRUE
            /\ aborted' = aborted \cup runs
            /\ ctx' = Cancelled(runs)
            /\ drained' = runs
            /\ closer' = [closer EXCEPT ![c] = "drain"]
  /\ UNCHANGED <<runs, status, armed, overdue, row, spawnVars, body>>

CloseReturn(c) ==
  /\ closer[c] = "drain"
  /\ \A r \in drained : body[r] = "done"
  /\ closer' = [closer EXCEPT ![c] = "returned"]
  /\ UNCHANGED <<managerVars, timeVars, row, spawnVars, body, drained>>

\* The run's timeout elapses.
TimeOut(r) ==
  /\ r \in armed \ overdue
  /\ overdue' = overdue \cup {r}
  /\ ctx' = [ctx EXCEPT ![r] = IF @ = "live" THEN "expired" ELSE @]
  /\ UNCHANGED <<managerVars, row, spawnVars, body, closeVars>>

------------------------------------------------------------------------------
SpawnStep(r) ==
  \/ SpawnRegister(r) \/ SpawnInsert(r) \/ SpawnInsertFails(r) \/ SpawnForget(r)
  \/ SpawnStarted(r) \/ WaitBegin(r) \/ WaitReleased(r) \/ WaitTimer(r) \/ SpawnGet(r)

BodyStep(r) ==
  Start(r) \/ RecordRunning(r) \/ Arm(r) \/ RunnerStops(r) \/ Save(r) \/ Tell(r)

Next ==
  \/ \E r \in Runs : \/ SpawnBegin(r) \/ SpawnStep(r)
                     \/ BodyStep(r) \/ RunnerReturns(r)
                     \/ Abort(r) \/ TimeOut(r)
  \/ \E c \in Closers : Close(c) \/ CloseReturn(c)

Spec == Init /\ [][Next]_vars

\* Goroutines that can move are run, time passes, and the runner stops when its context
\* is done (the contract stated at type Runner). Nobody has to call Spawn, Abort or
\* Close, and nothing makes a provider answer.
FairSpec ==
  /\ Spec
  /\ \A r \in Runs : WF_vars(SpawnStep(r)) /\ WF_vars(BodyStep(r))
  /\ \A c \in Closers : WF_vars(CloseReturn(c))

------------------------------------------------------------------------------
(* Properties. *)

\* The table and the manager tell one story: a final status is written to a row only
\* as the manager has it, and a run that got as far as its runner has its row
\* written before anybody is released by its end.
RowsFollowRuns ==
  \A r \in Runs :
    /\ row[r] \in Final => row[r] = status[r]
    /\ body[r] = "done" /\ r \in armed => row[r] = status[r]

\* No caller of Spawn sees "pending": Spawn returns once the run is past it.
SpawnsReturnStarted ==
  \A r \in Runs : spawn[r] = "returned" => answer[r] \in Final \cup {"running"}

\* When the first Close has returned, no run has a runner, is about to get one, or has
\* a row still to be written, although a Spawn that looked at closed before Close
\* took the lock may register its run, and start it, afterwards.
CloseIsComplete ==
  (\E c \in Closers : closer[c] = "returned") =>
    \A r \in Runs : body[r] \in {"none", "start", "done"}

\* If time passes, every Spawn that got past its closed check returns, though the
\* provider never answers and whatever Abort and Close do meanwhile.
SpawnsReturn ==
  (\A r \in Runs : WF_vars(TimeOut(r))) =>
    \A r \in Runs : spawn[r] = "register" ~> spawn[r] \in {"returned", "failed"}

\* A run that Abort or Close cancelled ends, though the provider never answers and its
\* timeout is far away.
CancelledRunsEnd == \A r \in Runs : ctx[r] = "cancelled" ~> body[r] = "done"

\* If time passes, Close returns, except for a run it collected whose row could not be
\* inserted.
CloseReturns ==
  (\A r \in Runs : WF_vars(TimeOut(r))) =>
    \A c \in Closers :
      closer[c] = "drain" ~> \/ closer[c] = "returned"
                             \/ \E r \in drained : spawn[r] = "failed"

==============================================================================
