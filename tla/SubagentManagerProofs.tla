------------------------ MODULE SubagentManagerProofs ------------------------
(***************************************************************************)
(* Safety of SubagentManager, and of what SubagentTools tells the model,   *)
(* for every set of runs, of tasks and of closers; and, at the end, of the *)
(* other tools: what FileTools does to files and their index, and what     *)
(* Sandbox lets the tools open, for any calls, files, edits and sessions.  *)
(***************************************************************************)
EXTENDS MCTools, Sequences, WellFoundedInduction, TLAPS

(***************************************************************************)
(* The inductive invariant.                                                *)
(***************************************************************************)

\* How far Spawn and runSpec have got together.
Stages ==
  \A r \in Runs :
    /\ body[r] = "none" <=> spawn[r] \in {"idle", "register", "insert", "forget", "failed"}
    /\ spawn[r] \in {"wait", "waiting", "get", "returned"} =>
         body[r] \in {"run", "save", "tell", "done"}
    /\ body[r] # "none" \/ spawn[r] = "insert" => r \in runs
    /\ body[r] \in {"none", "start", "record", "arm"} => r \notin armed
    /\ body[r] \in {"run", "save", "tell"} => r \in armed

\* What the manager and the row say of a run at each place of runSpec.
Story ==
  \A r \in Runs :
    /\ body[r] = "none" => row[r] = "none"
    /\ body[r] \in {"start", "record"} => row[r] = "pending"
    /\ body[r] \in {"arm", "run", "save"} => row[r] = "running"
    /\ body[r] = "tell" => row[r] = status[r]
    /\ body[r] = "done" => row[r] = IF r \in armed THEN status[r] ELSE "pending"
    /\ body[r] \in {"record", "arm", "run"} => status[r] = "running"
    /\ body[r] \in {"save", "tell", "done"} => status[r] \in Final

\* A run that has a runner, or will get one, when the manager is closed is one that the
\* first closer waits for.
Draining ==
  /\ ~closed => \A c \in Closers : closer[c] = "idle"
  /\ closed => \A r \in Runs : body[r] \in {"record", "arm", "run", "save", "tell"} => r \in drained
  /\ \A c \in Closers : closer[c] = "returned" => \A r \in drained : body[r] = "done"

\* Spawn gets past Wait, and returns, with a run that has ended or that is overdue.
Waited ==
  \A r \in Runs \ Background :
    /\ spawn[r] = "get" => status[r] \in Final \/ r \in overdue
    /\ spawn[r] = "returned" => answer[r] \in Final \/ r \in overdue

IInv == TypeOK /\ Stages /\ Story /\ Draining /\ SpawnsReturnStarted /\ Waited

(***************************************************************************)
(* Steps.                                                                  *)
(***************************************************************************)

\* Every step keeps the types.
LEMMA TypeStep == IInv /\ [Next]_vars => TypeOK'
<1> SUFFICES ASSUME TypeOK, [Next]_vars PROVE TypeOK'
  BY DEF IInv
<1> USE DEF TypeOK, Statuses, Final, vars, managerVars, timeVars, spawnVars, closeVars
<1>1. ASSUME NEW r \in Runs, SpawnBegin(r) PROVE TypeOK'
  BY <1>1 DEF SpawnBegin
<1>2. ASSUME NEW r \in Runs, SpawnRegister(r) PROVE TypeOK'
  BY <1>2 DEF SpawnRegister
<1>3. ASSUME NEW r \in Runs, SpawnInsert(r) PROVE TypeOK'
  BY <1>3 DEF SpawnInsert
<1>4. ASSUME NEW r \in Runs, SpawnInsertFails(r) PROVE TypeOK'
  BY <1>4 DEF SpawnInsertFails
<1>5. ASSUME NEW r \in Runs, SpawnForget(r) PROVE TypeOK'
  BY <1>5 DEF SpawnForget
<1>6. ASSUME NEW r \in Runs, SpawnStarted(r) PROVE TypeOK'
  BY <1>6 DEF SpawnStarted
<1>7. ASSUME NEW r \in Runs, WaitBegin(r) PROVE TypeOK'
  BY <1>7 DEF WaitBegin
<1>8. ASSUME NEW r \in Runs, WaitReleased(r) PROVE TypeOK'
  BY <1>8 DEF WaitReleased
<1>9. ASSUME NEW r \in Runs, WaitTimer(r) PROVE TypeOK'
  BY <1>9 DEF WaitTimer
<1>10. ASSUME NEW r \in Runs, SpawnGet(r) PROVE TypeOK'
  BY <1>10 DEF SpawnGet
<1>11. ASSUME NEW r \in Runs, Start(r) PROVE TypeOK'
  BY <1>11 DEF Start
<1>12. ASSUME NEW r \in Runs, RecordRunning(r) PROVE TypeOK'
  BY <1>12 DEF RecordRunning
<1>13. ASSUME NEW r \in Runs, Arm(r) PROVE TypeOK'
  BY <1>13 DEF Arm
<1>14. ASSUME NEW r \in Runs, RunnerReturns(r) PROVE TypeOK'
  BY <1>14 DEF RunnerReturns, Settle, Verdicts
<1>15. ASSUME NEW r \in Runs, RunnerStops(r) PROVE TypeOK'
  BY <1>15 DEF RunnerStops, Settle, Verdicts
<1>16. ASSUME NEW r \in Runs, Save(r) PROVE TypeOK'
  BY <1>16 DEF Save
<1>17. ASSUME NEW r \in Runs, Tell(r) PROVE TypeOK'
  BY <1>17 DEF Tell
<1>18. ASSUME NEW r \in Runs, Abort(r) PROVE TypeOK'
  BY <1>18 DEF Abort, Cancelled
<1>19. ASSUME NEW c \in Closers, Close(c) PROVE TypeOK'
  <2>1. CASE closed
    BY <1>19, <2>1 DEF Close
  <2>2. CASE ~closed
    BY <1>19, <2>2 DEF Close, Cancelled
  <2>3. QED
    BY <2>1, <2>2
<1>20. ASSUME NEW c \in Closers, CloseReturn(c) PROVE TypeOK'
  BY <1>20 DEF CloseReturn
<1>21. ASSUME NEW r \in Runs, TimeOut(r) PROVE TypeOK'
  BY <1>21 DEF TimeOut
<1>22. CASE UNCHANGED vars
  BY <1>22
<1>23. QED
  BY <1>1, <1>2, <1>3, <1>4, <1>5, <1>6, <1>7, <1>8, <1>9, <1>10, <1>11, <1>12,
     <1>13, <1>14, <1>15, <1>16, <1>17, <1>18, <1>19, <1>20, <1>21, <1>22
     DEF Next, SpawnStep, BodyStep

\* Every step keeps Spawn and runSpec in stages that go together.
LEMMA StagesStep == IInv /\ [Next]_vars => Stages'
<1> SUFFICES ASSUME TypeOK, Stages, [Next]_vars PROVE Stages'
  BY DEF IInv
<1> USE DEF TypeOK, Stages, vars, managerVars, timeVars, spawnVars, closeVars
<1>1. ASSUME NEW r \in Runs, SpawnBegin(r) PROVE Stages'
  BY <1>1 DEF SpawnBegin
<1>2. ASSUME NEW r \in Runs, SpawnRegister(r) PROVE Stages'
  BY <1>2 DEF SpawnRegister
<1>3. ASSUME NEW r \in Runs, SpawnInsert(r) PROVE Stages'
  BY <1>3 DEF SpawnInsert
<1>4. ASSUME NEW r \in Runs, SpawnInsertFails(r) PROVE Stages'
  BY <1>4 DEF SpawnInsertFails
<1>5. ASSUME NEW r \in Runs, SpawnForget(r) PROVE Stages'
  BY <1>5 DEF SpawnForget
<1>6. ASSUME NEW r \in Runs, SpawnStarted(r) PROVE Stages'
  BY <1>6 DEF SpawnStarted
<1>7. ASSUME NEW r \in Runs, WaitBegin(r) PROVE Stages'
  BY <1>7 DEF WaitBegin
<1>8. ASSUME NEW r \in Runs, WaitReleased(r) PROVE Stages'
  BY <1>8 DEF WaitReleased
<1>9. ASSUME NEW r \in Runs, WaitTimer(r) PROVE Stages'
  BY <1>9 DEF WaitTimer
<1>10. ASSUME NEW r \in Runs, SpawnGet(r) PROVE Stages'
  BY <1>10 DEF SpawnGet
<1>11. ASSUME NEW r \in Runs, Start(r) PROVE Stages'
  BY <1>11 DEF Start
<1>12. ASSUME NEW r \in Runs, RecordRunning(r) PROVE Stages'
  BY <1>12 DEF RecordRunning
<1>13. ASSUME NEW r \in Runs, Arm(r) PROVE Stages'
  BY <1>13 DEF Arm
<1>14. ASSUME NEW r \in Runs, RunnerReturns(r) PROVE Stages'
  BY <1>14 DEF RunnerReturns, Settle, Verdicts
<1>15. ASSUME NEW r \in Runs, RunnerStops(r) PROVE Stages'
  BY <1>15 DEF RunnerStops, Settle, Verdicts
<1>16. ASSUME NEW r \in Runs, Save(r) PROVE Stages'
  BY <1>16 DEF Save
<1>17. ASSUME NEW r \in Runs, Tell(r) PROVE Stages'
  BY <1>17 DEF Tell
<1>18. CASE UNCHANGED <<runs, armed, spawn, body>>
  BY <1>18
<1>19. QED
  BY <1>1, <1>2, <1>3, <1>4, <1>5, <1>6, <1>7, <1>8, <1>9, <1>10, <1>11, <1>12,
     <1>13, <1>14, <1>15, <1>16, <1>17, <1>18
     DEF Next, SpawnStep, BodyStep, Abort, Close, CloseReturn, TimeOut

\* Every step keeps the manager's and the table's story.
LEMMA StoryStep == IInv /\ [Next]_vars => Story'
<1> SUFFICES ASSUME TypeOK, Stages, Story, [Next]_vars PROVE Story'
  BY DEF IInv
<1> USE DEF TypeOK, Stages, Story, Final, vars, managerVars, timeVars, spawnVars, closeVars
<1>1. ASSUME NEW r \in Runs, SpawnRegister(r) PROVE Story'
  BY <1>1 DEF SpawnRegister
<1>2. ASSUME NEW r \in Runs, SpawnInsert(r) PROVE Story'
  BY <1>2 DEF SpawnInsert
<1>3. ASSUME NEW r \in Runs, Start(r) PROVE Story'
  BY <1>3 DEF Start
<1>4. ASSUME NEW r \in Runs, RecordRunning(r) PROVE Story'
  BY <1>4 DEF RecordRunning
<1>5. ASSUME NEW r \in Runs, Arm(r) PROVE Story'
  BY <1>5 DEF Arm
<1>6. ASSUME NEW r \in Runs, RunnerReturns(r) PROVE Story'
  BY <1>6 DEF RunnerReturns, Settle, Verdicts
<1>7. ASSUME NEW r \in Runs, RunnerStops(r) PROVE Story'
  BY <1>7 DEF RunnerStops, Settle, Verdicts
<1>8. ASSUME NEW r \in Runs, Save(r) PROVE Story'
  BY <1>8 DEF Save
<1>9. ASSUME NEW r \in Runs, Tell(r) PROVE Story'
  BY <1>9 DEF Tell
<1>10. CASE UNCHANGED <<status, armed, row, body>>
  BY <1>10
<1>11. QED
  BY <1>1, <1>2, <1>3, <1>4, <1>5, <1>6, <1>7, <1>8, <1>9, <1>10
     DEF Next, SpawnStep, BodyStep, SpawnBegin, SpawnInsertFails, SpawnForget,
         SpawnStarted, WaitBegin, WaitReleased, WaitTimer, SpawnGet, Abort, Close,
         CloseReturn, TimeOut

\* Every step keeps the first closer's account.
LEMMA DrainingStep == IInv /\ [Next]_vars => Draining'
<1> SUFFICES ASSUME TypeOK, Stages, Draining, [Next]_vars PROVE Draining'
  BY DEF IInv
<1> USE DEF TypeOK, Stages, Draining, vars, managerVars, timeVars, spawnVars, closeVars
<1>1. ASSUME NEW r \in Runs, SpawnInsert(r) PROVE Draining'
  BY <1>1 DEF SpawnInsert
<1>2. ASSUME NEW r \in Runs, Start(r) PROVE Draining'
  BY <1>2 DEF Start
<1>3. ASSUME NEW r \in Runs, RecordRunning(r) PROVE Draining'
  BY <1>3 DEF RecordRunning
<1>4. ASSUME NEW r \in Runs, Arm(r) PROVE Draining'
  BY <1>4 DEF Arm
<1>5. ASSUME NEW r \in Runs, RunnerReturns(r) PROVE Draining'
  BY <1>5 DEF RunnerReturns, Settle, Verdicts
<1>6. ASSUME NEW r \in Runs, RunnerStops(r) PROVE Draining'
  BY <1>6 DEF RunnerStops, Settle, Verdicts
<1>7. ASSUME NEW r \in Runs, Save(r) PROVE Draining'
  BY <1>7 DEF Save
<1>8. ASSUME NEW r \in Runs, Tell(r) PROVE Draining'
  BY <1>8 DEF Tell
<1>9. ASSUME NEW c \in Closers, Close(c) PROVE Draining'
  BY <1>9 DEF Close, Cancelled
<1>10. ASSUME NEW c \in Closers, CloseReturn(c) PROVE Draining'
  BY <1>10 DEF CloseReturn
<1>11. CASE UNCHANGED <<closed, body, closer, drained>>
  BY <1>11
<1>12. QED
  BY <1>1, <1>2, <1>3, <1>4, <1>5, <1>6, <1>7, <1>8, <1>9, <1>10, <1>11
     DEF Next, SpawnStep, BodyStep, SpawnBegin, SpawnRegister, SpawnInsertFails,
         SpawnForget, SpawnStarted, WaitBegin, WaitReleased, WaitTimer, SpawnGet,
         Abort, TimeOut

\* Every step keeps what Spawn has returned.
LEMMA StartedStep == IInv /\ [Next]_vars => SpawnsReturnStarted'
<1> SUFFICES ASSUME TypeOK, Stages, Story, SpawnsReturnStarted, [Next]_vars PROVE SpawnsReturnStarted'
  BY DEF IInv
<1> USE DEF TypeOK, SpawnsReturnStarted, Stages, Story, Final, vars, managerVars, timeVars, spawnVars, closeVars
<1>1. ASSUME NEW r \in Runs, SpawnBegin(r) PROVE SpawnsReturnStarted'
  BY <1>1 DEF SpawnBegin
<1>2. ASSUME NEW r \in Runs, SpawnRegister(r) PROVE SpawnsReturnStarted'
  BY <1>2 DEF SpawnRegister
<1>3. ASSUME NEW r \in Runs, SpawnInsert(r) PROVE SpawnsReturnStarted'
  BY <1>3 DEF SpawnInsert
<1>4. ASSUME NEW r \in Runs, SpawnInsertFails(r) PROVE SpawnsReturnStarted'
  BY <1>4 DEF SpawnInsertFails
<1>5. ASSUME NEW r \in Runs, SpawnForget(r) PROVE SpawnsReturnStarted'
  BY <1>5 DEF SpawnForget
<1>6. ASSUME NEW r \in Runs, SpawnStarted(r) PROVE SpawnsReturnStarted'
  BY <1>6 DEF SpawnStarted
<1>7. ASSUME NEW r \in Runs, WaitBegin(r) PROVE SpawnsReturnStarted'
  BY <1>7 DEF WaitBegin
<1>8. ASSUME NEW r \in Runs, WaitReleased(r) PROVE SpawnsReturnStarted'
  BY <1>8 DEF WaitReleased
<1>9. ASSUME NEW r \in Runs, WaitTimer(r) PROVE SpawnsReturnStarted'
  BY <1>9 DEF WaitTimer
<1>10. ASSUME NEW r \in Runs, SpawnGet(r) PROVE SpawnsReturnStarted'
  BY <1>10 DEF SpawnGet
<1>11. CASE UNCHANGED <<spawn, answer>>
  BY <1>11
<1>12. QED
  BY <1>1, <1>2, <1>3, <1>4, <1>5, <1>6, <1>7, <1>8, <1>9, <1>10, <1>11
     DEF Next, SpawnStep, BodyStep, Start, RecordRunning, Arm, RunnerReturns,
         RunnerStops, Settle, Save, Tell, Abort, Close, CloseReturn, TimeOut

\* Every step keeps what a Spawn that waits has seen.
LEMMA WaitedStep == IInv /\ [Next]_vars => Waited'
<1> SUFFICES ASSUME TypeOK, Stages, Story, Waited, [Next]_vars PROVE Waited'
  BY DEF IInv
<1> USE DEF TypeOK, Waited, Stages, Story, Final, vars, managerVars, timeVars, spawnVars, closeVars
<1>1. ASSUME NEW r \in Runs, SpawnBegin(r) PROVE Waited'
  BY <1>1 DEF SpawnBegin
<1>2. ASSUME NEW r \in Runs, SpawnRegister(r) PROVE Waited'
  BY <1>2 DEF SpawnRegister
<1>3. ASSUME NEW r \in Runs, SpawnInsert(r) PROVE Waited'
  BY <1>3 DEF SpawnInsert
<1>4. ASSUME NEW r \in Runs, SpawnInsertFails(r) PROVE Waited'
  BY <1>4 DEF SpawnInsertFails
<1>5. ASSUME NEW r \in Runs, SpawnForget(r) PROVE Waited'
  BY <1>5 DEF SpawnForget
<1>6. ASSUME NEW r \in Runs, SpawnStarted(r) PROVE Waited'
  BY <1>6 DEF SpawnStarted
<1>7. ASSUME NEW r \in Runs, WaitBegin(r) PROVE Waited'
  BY <1>7 DEF WaitBegin
<1>8. ASSUME NEW r \in Runs, WaitReleased(r) PROVE Waited'
  BY <1>8 DEF WaitReleased
<1>9. ASSUME NEW r \in Runs, WaitTimer(r) PROVE Waited'
  BY <1>9 DEF WaitTimer
<1>10. ASSUME NEW r \in Runs, SpawnGet(r) PROVE Waited'
  BY <1>10 DEF SpawnGet
<1>11. ASSUME NEW r \in Runs, Start(r) PROVE Waited'
  BY <1>11 DEF Start
<1>12. ASSUME NEW r \in Runs, RunnerReturns(r) PROVE Waited'
  BY <1>12 DEF RunnerReturns, Settle, Verdicts
<1>13. ASSUME NEW r \in Runs, RunnerStops(r) PROVE Waited'
  BY <1>13 DEF RunnerStops, Settle, Verdicts
<1>14. ASSUME NEW r \in Runs, TimeOut(r) PROVE Waited'
  BY <1>14 DEF TimeOut
<1>15. CASE UNCHANGED <<status, overdue, spawn, answer>>
  BY <1>15
<1>16. QED
  BY <1>1, <1>2, <1>3, <1>4, <1>5, <1>6, <1>7, <1>8, <1>9, <1>10, <1>11, <1>12, <1>13,
     <1>14, <1>15
     DEF Next, SpawnStep, BodyStep, RecordRunning, Arm, Save, Tell, Abort, Close, CloseReturn

\* A Spawn that has returned stays so, with the answer it has, and a run that is overdue
\* stays overdue.
LEMMA ReturnsAreFinal ==
  ASSUME TypeOK, [Next]_vars, NEW r \in Runs
  PROVE  /\ r \in overdue => r \in overdue'
         /\ spawn[r] \in {"returned", "failed"} => spawn'[r] = spawn[r] /\ answer'[r] = answer[r]
<1> USE DEF TypeOK, vars, managerVars, timeVars, spawnVars, closeVars
<1>1. ASSUME NEW s \in Runs, SpawnBegin(s) \/ SpawnStep(s)
      PROVE  /\ overdue' = overdue
             /\ spawn[s] \notin {"returned", "failed"}
             /\ r # s => spawn'[r] = spawn[r] /\ answer'[r] = answer[r]
  BY <1>1 DEF SpawnStep, SpawnBegin, SpawnRegister, SpawnInsert, SpawnInsertFails, SpawnForget,
     SpawnStarted, WaitBegin, WaitReleased, WaitTimer, SpawnGet
<1>2. ASSUME NEW s \in Runs, BodyStep(s) \/ RunnerReturns(s) \/ Abort(s) \/ TimeOut(s)
      PROVE  overdue \subseteq overdue' /\ UNCHANGED spawnVars
  BY <1>2 DEF BodyStep, Start, RecordRunning, Arm, RunnerReturns, RunnerStops, Settle, Save,
     Tell, Abort, TimeOut
<1>3. ASSUME NEW c \in Closers, Close(c) \/ CloseReturn(c)
      PROVE  UNCHANGED <<overdue, spawnVars>>
  BY <1>3 DEF Close, CloseReturn
<1>4. CASE UNCHANGED vars
  BY <1>4
<1>5. QED
  BY <1>1, <1>2, <1>3, <1>4 DEF Next

\* The invariant holds at first.
LEMMA InitIInv == Init => IInv
<1> SUFFICES ASSUME Init PROVE IInv
  OBVIOUS
<1> USE DEF Init
<1>1. TypeOK
  BY DEF TypeOK, Statuses
<1>2. Stages /\ Story /\ Draining
  BY DEF Stages, Story, Draining
<1>3. SpawnsReturnStarted /\ Waited
  BY DEF SpawnsReturnStarted, Waited
<1>4. QED
  BY <1>1, <1>2, <1>3 DEF IInv

\* Every step keeps it.
LEMMA StepIInv == IInv /\ [Next]_vars => IInv'
BY TypeStep, StagesStep, StoryStep, DrainingStep, StartedStep, WaitedStep DEF IInv

(***************************************************************************)
(* Theorems.                                                               *)
(***************************************************************************)

\* Spawn, runSpec, the table and the closers agree in every reachable state.
THEOREM Inductive == Spec => []IInv
BY InitIInv, StepIInv, PTL DEF Spec

\* Every variable keeps its type.
THEOREM TypeCorrect == Spec => []TypeOK
<1>1. IInv => TypeOK
  BY DEF IInv
<1>2. QED
  BY <1>1, Inductive, PTL

\* The table never tells another ending than the manager, and the row of a run that had a
\* runner is written before anybody is released by its end.
THEOREM TableFollows == Spec => []RowsFollowRuns
<1>1. IInv => RowsFollowRuns
  <2> SUFFICES ASSUME IInv, NEW r \in Runs
               PROVE  /\ row[r] \in Final => row[r] = status[r]
                      /\ body[r] = "done" /\ r \in armed => row[r] = status[r]
    BY DEF RowsFollowRuns
  <2>1. body[r] \in {"none", "start", "record", "arm", "run", "save", "tell", "done"}
    BY DEF IInv, TypeOK
  <2>2. QED
    BY <2>1 DEF IInv, Story, Final
<1>2. QED
  BY <1>1, Inductive, PTL

\* No caller of Spawn is told "pending".
THEOREM StartedAnswers == Spec => []SpawnsReturnStarted
<1>1. IInv => SpawnsReturnStarted
  BY DEF IInv
<1>2. QED
  BY <1>1, Inductive, PTL

\* Once a Close has waited and returned, nothing has a runner or will get one.
THEOREM Completeness == Spec => []CloseIsComplete
<1>1. IInv => CloseIsComplete
  <2> SUFFICES ASSUME IInv, NEW c \in Closers, closer[c] = "returned", NEW r \in Runs
               PROVE  body[r] \in {"none", "start", "done"}
    BY DEF CloseIsComplete
  <2>1. closed /\ \A s \in drained : body[s] = "done"
    BY DEF IInv, Draining
  <2>2. body[r] \in {"record", "arm", "run", "save", "tell"} => r \in drained
    BY <2>1 DEF IInv, Draining
  <2>3. QED
    BY <2>1, <2>2 DEF IInv, TypeOK
<1>2. QED
  BY <1>1, Inductive, PTL

(***************************************************************************)
(* The tools.                                                              *)
(***************************************************************************)

\* A section has something stored only when its Spawn has returned, and an answer is
\* given only when every section has its info.
Stored ==
  /\ \A t \in Tasks : section[t] # {} => spawn[t] \in {"returned", "failed"}
  /\ tool = "answered" => \A t \in Tasks : "info" \in section[t]

\* What was told of a task.
Replies ==
  \A t \in Tasks : reply[t] # "pending" /\ (reply[t] = "running" => t \in overdue)

ToolInv == ToolTypeOK /\ Stored /\ Replies

\* Whatever the tools do, the manager takes its own steps.
LEMMA ToolsUseTheManager == ToolSpec => Spec
<1>1. ToolInit => Init
  BY DEF ToolInit
<1>2. [ToolNext]_allVars => [Next]_vars
  BY DEF ToolNext, Manager, Parallel, Store, Answer, Expire, Cancel, allVars
<1>3. QED
  BY <1>1, <1>2, PTL DEF ToolSpec, Spec

\* What would be told of the tasks is never "pending", and "running" only of one that is
\* overdue.
LEMMA AssembledIsTrue ==
  ASSUME IInv, ToolInv
  PROVE  /\ Assembled \in [Tasks -> Statuses \cup {"untold", "blank", "failed"}]
         /\ \A t \in Tasks : /\ Assembled[t] # "pending"
                             /\ Assembled[t] = "running" => t \in overdue
<1> SUFFICES ASSUME NEW t \in Tasks
             PROVE  /\ Assembled[t] \in (Statuses \ {"pending"}) \cup {"blank", "failed"}
                    /\ Assembled[t] = "running" => t \in overdue
  BY DEF Assembled
<1>1. t \in Runs /\ t \notin Background
  BY ToolsAssumption
<1>2. CASE "text" \in section[t] /\ spawn[t] = "returned"
  <2>1. answer[t] \in Final \cup {"running"} /\ (answer[t] \in Final \/ t \in overdue)
    BY <1>1, <1>2 DEF IInv, SpawnsReturnStarted, Waited
  <2>2. Assembled[t] = answer[t]
    BY <1>1, <1>2 DEF Assembled, Told
  <2>3. QED
    BY <2>1, <2>2 DEF Statuses, Final
<1>3. CASE "text" \in section[t] /\ spawn[t] = "failed"
  BY <1>3 DEF Assembled, Told
<1>4. CASE "text" \notin section[t]
  BY <1>4 DEF Assembled
<1>5. QED
  BY <1>2, <1>3, <1>4 DEF ToolInv, Stored

\* Every step keeps what is stored and told.
LEMMA ToolStep == IInv /\ ToolInv /\ [ToolNext]_allVars => ToolInv'
<1> SUFFICES ASSUME IInv, ToolInv, [ToolNext]_allVars PROVE ToolInv'
  OBVIOUS
<1> USE DEF ToolInv, ToolTypeOK, Stored, Replies
<1>1. CASE Manager \/ UNCHANGED allVars
  <2>1. [Next]_vars /\ UNCHANGED <<tool, section, reply>>
    BY <1>1 DEF Manager, allVars, toolVars
  <2>2. \A t \in Tasks : /\ t \in overdue => t \in overdue'
                         /\ spawn[t] \in {"returned", "failed"} => spawn'[t] = spawn[t]
    BY <2>1, ReturnsAreFinal, ToolsAssumption DEF IInv
  <2>3. QED
    BY <2>1, <2>2
<1>2. CASE Parallel
  BY <1>2 DEF Parallel, vars, timeVars, spawnVars
<1>3. ASSUME NEW t \in Tasks, Store(t) PROVE ToolInv'
  BY <1>3 DEF Store, vars, timeVars, spawnVars
<1>4. CASE Answer
  BY <1>4, AssembledIsTrue DEF Answer, vars, timeVars, spawnVars
<1>5. CASE Expire
  BY <1>5, AssembledIsTrue DEF Expire, vars, timeVars, spawnVars
<1>6. CASE Cancel
  BY <1>6 DEF Cancel, vars, timeVars, spawnVars
<1>7. QED
  BY <1>1, <1>2, <1>3, <1>4, <1>5, <1>6 DEF ToolNext

\* What the model is told of a run it waited for is how the run ended, unless the run's
\* timeout elapsed first, and an answer leaves out nothing that was stored.
THEOREM RepliesTold == ToolSpec => []RepliesAreTrue
<1>1. ToolInit => ToolInv
  BY DEF ToolInit, ToolInv, ToolTypeOK, Stored, Replies
<1>2. ToolSpec => []IInv
  BY ToolsUseTheManager, Inductive, PTL
<1>3. IInv /\ ToolInv => RepliesAreTrue
  <2> SUFFICES ASSUME IInv, ToolInv PROVE RepliesAreTrue
    OBVIOUS
  <2>1. ASSUME NEW r \in Runs \ Tasks, spawn[r] = "returned"
        PROVE  Told(r) \in Final \cup {"started"} \/ r \in overdue
    BY <2>1 DEF Told, IInv, Waited
  <2>2. SectionsAreWhole
    BY DEF ToolInv, Stored, SectionsAreWhole
  <2>3. QED
    BY <2>1, <2>2 DEF RepliesAreTrue, RepliesTellTheEnd, ToolInv, Replies
<1>4. QED
  BY <1>1, <1>2, <1>3, ToolStep, PTL DEF ToolSpec

-----------------------------------------------------------------------------
(***************************************************************************)
(* The tools that change files.                                            *)
(***************************************************************************)

\* A set of numbers has a least one: what stands in for induction below.
LEMMA Least ==
    ASSUME NEW N \in SUBSET Nat, NEW k \in N
    PROVE  \E n \in N : \A m \in N : n <= m
<1> DEFINE Less == {p \in Nat \X Nat : p[1] < p[2]}
<1>1. IsWellFoundedOn(Less, Nat)
  BY NatLessThanWellFounded DEF OpToRel
<1>2. PICK n \in N : \A m \in N : ~ (<<m, n>> \in Less)
  <2> HIDE DEF Less
  <2>1. QED
    BY <1>1, WFMin
<1>3. \A m \in N : ~ (m < n)
  BY <1>2
<1>4. QED
  BY <1>3

\* One step of the recursion by which Applied is defined, and a table g of its first n.
EditStep(start, edits, g, i) ==
    IF i = 0 THEN start
    ELSE IF g[i - 1] = None \/ edits[i].old \notin g[i - 1] THEN None
    ELSE F!Edited(g[i - 1], edits[i])

Steps(start, edits, n, g) == g = [i \in 0 .. n |-> EditStep(start, edits, g, i)]

\* The recursion has a solution for every list of edits.
LEMMA EditsApply ==
    ASSUME NEW start, NEW edits, NEW n \in Nat
    PROVE  \E g : Steps(start, edits, n, g)
<1> DEFINE Bad == {k \in Nat : ~\E g : Steps(start, edits, k, g)}
<1>1. SUFFICES ASSUME n \in Bad PROVE FALSE
  OBVIOUS
<1>2. PICK m \in Bad : \A k \in Bad : m <= k
  <2> HIDE DEF Bad
  <2>1. Bad \in SUBSET Nat
    BY DEF Bad
  <2>2. QED
    BY <1>1, <2>1, Least
<1>3. m \in Nat /\ ~\E g : Steps(start, edits, m, g)
  BY <1>2
<1>4. CASE m = 0
  <2> DEFINE g == [i \in 0 .. 0 |-> start]
  <2>1. \A i \in 0 .. 0 : start = EditStep(start, edits, g, i)
    BY DEF EditStep
  <2>2. Steps(start, edits, 0, g)
    BY <2>1 DEF Steps
  <2>3. QED
    BY <1>3, <1>4, <2>2
<1>5. CASE m # 0
  <2>1. m - 1 \in Nat /\ ~ (m <= m - 1)
    BY <1>3, <1>5
  <2>2. PICK g : Steps(start, edits, m - 1, g)
    <3>1. m - 1 \notin Bad
      <4> HIDE DEF Bad
      <4>1. QED
        BY <1>2, <2>1
    <3>2. QED
      BY <2>1, <3>1
  <2>3. \A i \in 0 .. m - 1 : g[i] = EditStep(start, edits, g, i)
    BY <2>2 DEF Steps
  <2> DEFINE h == [i \in 0 .. m |-> EditStep(start, edits, g, i)]
  <2>4. \A i \in 0 .. m : EditStep(start, edits, h, i) = EditStep(start, edits, g, i)
    <3> TAKE i \in 0 .. m
    <3>1. i # 0 => i - 1 \in 0 .. m - 1 /\ i - 1 \in 0 .. m
      BY <1>3
    <3>2. i # 0 => h[i - 1] = g[i - 1]
      <4> HIDE DEF Bad
      <4>1. QED
        BY <2>3, <3>1
    <3> HIDE DEF h
    <3>3. QED
      BY <3>2 DEF EditStep
  <2>5. h = [i \in 0 .. m |-> EditStep(start, edits, h, i)]
    BY <2>4
  <2> HIDE DEF h
  <2>6. QED
    BY <1>3, <2>5 DEF Steps
<1>6. QED
  BY <1>4, <1>5

\* What edits make of a content is a content, or nothing.
LEMMA AppliedIs ==
    ASSUME NEW start \in F!Contents \cup {None},
           NEW edits \in Seq([old : Texts, new : Texts \cup {None}])
    PROVE  F!Applied(start, edits) \in F!Contents \cup {None}
<1> DEFINE N == Len(edits)
           after == CHOOSE g : Steps(start, edits, N, g)
           Bad == {i \in 0 .. N : after[i] \notin F!Contents \cup {None}}
<1>1. N \in Nat /\ \A i \in 1 .. N : edits[i] \in [old : Texts, new : Texts \cup {None}]
  <2> DEFINE E == [old : Texts, new : Texts \cup {None}]
  <2>1. edits \in Seq(E)
    OBVIOUS
  <2> HIDE DEF E
  <2>2. N \in Nat /\ \A i \in 1 .. N : edits[i] \in E
    BY <2>1
  <2>3. QED
    BY <2>2 DEF E
<1>2. \E g : Steps(start, edits, N, g)
  <2> HIDE DEF N
  <2>1. QED
    BY <1>1, EditsApply
<1>3. F!Applied(start, edits) = after[N]
  BY DEF F!Applied, Steps, EditStep
<1> HIDE DEF N
<1>4. Steps(start, edits, N, after)
  BY <1>2
<1> HIDE DEF after
<1>5. \A i \in 0 .. N : after[i] = EditStep(start, edits, after, i)
  BY <1>4 DEF Steps
<1>6. SUFFICES ASSUME NEW k \in Bad PROVE FALSE
  BY <1>1, <1>3
<1>7. PICK m \in Bad : \A i \in Bad : m <= i
  <2>1. Bad \in SUBSET Nat
    BY <1>1
  <2> HIDE DEF Bad
  <2>2. QED
    BY <2>1, Least
<1>8. m \in 1 .. N
  BY <1>1, <1>5, <1>7 DEF EditStep
<1>9. m - 1 \in 0 .. N /\ m - 1 \notin Bad
  BY <1>1, <1>7, <1>8
<1>10. after[m - 1] \in F!Contents \cup {None}
  BY <1>9
<1>11. EditStep(start, edits, after, m) \in F!Contents \cup {None}
  BY <1>1, <1>8, <1>10 DEF EditStep, F!Edited, F!Contents
<1>12. QED
  BY <1>5, <1>7, <1>11

-----------------------------------------------------------------------------
Writers == [place : {"truncate", "write", "invalidate"}, file : Files,
            new : F!Contents, at : Files \cup {None}]
Movers ==
    {r \in [place : {"rename", "remove", "invalidate"}, file : Files,
            to : Files, wrote : BOOLEAN] : r.file # r.to}
Indexers == [place : {"index", "store"}, file : Files,
             got : F!Contents \cup {None}, overtaken : BOOLEAN]
Failures == [place : {"failed"}, file : Files, wrote : BOOLEAN]
Torns == [place : {"torn"}, file : Files]

\* What a call can be doing.
Doings == {F!Idle} \cup Writers \cup Movers \cup Indexers \cup Failures \cup Torns

FilesTyped ==
    /\ disk \in [Files -> F!Contents \cup {None}]
    /\ indexed \in [Files -> F!Contents \cup {None}]
    /\ excused \subseteq Files
    /\ \A c \in Calls : call[c] \in Doings

\* What has been read to be indexed is what the file holds, or it was overtaken.
Fresh(r) == r.place = "store" => r.overtaken \/ r.got = disk[r.file]

\* A move that can still fail has left its source, and so has a failed call.
Harmless(r) == r.place \in {"rename", "remove", "failed"} => ~r.wrote

\* A file that is open for writing exists, unless its name is gone.
Open(r) == r.place = "write" /\ r.at # None => disk[r.at] # None

\* The files that call r will drop from the index, or has said it changed: while it
\* removes its source, only the copy.
Covers(r) ==
    IF r.place \in {"write", "invalidate"}
      THEN {r.file} \cup IF "to" \in DOMAIN r THEN {r.to} ELSE {}
    ELSE IF r.place = "remove" THEN {r.to} ELSE {}

Stale == {f \in Files : indexed[f] # None /\ indexed[f] # disk[f]}

Explained == \A f \in Stale : f \in excused \/ \E c \in Calls : f \in Covers(call[c])

FilesInv ==
    /\ FilesTyped /\ Explained
    /\ \A c \in Calls : Fresh(call[c]) /\ Harmless(call[c]) /\ Open(call[c])

\* What becomes of a call r while others move and the files of G change.
Aside(q, r, G) ==
    \/ q = r /\ (r.place = "store" => r.file \notin G)
    \/ r.place = "store" /\ q = [r EXCEPT !.overtaken = TRUE]
    \/ r.place = "write" /\ \E f \in Files \cup {None} : q = [r EXCEPT !.at = f]

\* The place of a call tells what it is doing.
LEMMA Places ==
    ASSUME NEW r \in Doings
    PROVE  /\ r.place \in {"truncate", "write"} => r \in Writers
           /\ r.place \in {"rename", "remove"} => r \in Movers
           /\ r.place = "invalidate" => r \in Writers \cup Movers
           /\ r.place \in {"index", "store"} => r \in Indexers
           /\ r.place = "failed" => r \in Failures
BY DEF Doings, F!Idle, Writers, Movers, Indexers, Failures, Torns

LEMMA AsideMeans ==
    ASSUME NEW r \in Doings, NEW q, NEW G, Aside(q, r, G)
    PROVE  /\ q \in Doings /\ Covers(q) = Covers(r)
           /\ Harmless(r) => Harmless(q)
           /\ q.place = "store" => q.overtaken \/ (q = r /\ r.file \notin G)
<1>1. CASE q = r /\ (r.place = "store" => r.file \notin G)
  BY <1>1
<1>2. CASE r.place = "store" /\ q = [r EXCEPT !.overtaken = TRUE]
  <2>1. r \in Indexers
    BY <1>2, Places
  <2>2. q \in Indexers /\ q.place = "store" /\ q.overtaken
    BY <1>2, <2>1 DEF Indexers
  <2>3. QED
    BY <1>2, <2>2 DEF Doings, Covers, Harmless
<1>3. CASE r.place = "write" /\ \E f \in Files \cup {None} : q = [r EXCEPT !.at = f]
  <2>1. r \in Writers
    BY <1>3, Places
  <2>2. q \in Writers /\ q.place = "write" /\ q.file = r.file /\ DOMAIN q = DOMAIN r
    BY <1>3, <2>1 DEF Writers
  <2>3. "to" \notin DOMAIN r
    BY <2>1 DEF Writers
  <2>4. QED
    BY <1>3, <2>2, <2>3 DEF Doings, Covers, Harmless
<1>4. QED
  BY <1>1, <1>2, <1>3 DEF Aside

\* A step in which only the calls of M move, and only the files of G change, keeps the
\* invariant if it does so for them.
LEMMA FilesKept ==
    ASSUME FilesInv, NEW M \in SUBSET Calls, NEW G,
           disk' \in [Files -> F!Contents \cup {None}],
           indexed' \in [Files -> F!Contents \cup {None}], excused' \subseteq Files,
           \A f \in Files \ G : disk'[f] = disk[f],
           \A d \in Calls \ M : Aside(call'[d], call[d], G), \A d \in Calls : Open(call[d])',
           \A c \in M : call'[c] \in Doings /\ Fresh(call[c])' /\ Harmless(call[c])',
           \A f \in Files :
               \/ indexed'[f] \in {None, disk'[f]}
               \/ f \in excused' \/ \E c \in M : f \in Covers(call'[c])
               \/ /\ f \notin G /\ indexed'[f] = indexed[f]
                  /\ f \in excused => f \in excused'
                  /\ \A c \in M : f \notin Covers(call[c])
    PROVE  FilesInv'
<1>1. \A d \in Calls \ M :
        /\ call'[d] \in Doings /\ Covers(call'[d]) = Covers(call[d]) /\ Harmless(call'[d])
        /\ call'[d].place = "store" =>
              call'[d].overtaken \/ (call'[d] = call[d] /\ call[d].file \notin G)
  BY AsideMeans DEF FilesInv, FilesTyped
<1>2. FilesTyped'
  BY <1>1 DEF FilesTyped
<1>3. ASSUME NEW d \in Calls PROVE Fresh(call[d])' /\ Harmless(call[d])'
  <2>1. CASE d \in M
    BY <2>1
  <2>2. CASE d \notin M
    <3>1. Harmless(call[d])'
      BY <1>1, <2>2 DEF Harmless
    <3>2. SUFFICES ASSUME call'[d].place = "store", ~call'[d].overtaken
                   PROVE  call'[d].got = disk'[call'[d].file]
      BY <3>1 DEF Fresh
    <3>3. call'[d] = call[d] /\ call[d].file \notin G /\ call[d].got = disk[call[d].file]
      BY <1>1, <2>2, <3>2 DEF FilesInv, Fresh
    <3>4. call[d].file \in Files
      BY <3>2, <3>3, Places DEF FilesInv, FilesTyped, Indexers
    <3>5. QED
      BY <3>3, <3>4
  <2>3. QED
    BY <2>1, <2>2
<1>4. ASSUME NEW f \in Files, indexed'[f] # None, indexed'[f] # disk'[f], f \notin excused'
      PROVE  \E c \in Calls : f \in Covers(call'[c])
  <2>1. CASE \E c \in M : f \in Covers(call'[c])
    BY <2>1
  <2>2. CASE /\ f \notin G /\ indexed'[f] = indexed[f]
             /\ f \in excused => f \in excused'
             /\ \A c \in M : f \notin Covers(call[c])
    <3>1. f \in Stale /\ f \notin excused
      BY <1>4, <2>2 DEF Stale
    <3>2. PICK d \in Calls : f \in Covers(call[d])
      BY <3>1 DEF FilesInv, Explained
    <3>3. QED
      BY <1>1, <2>2, <3>2
  <2>3. QED
    BY <1>4, <2>1, <2>2
<1>5. Explained'
  BY <1>4 DEF Explained, Stale
<1>6. QED
  BY <1>2, <1>3, <1>5 DEF FilesInv
\* What the model does to the calls that do not move.
LEMMA AfterAside ==
    ASSUME NEW c, NEW next, NEW G, NEW d \in Calls, d # c
    PROVE  Aside(F!After(c, next, G)[d], call[d], G)
BY DEF Aside, F!After, F!Reading

\* It keeps the writers' files open while no file goes away.
LEMMA AfterOpen ==
    ASSUME FilesInv, NEW c \in Calls, NEW next \in Doings, NEW G, F!Moves(c, next, G),
           \A f \in Files : disk[f] # None => disk'[f] # None,
           next.place = "write" /\ next.at # None => disk'[next.at] # None
    PROVE  \A d \in Calls : Open(call[d])'
<1> SUFFICES ASSUME NEW d \in Calls PROVE Open(call[d])'
  OBVIOUS
<1>1. CASE d = c
  <2>1. call'[d] = next
    BY <1>1 DEF F!Moves, F!After
  <2>2. QED
    BY <2>1 DEF Open
<1>2. CASE d # c
  <2>1. Aside(call'[d], call[d], G) /\ call[d] \in Doings
    BY <1>2, AfterAside DEF F!Moves, FilesInv, FilesTyped
  <2>2. call'[d] = call[d] \/ call'[d] = [call[d] EXCEPT !.overtaken = TRUE]
    BY <1>2 DEF F!Moves, F!After
  <2>3. call'[d].place = "write" => call'[d] = call[d] /\ call[d].at \in Files \cup {None}
    BY <2>1, <2>2, Places DEF Writers, Indexers, Aside
  <2>4. QED
    BY <2>3 DEF FilesInv, Open
<1>3. QED
  BY <1>1, <1>2

\* The writers of a moved file follow it, and nobody else is concerned.
LEMMA FollowAside ==
    ASSUME NEW calls, NEW d \in Calls, NEW G, NEW r \in Doings, Aside(calls[d], r, G),
           NEW f \in Files, NEW to \in Files \cup {None}
    PROVE  Aside(F!Follow(calls, f, to)[d], r, G)
<1>1. CASE calls[d].place # "write"
  BY <1>1 DEF F!Follow
<1>2. CASE calls[d].place = "write"
  <2>1. r.place = "write" /\ r \in Writers
    <3>1. r.place # "store"
      BY <1>2, Places DEF Aside, Indexers
    <3>2. CASE calls[d] = r
      BY <1>2, <3>2, Places
    <3>3. CASE r.place = "write"
      BY <3>3, Places
    <3>4. QED
      BY <3>1, <3>2, <3>3 DEF Aside
  <2>2. PICK g \in Files \cup {None} : calls[d] = [r EXCEPT !.at = g]
    <3>1. r = [r EXCEPT !.at = r.at] /\ r.at \in Files \cup {None}
      BY <2>1 DEF Writers
    <3>2. QED
      BY <2>1, <3>1 DEF Aside
  <2>3. F!Follow(calls, f, to)[d] \in {[r EXCEPT !.at = h] : h \in Files \cup {None}}
    BY <1>2, <2>1, <2>2 DEF F!Follow, Writers
  <2>4. QED
    BY <2>1, <2>3 DEF Aside
<1>3. QED
  BY <1>1, <1>2
\* A call that moves, and changes the files of G, keeps the invariant if all that is
\* left different from the index is told or covered, and no file goes away.
LEMMA Moved ==
    ASSUME FilesInv, NEW c \in Calls, NEW next \in Doings, NEW G, F!Moves(c, next, G),
           disk' \in [Files -> F!Contents \cup {None}],
           indexed' \in [Files -> F!Contents \cup {None}], excused' \subseteq Files,
           \A f \in Files \ G : disk'[f] = disk[f],
           \A f \in Files : disk[f] # None => disk'[f] # None,
           next.place = "write" /\ next.at # None => disk'[next.at] # None,
           next.place = "store" => next.overtaken \/ next.got = disk'[next.file],
           Harmless(next),
           \A f \in Files :
               \/ indexed'[f] \in {None, disk'[f]} \/ f \in excused' \/ f \in Covers(next)
               \/ /\ f \notin G /\ indexed'[f] = indexed[f] /\ f \notin Covers(call[c])
                  /\ f \in excused => f \in excused'
    PROVE  FilesInv'
<1>1. call'[c] = next
  BY DEF F!Moves, F!After
<1>2. \A d \in Calls \ {c} : Aside(call'[d], call[d], G)
  BY AfterAside DEF F!Moves
<1>3. \A d \in {c} : call'[d] \in Doings /\ Fresh(call[d])' /\ Harmless(call[d])'
  BY <1>1 DEF Fresh, Harmless
<1>4. \A d \in Calls : Open(call[d])'
  BY AfterOpen
<1>5. \A f \in Files :
         \/ indexed'[f] \in {None, disk'[f]}
         \/ f \in excused' \/ \E d \in {c} : f \in Covers(call'[d])
         \/ /\ f \notin G /\ indexed'[f] = indexed[f]
            /\ f \in excused => f \in excused'
            /\ \A d \in {c} : f \notin Covers(call[d])
  BY <1>1
<1>6. {c} \in SUBSET Calls
  OBVIOUS
<1>7. QED
  BY <1>2, <1>3, <1>4, <1>5, <1>6, FilesKept

\* A call that turns to something else, and leaves the files and the index alone.
LEMMA Turns ==
    ASSUME FilesInv, NEW c \in Calls, NEW next \in Doings, F!Moves(c, next, {}),
           UNCHANGED <<disk, indexed, excused>>,
           Fresh(next), Harmless(next), next.place # "write", Covers(call[c]) = {}
    PROVE  FilesInv'
<1>1. /\ disk' \in [Files -> F!Contents \cup {None}]
      /\ indexed' \in [Files -> F!Contents \cup {None}] /\ excused' \subseteq Files
  BY DEF FilesInv, FilesTyped
<1>2. next.place = "store" => next.overtaken \/ next.got = disk'[next.file]
  BY DEF Fresh
<1>3. QED
  BY <1>1, <1>2, Moved

\* A tool that edits has nothing on its hands before, and a content to write after.
LEMMA ChangeKeeps ==
    ASSUME FilesInv, NEW c \in Calls, NEW f \in Files, NEW new, F!Change(c, f, new),
           disk[f] # None => new \in F!Contents \cup {None}
    PROVE  FilesInv'
<1> DEFINE next == IF disk[f] = None \/ new = None THEN F!Refused(f)
                   ELSE F!Writer("truncate", f, new)
<1>1. F!Moves(c, next, {}) /\ UNCHANGED <<disk, indexed, excused>> /\ call[c] = F!Idle
  BY DEF F!Change
<1>2. next \in Doings /\ Fresh(next) /\ Harmless(next) /\ next.place # "write"
  BY DEF Doings, Writers, Failures, F!Refused, F!Writer, Fresh, Harmless
<1>3. Covers(call[c]) = {}
  BY <1>1 DEF Covers, F!Idle
<1> HIDE DEF next
<1>4. QED
  BY <1>1, <1>2, <1>3, Turns

\* The tools that edit.
LEMMA EditsKeep ==
    ASSUME FilesInv, F!EditsNameTexts, NEW c \in Calls, NEW f \in Files,
           \/ \E old \in Texts, new \in Texts : F!EditFile(c, f, old, new)
           \/ \E edits \in Scripts : F!MultiEdit(c, f, edits)
           \/ \E lines \in (SUBSET Texts) \ {{}} : F!DeleteRange(c, f, lines)
           \/ \E decl \in Texts : F!DeleteSymbol(c, f, decl)
           \/ \E anchor \in Texts, new \in Texts : F!NotebookEdit(c, f, anchor, "insert", new)
           \/ \E anchor \in Texts, new \in Texts \cup {None} :
                  F!NotebookEdit(c, f, anchor, "replace", new)
    PROVE  FilesInv'
<1>1. disk[f] \in F!Contents \cup {None}
  BY DEF FilesInv, FilesTyped
<1>2. CASE \E old \in Texts, new \in Texts : F!EditFile(c, f, old, new)
  <2>1. PICK old \in Texts, new \in Texts :
          F!Change(c, f, F!Applied(disk[f], <<[old |-> old, new |-> new]>>))
    BY <1>2 DEF F!EditFile
  <2>2. <<[old |-> old, new |-> new]>> \in Seq([old : Texts, new : Texts \cup {None}])
    OBVIOUS
  <2>3. QED
    BY <1>1, <2>1, <2>2, AppliedIs, ChangeKeeps
<1>3. CASE \E edits \in Scripts : F!MultiEdit(c, f, edits)
  <2>1. PICK edits \in Scripts : F!Change(c, f, F!Applied(disk[f], edits))
    BY <1>3 DEF F!MultiEdit
  <2>2. edits \in Seq([old : Texts, new : Texts \cup {None}])
    BY DEF F!EditsNameTexts
  <2>3. QED
    BY <1>1, <2>1, <2>2, AppliedIs, ChangeKeeps
<1>4. CASE \E lines \in (SUBSET Texts) \ {{}} : F!DeleteRange(c, f, lines)
  BY <1>1, <1>4, ChangeKeeps DEF F!DeleteRange, F!Contents
<1>5. CASE \E decl \in Texts : F!DeleteSymbol(c, f, decl)
  BY <1>1, <1>5, ChangeKeeps DEF F!DeleteSymbol, F!Contents
<1>6. CASE \E anchor \in Texts, new \in Texts : F!NotebookEdit(c, f, anchor, "insert", new)
  BY <1>1, <1>6, ChangeKeeps DEF F!NotebookEdit, F!Contents
<1>7. CASE \E anchor \in Texts, new \in Texts \cup {None} :
             F!NotebookEdit(c, f, anchor, "replace", new)
  BY <1>1, <1>7, ChangeKeeps DEF F!NotebookEdit, F!Edited, F!Contents
<1>8. QED
  BY <1>2, <1>3, <1>4, <1>5, <1>6, <1>7

\* A write truncates the file, which it then covers, and fills it under the name it has.
LEMMA WritesKeep ==
    ASSUME FilesInv, F!NoneIsNothing, NEW c \in Calls,
           \/ \E f \in Files, content \in F!Contents : F!WriteFile(c, f, content)
           \/ F!Truncate(c) \/ F!Write(c) \/ F!WriteFails(c)
    PROVE  FilesInv'
<1>1. CASE \E f \in Files, content \in F!Contents : F!WriteFile(c, f, content)
  <2>1. PICK f \in Files, content \in F!Contents : F!WriteFile(c, f, content)
    BY <1>1
  <2> DEFINE next == F!Writer("truncate", f, content)
  <2>2. F!Moves(c, next, {}) /\ UNCHANGED <<disk, indexed, excused>> /\ call[c] = F!Idle
    BY <2>1 DEF F!WriteFile
  <2>3. /\ next \in Doings /\ Fresh(next) /\ Harmless(next) /\ next.place # "write"
        /\ Covers(call[c]) = {}
    BY <2>2 DEF Doings, Writers, F!Writer, Fresh, Harmless, Covers, F!Idle
  <2> HIDE DEF next
  <2>4. QED
    BY <2>2, <2>3, Turns
<1>2. ASSUME F!Truncate(c), disk' = [disk EXCEPT ![call[c].file] = {}],
             F!Moves(c, [call[c] EXCEPT !.place = "write", !.at = call[c].file], {call[c].file})
      PROVE FilesInv'
  <2> DEFINE f == call[c].file
             next == [call[c] EXCEPT !.place = "write", !.at = f]
  <2>1. call[c] \in Writers /\ call[c].place = "truncate"
    BY <1>2, Places DEF F!Truncate, FilesInv, FilesTyped
  <2>2. /\ f \in Files /\ next \in Writers /\ next.place = "write"
        /\ next.file = f /\ next.at = f
    BY <2>1 DEF Writers
  <2>3. next \in Doings /\ f \in Covers(next)
    BY <2>2 DEF Doings, Covers
  <2>4. Covers(call[c]) = {}
    BY <2>1 DEF Covers
  <2>5. F!Moves(c, next, {f}) /\ disk' = [disk EXCEPT ![f] = {}] /\ UNCHANGED <<indexed, excused>>
    BY <1>2 DEF F!Truncate
  <2> HIDE DEF next, f
  <2>6. {} # None
    BY DEF F!NoneIsNothing, F!Contents
  <2>7. /\ \A g \in Files \ {f} : disk'[g] = disk[g]
        /\ disk'[f] = {} /\ \A g \in Files : disk[g] # None => disk'[g] # None
    BY <2>2, <2>5, <2>6 DEF FilesInv, FilesTyped
  <2>8. /\ disk' \in [Files -> F!Contents \cup {None}]
        /\ indexed' \in [Files -> F!Contents \cup {None}] /\ excused' \subseteq Files
    BY <2>5 DEF FilesInv, FilesTyped, F!Contents
  <2>9. Harmless(next) /\ next.place # "store"
    BY <2>2 DEF Harmless
  <2>10. QED
    BY <2>2, <2>3, <2>4, <2>5, <2>6, <2>7, <2>8, <2>9, Moved
<1>3. CASE F!Write(c)
  <2> DEFINE f == call[c].at
             next == [call[c] EXCEPT !.place = "invalidate"]
  <2>1. call[c] \in Writers /\ call[c].place = "write"
    BY <1>3, Places DEF F!Write, FilesInv, FilesTyped
  <2>2. /\ f \in Files \cup {None} /\ call[c].new \in F!Contents
        /\ next \in Writers /\ next.place = "invalidate"
        /\ call[c].file \in Files /\ next.file = call[c].file
    BY <2>1 DEF Writers
  <2>3. next \in Doings /\ Covers(next) = {call[c].file} /\ Covers(call[c]) = {call[c].file}
    BY <2>1, <2>2 DEF Doings, Covers, Writers
  <2>4. /\ F!Moves(c, next, {f}) /\ UNCHANGED indexed
        /\ excused' = excused \cup ({f} \ {call[c].file, None})
    BY <1>3 DEF F!Write
  <2>5. \/ f = None /\ UNCHANGED disk
        \/ f \in Files /\ \E new \in F!Contents : disk' = [disk EXCEPT ![f] = new]
    <3>1. CASE f = None
      BY <1>3, <3>1 DEF F!Write
    <3>2. CASE f # None
      <4>1. f \in Files /\ disk[f] \in F!Contents
        BY <2>1, <2>2, <3>2 DEF FilesInv, FilesTyped, Open
      <4>2. PICK tail \in SUBSET disk[f] : disk' = [disk EXCEPT ![f] = call[c].new \cup tail]
        BY <1>3, <3>2 DEF F!Write
      <4>3. call[c].new \cup tail \in F!Contents
        BY <2>2, <4>1, <4>2 DEF F!Contents
      <4>4. QED
        BY <4>1, <4>2, <4>3
    <3>3. QED
      BY <3>1, <3>2
  <2> HIDE DEF next, f
  <2>6. /\ \A g \in Files \ {f} : disk'[g] = disk[g]
        /\ \A g \in Files : disk[g] # None => disk'[g] # None
    BY <2>5 DEF FilesInv, FilesTyped, F!NoneIsNothing, F!Contents
  <2>7. /\ disk' \in [Files -> F!Contents \cup {None}]
        /\ indexed' \in [Files -> F!Contents \cup {None}] /\ excused' \subseteq Files
    BY <2>2, <2>4, <2>5 DEF FilesInv, FilesTyped, F!Contents
  <2>8. Harmless(next) /\ next.place \notin {"store", "write"}
    BY <2>2 DEF Harmless
  <2>9. \A g \in Files \ {f} : g \in excused => g \in excused'
    BY <2>4
  <2>10. f \in Files => f \in excused' \/ f = call[c].file
    BY <2>4 DEF F!NoneIsNothing
  <2>11. \A g \in Files :
           \/ indexed'[g] \in {None, disk'[g]} \/ g \in excused' \/ g \in Covers(next)
           \/ /\ g \notin {f} /\ indexed'[g] = indexed[g] /\ g \notin Covers(call[c])
              /\ g \in excused => g \in excused'
    BY <2>3, <2>4, <2>9, <2>10
  <2>12. QED
    BY <2>3, <2>4, <2>6, <2>7, <2>8, <2>11, Moved
<1>4. ASSUME F!Truncate(c), F!Moves(c, F!Refused(call[c].file), {}), UNCHANGED disk
      PROVE FilesInv'
  <2> DEFINE next == F!Refused(call[c].file)
  <2>1. call[c] \in Writers /\ call[c].place = "truncate" /\ UNCHANGED <<indexed, excused>>
    BY <1>4, Places DEF F!Truncate, FilesInv, FilesTyped
  <2>2. /\ next \in Doings /\ Fresh(next) /\ Harmless(next) /\ next.place # "write"
        /\ Covers(call[c]) = {}
    BY <2>1 DEF Doings, Writers, Failures, F!Refused, Fresh, Harmless, Covers
  <2>3. F!Moves(c, next, {}) /\ UNCHANGED <<disk, indexed, excused>>
    BY <1>4, <2>1
  <2> HIDE DEF next
  <2>4. QED
    BY <2>2, <2>3, Turns
<1>5. CASE F!WriteFails(c)
  <2> DEFINE f == call[c].at
             next == F!Torn(call[c].file)
  <2>1. call[c] \in Writers /\ call[c].place = "write"
    BY <1>5, Places DEF F!WriteFails, FilesInv, FilesTyped
  <2>2. f \in Files \cup {None} /\ call[c].new \in F!Contents /\ call[c].file \in Files
    BY <2>1 DEF Writers
  <2>3. /\ next \in Doings /\ next.place = "torn" /\ Covers(call[c]) = {call[c].file}
    BY <2>1, <2>2 DEF Doings, Torns, F!Torn, Covers, Writers
  <2>4. /\ F!Moves(c, next, {f}) /\ UNCHANGED indexed
        /\ excused' = excused \cup ({f, call[c].file} \ {None})
    BY <1>5 DEF F!WriteFails
  <2>5. \/ f = None /\ UNCHANGED disk
        \/ f \in Files /\ \E new \in F!Contents : disk' = [disk EXCEPT ![f] = new]
    <3>1. CASE f = None
      BY <1>5, <3>1 DEF F!WriteFails
    <3>2. CASE f # None
      <4>1. f \in Files /\ disk[f] \in F!Contents
        BY <2>1, <2>2, <3>2 DEF FilesInv, FilesTyped, Open
      <4>2. PICK piece \in SUBSET call[c].new, tail \in SUBSET disk[f] :
              disk' = [disk EXCEPT ![f] = piece \cup tail]
        BY <1>5, <3>2 DEF F!WriteFails
      <4>3. piece \cup tail \in F!Contents
        BY <2>2, <4>1, <4>2 DEF F!Contents
      <4>4. QED
        BY <4>1, <4>2, <4>3
    <3>3. QED
      BY <3>1, <3>2
  <2>6. f # None => f \in excused'
    BY <2>4
  <2>7. call[c].file # None
    BY <2>2 DEF F!NoneIsNothing
  <2>8. call[c].file \in excused'
    BY <2>4, <2>7
  <2>9. excused \subseteq excused' /\ excused' \subseteq Files
    BY <2>2, <2>4 DEF FilesInv, FilesTyped
  <2> HIDE DEF next, f
  <2>10. /\ \A g \in Files \ {f} : disk'[g] = disk[g]
         /\ \A g \in Files : disk[g] # None => disk'[g] # None
    BY <2>5 DEF FilesInv, FilesTyped, F!NoneIsNothing, F!Contents
  <2>11. /\ disk' \in [Files -> F!Contents \cup {None}]
         /\ indexed' \in [Files -> F!Contents \cup {None}]
    BY <2>4, <2>5 DEF FilesInv, FilesTyped
  <2>12. Harmless(next) /\ next.place \notin {"store", "write"}
    BY <2>3 DEF Harmless
  <2>13. \A g \in Files :
           \/ indexed'[g] \in {None, disk'[g]} \/ g \in excused' \/ g \in Covers(next)
           \/ /\ g \notin {f} /\ indexed'[g] = indexed[g] /\ g \notin Covers(call[c])
              /\ g \in excused => g \in excused'
    <3> TAKE g \in Files
    <3>1. CASE g = f
      BY <2>6, <2>7, <3>1 DEF F!NoneIsNothing
    <3>2. CASE g = call[c].file
      BY <2>8, <3>2
    <3>3. CASE g # f /\ g # call[c].file
      BY <2>3, <2>4, <2>9, <3>3
    <3>4. QED
      BY <3>1, <3>2, <3>3
  <2>14. QED
    BY <2>3, <2>4, <2>9, <2>10, <2>11, <2>12, <2>13, Moved
<1>6. F!Truncate(c) =>
        \/ /\ disk' = [disk EXCEPT ![call[c].file] = {}]
           /\ F!Moves(c, [call[c] EXCEPT !.place = "write", !.at = call[c].file], {call[c].file})
        \/ F!Moves(c, F!Refused(call[c].file), {}) /\ UNCHANGED disk
  BY DEF F!Truncate
<1>7. QED
  BY <1>1, <1>2, <1>3, <1>4, <1>5, <1>6
\* Who still writes to a file by its name after it was moved, or removed (`to' is None).
LEMMA FollowOpen ==
    ASSUME NEW calls, NEW d \in Calls, calls[d] \in Doings, NEW f \in Files,
           NEW to \in Files \cup {None}, F!Follow(calls, f, to)[d].place = "write"
    PROVE  LET q == F!Follow(calls, f, to)[d] IN
           q.at \in {to, None} \/ (q = calls[d] /\ q.at \notin {f, to})
<1>1. calls[d].place = "write" /\ calls[d] \in Writers
  <2>1. CASE calls[d].place = "write"
    BY <2>1, Places
  <2>2. CASE calls[d].place # "write"
    BY <2>2 DEF F!Follow
  <2>3. QED
    BY <2>1, <2>2
<1>2. QED
  BY <1>1 DEF F!Follow, Writers

\* A call that takes f away, to another name or to none, covers both, and is past harm.
LEMMA Taken ==
    ASSUME FilesInv, NEW c \in Calls, NEW next \in Doings, next.place = "invalidate",
           NEW f \in Files, NEW to \in Files \cup {None}, NEW G, f \in G, G \subseteq {f, to},
           call' = F!Follow(F!After(c, next, G), f, to),
           disk' \in [Files -> F!Contents \cup {None}], UNCHANGED <<indexed, excused>>,
           \A g \in Files \ G : disk'[g] = disk[g], to \in Files => disk'[to] # None,
           \A g \in Files : g \in G \/ g \in Covers(call[c]) => g \in Covers(next)
    PROVE  FilesInv'
<1> DEFINE calls == F!After(c, next, G)
<1>1. \A d \in Calls \ {c} : Aside(calls[d], call[d], G)
  BY AfterAside
<1>2. calls[c] = next /\ \A d \in Calls : calls[d] \in Doings
  BY <1>1, AsideMeans DEF F!After, FilesInv, FilesTyped
<1>3. \A d \in Calls \ {c} : Aside(call'[d], call[d], G)
  BY <1>1, FollowAside DEF FilesInv, FilesTyped
<1>4. call'[c] = next
  BY <1>2 DEF F!Follow
<1>5. \A d \in {c} : call'[d] \in Doings /\ Fresh(call[d])' /\ Harmless(call[d])'
  BY <1>4 DEF Fresh, Harmless
<1>6. ASSUME NEW d \in Calls, call'[d].place = "write", call'[d].at # None
      PROVE  disk'[call'[d].at] # None
  <2>1. call'[d].at = to \/ (call'[d] = calls[d] /\ call'[d].at \notin {f, to})
    BY <1>2, <1>6, FollowOpen
  <2>2. CASE call'[d] = calls[d] /\ call'[d].at \notin {f, to}
    <3>1. d # c
      BY <1>2, <1>6, <2>2
    <3>2. calls[d] = call[d]
      <4>1. calls[d] = [call[d] EXCEPT !.overtaken = TRUE] \/ calls[d] = call[d]
        BY <3>1 DEF F!After
      <4>2. call[d] \in Indexers => [call[d] EXCEPT !.overtaken = TRUE].place # "write"
        BY DEF Indexers
      <4>3. CASE call[d].place = "store"
        BY <1>6, <2>2, <4>1, <4>2, <4>3, Places DEF FilesInv, FilesTyped
      <4>4. CASE call[d].place # "store"
        BY <3>1, <4>4 DEF F!After, F!Reading
      <4>5. QED
        BY <4>3, <4>4
    <3>3. call[d].at \in Files /\ disk[call[d].at] # None
      BY <1>6, <2>2, <3>2, Places DEF FilesInv, FilesTyped, Writers, Open
    <3>4. QED
      BY <2>2, <3>2, <3>3
  <2>3. QED
    BY <1>6, <2>1, <2>2
<1>7. {c} \in SUBSET Calls /\ indexed' \in [Files -> F!Contents \cup {None}] /\ excused' \subseteq Files
  BY DEF FilesInv, FilesTyped
<1>8. \A g \in Files :
         \/ indexed'[g] \in {None, disk'[g]}
         \/ g \in excused' \/ \E d \in {c} : g \in Covers(call'[d])
         \/ /\ g \notin G /\ indexed'[g] = indexed[g]
            /\ g \in excused => g \in excused'
            /\ \A d \in {c} : g \notin Covers(call[d])
  BY <1>4
<1>9. \A d \in Calls : Open(call[d])'
  BY <1>6 DEF Open
<1> HIDE DEF calls
<1>10. QED
  BY <1>3, <1>5, <1>7, <1>8, <1>9, FilesKept

\* move_file keeps the invariant at each of its steps.
LEMMA MovesKeep ==
    ASSUME FilesInv, F!NoneIsNothing, NEW c \in Calls,
           \/ \E f \in Files, to \in Files : F!Move(c, f, to)
           \/ F!Rename(c) \/ F!CopyAcross(c) \/ F!RemoveSource(c)
    PROVE  FilesInv'
<1> DEFINE f == call[c].file
           to == call[c].to
<1>1. CASE \E g \in Files, h \in Files : F!Move(c, g, h)
  <2>1. PICK g \in Files, h \in Files : F!Move(c, g, h)
    BY <1>1
  <2> DEFINE next == IF disk[h] # None THEN F!Refused(g) ELSE F!Mover("rename", g, h)
  <2>2. F!Moves(c, next, {}) /\ UNCHANGED <<disk, indexed, excused>> /\ call[c] = F!Idle
    BY <2>1 DEF F!Move
  <2>3. /\ next \in Doings /\ Fresh(next) /\ Harmless(next) /\ next.place # "write"
        /\ Covers(call[c]) = {}
    BY <2>1, <2>2 DEF F!Move, Doings, Movers, Failures, F!Refused, F!Mover, Fresh, Harmless,
                      Covers, F!Idle
  <2> HIDE DEF next
  <2>4. QED
    BY <2>2, <2>3, Turns
<1>2. ASSUME call[c].place \in {"rename", "remove"}
      PROVE  /\ call[c] \in Movers /\ f \in Files /\ to \in Files /\ f # to /\ ~call[c].wrote
             /\ disk[f] \in F!Contents \cup {None}
  <2>1. call[c] \in Movers
    BY <1>2, Places DEF FilesInv, FilesTyped
  <2>2. QED
    BY <1>2, <2>1 DEF Movers, FilesInv, FilesTyped, Harmless
<1>3. ASSUME call[c].place \in {"rename", "remove"}
      PROVE  /\ F!Failure(c) \in Doings /\ Harmless(F!Failure(c))
             /\ F!Failure(c).place \notin {"write", "store"} /\ Fresh(F!Failure(c))
  <2>1. F!Failure(c) \in Failures /\ F!Failure(c).place = "failed" /\ ~F!Failure(c).wrote
    BY <1>2, <1>3 DEF F!Failure, Failures, Movers
  <2>2. QED
    BY <2>1 DEF Doings, Harmless, Fresh
<1>4. ASSUME F!Rename(c), disk[f] = None PROVE FilesInv'
  <2>1. F!Moves(c, F!Failure(c), {}) /\ UNCHANGED <<disk, indexed, excused>>
    BY <1>4 DEF F!Rename
  <2>2. Covers(call[c]) = {} /\ call[c].place \in {"rename", "remove"}
    BY <1>4 DEF F!Rename, Covers
  <2> DEFINE next == F!Failure(c)
  <2>3. /\ F!Moves(c, next, {}) /\ next \in Doings /\ Harmless(next) /\ Fresh(next)
        /\ next.place # "write"
    BY <1>3, <2>1, <2>2
  <2> HIDE DEF next
  <2>4. QED
    BY <2>1, <2>2, <2>3, Turns
<1>5. ASSUME F!Rename(c), disk[f] # None PROVE FilesInv'
  <2> DEFINE next == [call[c] EXCEPT !.place = "invalidate", !.wrote = TRUE]
             calls == F!After(c, next, {f, to})
  <2>1. /\ disk' = [disk EXCEPT ![to] = disk[f], ![f] = None] /\ UNCHANGED <<indexed, excused>>
        /\ call' = F!Follow(calls, f, to) /\ call[c].place = "rename"
    BY <1>5 DEF F!Rename
  <2>2. /\ next \in Doings /\ next.place = "invalidate" /\ Covers(next) = {f, to}
        /\ Covers(call[c]) = {}
    BY <1>2, <2>1 DEF Doings, Movers, Covers
  <2>3. /\ disk'[to] = disk[f] /\ \A g \in Files \ {f, to} : disk'[g] = disk[g]
        /\ disk' \in [Files -> F!Contents \cup {None}]
        /\ indexed' \in [Files -> F!Contents \cup {None}] /\ excused' \subseteq Files
    BY <1>2, <2>1 DEF FilesInv, FilesTyped
  <2> HIDE DEF next, calls, f, to
  <2>4. QED
    BY <1>2, <1>5, <2>1, <2>2, <2>3, Taken DEF calls
<1>6. ASSUME F!CopyAcross(c), disk' = [disk EXCEPT ![to] = disk[f]],
             F!Moves(c, [call[c] EXCEPT !.place = "remove"], {to}), UNCHANGED excused
      PROVE FilesInv'
  <2> DEFINE next == [call[c] EXCEPT !.place = "remove"]
  <2>1. call[c].place = "rename" /\ disk[f] # None /\ UNCHANGED indexed
    BY <1>6 DEF F!CopyAcross
  <2>2. /\ next \in Doings /\ next.place = "remove" /\ Covers(next) = {to}
        /\ ~next.wrote /\ Covers(call[c]) = {}
    BY <1>2, <2>1 DEF Doings, Movers, Covers
  <2>3. F!Moves(c, next, {to}) /\ Harmless(next)
    BY <1>6, <2>2 DEF Harmless
  <2> HIDE DEF next, f, to
  <2>4. /\ \A g \in Files \ {to} : disk'[g] = disk[g]
        /\ \A g \in Files : disk[g] # None => disk'[g] # None
    BY <1>2, <1>6, <2>1 DEF FilesInv, FilesTyped
  <2>5. /\ disk' \in [Files -> F!Contents \cup {None}]
        /\ indexed' \in [Files -> F!Contents \cup {None}] /\ excused' \subseteq Files
    BY <1>2, <1>6, <2>1 DEF FilesInv, FilesTyped
  <2>6. QED
    BY <1>6, <2>1, <2>2, <2>3, <2>4, <2>5, Moved
<1>7. ASSUME F!CopyAcross(c), NEW piece \in SUBSET disk[f], disk' = [disk EXCEPT ![to] = piece],
             F!Moves(c, F!Failure(c), {to}), excused' = excused \cup {to}
      PROVE FilesInv'
  <2>1. /\ call[c].place = "rename" /\ UNCHANGED indexed
        /\ Covers(call[c]) = {}
    BY <1>7 DEF F!CopyAcross, Covers
  <2>2. piece \in F!Contents /\ piece # None
    <3>1. disk[f] \in F!Contents
      BY <1>2, <1>7, <2>1 DEF F!CopyAcross
    <3>2. piece \in F!Contents
      BY <1>7, <3>1 DEF F!Contents
    <3>3. QED
      BY <3>2 DEF F!NoneIsNothing, F!Contents
  <2> HIDE DEF f, to
  <2>3. /\ \A g \in Files \ {to} : disk'[g] = disk[g]
        /\ \A g \in Files : disk[g] # None => disk'[g] # None
    BY <1>2, <1>7, <2>1, <2>2 DEF FilesInv, FilesTyped
  <2>4. /\ disk' \in [Files -> F!Contents \cup {None}]
        /\ indexed' \in [Files -> F!Contents \cup {None}] /\ excused' \subseteq Files
    BY <1>2, <1>7, <2>1, <2>2 DEF FilesInv, FilesTyped
  <2>5. QED
    BY <1>3, <1>7, <2>1, <2>3, <2>4, Moved
<1>8. ASSUME F!RemoveSource(c), disk' = [disk EXCEPT ![f] = None], UNCHANGED excused,
             call' = F!Follow(F!After(c, [call[c] EXCEPT !.place = "invalidate",
                                                       !.wrote = TRUE], {f}), f, None)
      PROVE FilesInv'
  <2> DEFINE next == [call[c] EXCEPT !.place = "invalidate", !.wrote = TRUE]
  <2>1. call[c].place = "remove" /\ UNCHANGED indexed
    BY <1>8 DEF F!RemoveSource
  <2>2. /\ next \in Doings /\ next.place = "invalidate" /\ Covers(next) = {f, to}
        /\ Covers(call[c]) = {to}
    BY <1>2, <2>1 DEF Doings, Movers, Covers
  <2>3. call' = F!Follow(F!After(c, next, {f}), f, None) /\ None \notin Files
    BY <1>8 DEF F!NoneIsNothing
  <2> HIDE DEF next, f, to
  <2>4. /\ \A g \in Files \ {f} : disk'[g] = disk[g]
        /\ disk' \in [Files -> F!Contents \cup {None}]
    BY <1>2, <1>8, <2>1 DEF FilesInv, FilesTyped
  <2>5. \A g \in Files : g \in {f} \/ g \in Covers(call[c]) => g \in Covers(next)
    BY <2>2
  <2>6. f \in Files /\ f \in {f} /\ {f} \subseteq {f, None} /\ UNCHANGED <<indexed, excused>>
    BY <1>2, <1>8, <2>1
  <2>7. None \in Files \cup {None} /\ (None \in Files => disk'[None] # None)
    BY <2>3
  <2>8. QED
    BY <2>2, <2>3, <2>4, <2>5, <2>6, <2>7, Taken
<1>9. ASSUME F!RemoveSource(c), F!Moves(c, F!Failure(c), {}), excused' = excused \cup {to},
             UNCHANGED disk
      PROVE FilesInv'
  <2>1. /\ call[c].place = "remove" /\ UNCHANGED indexed
        /\ Covers(call[c]) = {to}
    BY <1>9 DEF F!RemoveSource, Covers
  <2> HIDE DEF f, to
  <2>2. /\ disk' \in [Files -> F!Contents \cup {None}]
        /\ indexed' \in [Files -> F!Contents \cup {None}] /\ excused' \subseteq Files
    BY <1>2, <1>9, <2>1 DEF FilesInv, FilesTyped
  <2>3. QED
    BY <1>3, <1>9, <2>1, <2>2, Moved
<1>10. ASSUME F!CopyAcross(c), F!Moves(c, F!Failure(c), {}), UNCHANGED <<disk, excused>>
       PROVE FilesInv'
  <2>1. /\ Covers(call[c]) = {} /\ call[c].place = "rename"
        /\ UNCHANGED <<disk, indexed, excused>>
    BY <1>10 DEF F!CopyAcross, Covers
  <2> DEFINE next == F!Failure(c)
  <2>2. /\ F!Moves(c, next, {}) /\ next \in Doings /\ Harmless(next) /\ Fresh(next)
        /\ next.place # "write"
    BY <1>3, <1>10, <2>1
  <2> HIDE DEF next
  <2>3. QED
    BY <2>1, <2>2, Turns
<1>11. F!CopyAcross(c) =>
         \/ /\ disk' = [disk EXCEPT ![to] = disk[f]] /\ UNCHANGED excused
            /\ F!Moves(c, [call[c] EXCEPT !.place = "remove"], {to})
         \/ /\ \E piece \in SUBSET disk[f] : disk' = [disk EXCEPT ![to] = piece]
            /\ F!Moves(c, F!Failure(c), {to}) /\ excused' = excused \cup {to}
         \/ F!Moves(c, F!Failure(c), {}) /\ UNCHANGED <<disk, excused>>
  BY DEF F!CopyAcross
<1>12. F!CopyAcross(c) => FilesInv'
  <2> SUFFICES ASSUME F!CopyAcross(c) PROVE FilesInv'
    OBVIOUS
  <2> HIDE DEF f, to
  <2>1. QED
    BY <1>6, <1>7, <1>10, <1>11
<1>13. QED
  BY <1>1, <1>4, <1>5, <1>8, <1>9, <1>12 DEF F!RemoveSource
\* What a call does with the index.
LEMMA IndexKeeps ==
    ASSUME FilesInv, NEW c \in Calls,
           \/ F!Invalidate(c) \/ F!ReadToIndex(c) \/ F!Store(c)
           \/ \E f \in Files : F!LookUp(c, f)
    PROVE  FilesInv'
<1>1. CASE \E f \in Files : F!LookUp(c, f)
  <2>1. PICK f \in Files : F!LookUp(c, f)
    BY <1>1
  <2> DEFINE next == F!Indexer("index", f, None)
  <2>2. F!Moves(c, next, {}) /\ UNCHANGED <<disk, indexed, excused>> /\ call[c] = F!Idle
    BY <2>1 DEF F!LookUp
  <2>3. /\ next \in Doings /\ Fresh(next) /\ Harmless(next) /\ next.place # "write"
        /\ Covers(call[c]) = {}
    BY <2>2 DEF Doings, Indexers, F!Indexer, Fresh, Harmless, Covers, F!Idle
  <2> HIDE DEF next
  <2>4. QED
    BY <2>2, <2>3, Turns
<1>2. F!Idle \in Doings /\ Fresh(F!Idle) /\ Harmless(F!Idle) /\ F!Idle.place \notin {"write", "store"}
  BY DEF Doings, F!Idle, Fresh, Harmless
<1>3. CASE F!ReadToIndex(c)
  <2> DEFINE f == call[c].file
             next == IF disk[f] = None THEN F!Idle ELSE F!Indexer("store", f, disk[f])
  <2>1. /\ F!Moves(c, next, {}) /\ UNCHANGED <<disk, indexed, excused>>
        /\ call[c].place = "index"
    BY <1>3 DEF F!ReadToIndex
  <2>2. f \in Files /\ disk[f] \in F!Contents \cup {None}
    BY <2>1, Places DEF FilesInv, FilesTyped, Indexers
  <2>3. /\ F!Indexer("store", f, disk[f]) \in Doings
        /\ Fresh(F!Indexer("store", f, disk[f])) /\ Harmless(F!Indexer("store", f, disk[f]))
        /\ F!Indexer("store", f, disk[f]).place # "write"
    BY <2>2 DEF Doings, Indexers, F!Indexer, Fresh, Harmless
  <2>4. next \in Doings /\ Fresh(next) /\ Harmless(next) /\ next.place # "write"
    BY <1>2, <2>3
  <2>5. Covers(call[c]) = {}
    BY <2>1 DEF Covers
  <2> HIDE DEF next
  <2>6. QED
    BY <2>1, <2>4, <2>5, Turns
<1>4. CASE F!Store(c)
  <2> DEFINE f == call[c].file
  <2>1. /\ call[c].place = "store" /\ F!Moves(c, F!Idle, {}) /\ UNCHANGED disk
        /\ \/ UNCHANGED <<indexed, excused>>
           \/ /\ indexed' = [indexed EXCEPT ![f] = call[c].got]
              /\ excused' = IF call[c].overtaken THEN excused \cup {f} ELSE excused
    BY <1>4 DEF F!Store
  <2>2. f \in Files /\ call[c].got \in F!Contents \cup {None}
    BY <2>1, Places DEF FilesInv, FilesTyped, Indexers
  <2>3. call[c].overtaken \/ call[c].got = disk[f]
    BY <2>1 DEF FilesInv, Fresh
  <2>4. Covers(call[c]) = {}
    BY <2>1 DEF Covers
  <2> HIDE DEF f
  <2>5. /\ disk' \in [Files -> F!Contents \cup {None}]
        /\ indexed' \in [Files -> F!Contents \cup {None}] /\ excused' \subseteq Files
    BY <2>1, <2>2 DEF FilesInv, FilesTyped
  <2>6. \A g \in Files :
          \/ indexed'[g] = disk'[g] \/ g \in excused'
          \/ indexed'[g] = indexed[g] /\ (g \in excused => g \in excused')
    BY <2>1, <2>2, <2>3 DEF FilesInv, FilesTyped
  <2>7. QED
    BY <1>2, <2>1, <2>4, <2>5, <2>6, Moved
<1>5. CASE F!Invalidate(c)
  <2>1. /\ call[c].place = "invalidate" /\ F!Moves(c, F!Idle, {}) /\ UNCHANGED disk
        /\ indexed' = [f \in Files |-> IF f \in F!Touched(c) THEN None ELSE indexed[f]]
        /\ excused' = excused \ F!Touched(c)
    BY <1>5 DEF F!Invalidate
  <2>2. Covers(call[c]) = F!Touched(c)
    BY <2>1 DEF Covers, F!Touched
  <2>3. /\ disk' \in [Files -> F!Contents \cup {None}]
        /\ indexed' \in [Files -> F!Contents \cup {None}] /\ excused' \subseteq Files
    BY <2>1 DEF FilesInv, FilesTyped
  <2>4. \A g \in Files :
          \/ indexed'[g] = None
          \/ /\ indexed'[g] = indexed[g] /\ g \notin Covers(call[c])
             /\ g \in excused => g \in excused'
    BY <2>1, <2>2
  <2>5. QED
    BY <1>2, <2>1, <2>3, <2>4, Moved
<1>6. QED
  BY <1>1, <1>3, <1>4, <1>5

\* What others do: another workspace empties the index, a command changes a file.
LEMMA OthersKeep ==
    ASSUME FilesInv, F!NoneIsNothing,
           F!ClearIndex \/ \E f \in Files, content \in F!Contents \cup {None} : F!Shell(f, content)
    PROVE  FilesInv'
<1>1. CASE F!ClearIndex
  <2>1. /\ UNCHANGED <<disk, call>> /\ \A f \in Files : indexed'[f] = None
        /\ indexed' \in [Files -> F!Contents \cup {None}] /\ excused' = {}
    BY <1>1 DEF F!ClearIndex
  <2>2. FilesTyped' /\ Explained'
    BY <2>1 DEF FilesInv, FilesTyped, Explained, Stale
  <2>3. \A c \in Calls : Fresh(call[c])' /\ Harmless(call[c])' /\ Open(call[c])'
    BY <2>1 DEF FilesInv, Fresh, Harmless, Open
  <2>4. QED
    BY <2>2, <2>3 DEF FilesInv
<1>2. CASE \E f \in Files, content \in F!Contents \cup {None} : F!Shell(f, content)
  <2>1. PICK f \in Files, content \in F!Contents \cup {None} : F!Shell(f, content)
    BY <1>2
  <2> DEFINE read == [d \in Calls |->
        IF F!Reading(d, f) THEN [call[d] EXCEPT !.overtaken = TRUE] ELSE call[d]]
  <2>2. /\ disk' = [disk EXCEPT ![f] = content] /\ UNCHANGED indexed
        /\ excused' = excused \cup {f}
        /\ call' = IF content = None THEN F!Follow(read, f, None) ELSE read
    BY <2>1 DEF F!Shell
  <2>3. \A d \in Calls : Aside(read[d], call[d], {f})
    BY DEF Aside, F!Reading
  <2>4. \A d \in Calls : read[d] \in Doings /\ call[d] \in Doings
    BY <2>3, AsideMeans DEF FilesInv, FilesTyped
  <2>5. \A d \in Calls : read[d].place = "write" => read[d] = call[d]
    <3> TAKE d \in Calls
    <3>1. read[d] = call[d] \/ (F!Reading(d, f) /\ read[d] = [call[d] EXCEPT !.overtaken = TRUE])
      OBVIOUS
    <3>2. call[d] \in Indexers => [call[d] EXCEPT !.overtaken = TRUE].place # "write"
      BY DEF Indexers
    <3>3. QED
      BY <2>4, <3>1, <3>2, Places DEF F!Reading
  <2> HIDE DEF read
  <2>6. \A d \in Calls : Aside(call'[d], call[d], {f})
    <3>1. \A d \in Calls : Aside(F!Follow(read, f, None)[d], call[d], {f})
      BY <2>3, <2>4, FollowAside
    <3>2. QED
      BY <2>2, <2>3, <3>1
  <2>7. ASSUME NEW d \in Calls, call'[d].place = "write", call'[d].at # None
        PROVE  disk'[call'[d].at] # None
    <3>1. call'[d] = read[d] /\ (call'[d].at # f \/ content # None)
      BY <2>2, <2>4, <2>7, FollowOpen
    <3>2. call[d].at \in Files /\ disk[call[d].at] # None /\ call'[d] = call[d]
      BY <2>4, <2>5, <2>7, <3>1, Places DEF FilesInv, Writers, Open
    <3>3. QED
      BY <2>2, <3>1, <3>2 DEF FilesInv, FilesTyped
  <2>8. /\ disk' \in [Files -> F!Contents \cup {None}]
        /\ indexed' \in [Files -> F!Contents \cup {None}] /\ excused' \subseteq Files
        /\ \A g \in Files \ {f} : disk'[g] = disk[g]
    BY <2>2 DEF FilesInv, FilesTyped
  <2>9. \A d \in Calls : Open(call[d])'
    BY <2>7 DEF Open
  <2>10. {} \in SUBSET Calls /\ \A d \in Calls \ {} : Aside(call'[d], call[d], {f})
    BY <2>6
  <2>11. \A g \in Files :
            g \in excused' \/ (g \notin {f} /\ indexed'[g] = indexed[g] /\ g \notin excused)
    BY <2>2
  <2>12. QED
    BY <2>8, <2>9, <2>10, <2>11, FilesKept
<1>3. QED
  BY <1>1, <1>2

\* Every step of the tools keeps the invariant.
LEMMA FilesStep == FilesInv /\ F!EditsNameTexts /\ F!NoneIsNothing /\ [F!Next]_fileVars => FilesInv'
<1> SUFFICES ASSUME FilesInv, F!EditsNameTexts, F!NoneIsNothing, [F!Next]_fileVars
             PROVE  FilesInv'
  OBVIOUS
<1>1. ASSUME NEW c \in Calls, F!Return(c) PROVE FilesInv'
  <2>1. /\ F!Moves(c, F!Idle, {}) /\ UNCHANGED <<disk, indexed, excused>>
        /\ call[c].place \in {"failed", "torn"}
    BY <1>1 DEF F!Return
  <2>2. /\ F!Idle \in Doings /\ Fresh(F!Idle) /\ Harmless(F!Idle) /\ F!Idle.place # "write"
        /\ Covers(call[c]) = {}
    BY <2>1 DEF Doings, F!Idle, Fresh, Harmless, Covers
  <2>3. QED
    BY <2>1, <2>2, Turns
<1>2. CASE UNCHANGED fileVars
  BY <1>2 DEF fileVars, FilesInv, FilesTyped, Explained, Stale, Fresh, Harmless, Open
<1>3. QED
  BY <1>1, <1>2, EditsKeep, WritesKeep, MovesKeep, IndexKeeps, OthersKeep DEF F!Next

\* At first nothing is indexed and nobody does anything.
LEMMA FilesInit == F!Init => FilesInv
BY DEF F!Init, FilesInv, FilesTyped, Explained, Stale, Fresh, Harmless, Open, Doings, F!Idle,
       F!Contents

\* The invariant says that the index differs from a file for a reason only.
LEMMA FilesSafe ==
    ASSUME FilesInv
    PROVE  F!TypeOK /\ F!StaleForAReason /\ F!FailuresLeaveTheFile
<1>1. F!TypeOK
  BY DEF FilesInv, FilesTyped, F!TypeOK, Doings, Writers, Movers, Indexers, Failures, Torns
<1>2. \A c \in Calls : Covers(call[c]) # {} =>
        /\ call[c].place \in {"write", "remove", "invalidate"}
        /\ Covers(call[c]) \subseteq F!Touched(c)
  <2> SUFFICES ASSUME NEW c \in Calls, Covers(call[c]) # {}
               PROVE  /\ call[c].place \in {"write", "remove", "invalidate"}
                      /\ Covers(call[c]) \subseteq F!Touched(c)
    OBVIOUS
  <2>1. call[c].place = "remove" => "to" \in DOMAIN call[c]
    BY Places DEF FilesInv, FilesTyped, Movers
  <2>2. QED
    BY <2>1 DEF Covers, F!Touched
<1>3. F!StaleForAReason
  BY <1>2 DEF FilesInv, Explained, Stale, F!StaleForAReason
<1>4. F!FailuresLeaveTheFile
  BY DEF FilesInv, Harmless, F!FailuresLeaveTheFile
<1>5. QED
  BY <1>1, <1>3, <1>4
-----------------------------------------------------------------------------
(***************************************************************************)
(* What the tools may open.                                                *)
(***************************************************************************)

\* Every grant and approval is one of a run that is still in progress.
Backed ==
    /\ \A p \in approvedPaths : \E s \in Sessions : run[s] # None /\ p \in run[s].allowed
    /\ \A p \in grantedReads : \E s \in Sessions : run[s] # None /\ p \in run[s].attached

SandboxInv == S!TypeOK /\ Backed /\ S!OpensAreLicensed

\* At first nothing is granted and nobody runs.
LEMMA SandboxInit == S!Init => SandboxInv
BY DEF S!Init, SandboxInv, S!TypeOK, Backed, S!OpensAreLicensed

\* What resolves is not excluded, and inside the root or licensed by a run.
LEMMA Resolved ==
    ASSUME SandboxInv, NEW mode \in S!Modes, NEW p \in Paths, S!Reaches(mode, p)
    PROVE  p \notin Excluded /\ (MCUnder[p] = root \/ S!Licensed(mode, p) # {})
<1>1. p \notin Excluded
  BY DEF S!Reaches, S!Resolves, S!ResolvesRead
<1>2. CASE p \in approvedPaths
  <2>1. PICK s \in Sessions : run[s] # None /\ p \in run[s].allowed
    BY <1>2 DEF SandboxInv, Backed
  <2>2. s \in S!Licensed(mode, p)
    BY <2>1 DEF S!Licensed
  <2>3. QED
    BY <1>1, <2>2
<1>3. CASE p \in grantedReads /\ mode # "write"
  <2>1. PICK s \in Sessions : run[s] # None /\ p \in run[s].attached
    BY <1>3 DEF SandboxInv, Backed
  <2>2. s \in S!Licensed(mode, p)
    BY <1>3, <2>1 DEF S!Licensed
  <2>3. QED
    BY <1>1, <2>2
<1>4. QED
  BY <1>1, <1>2, <1>3 DEF S!Reaches, S!Resolves, S!ResolvesRead

\* A call that is being evaluated.
LEMMA Asked ==
    ASSUME NEW mode \in S!Modes, NEW p \in Paths, NEW place \in {"ask", "execute"}
    PROVE  [mode |-> mode, path |-> p, licence |-> None, place |-> place] \in S!Tool
BY DEF S!Tool

\* Every step of the sandbox keeps the invariant.
LEMMA SandboxStep == SandboxInv /\ S!NoneIsNothing /\ [S!Next]_sandboxVars => SandboxInv'
<1> SUFFICES ASSUME SandboxInv, S!NoneIsNothing, [S!Next]_sandboxVars PROVE SandboxInv'
  OBVIOUS
<1> USE DEF SandboxInv, S!TypeOK, Backed, S!OpensAreLicensed
<1>1. ASSUME NEW s \in Sessions, NEW attached \in SUBSET Paths, S!BeginRun(s, attached)
      PROVE  SandboxInv'
  <2>1. [attached |-> attached, allowed |-> {}] \in S!RunGrants
    BY DEF S!RunGrants
  <2>2. QED
    BY <1>1, <2>1 DEF S!BeginRun, S!NoneIsNothing
<1>2. ASSUME NEW s \in Sessions, S!EndRun(s) PROVE SandboxInv'
  BY <1>2 DEF S!EndRun
<1>3. ASSUME NEW r \in Roots, S!SetRoot(r) PROVE SandboxInv'
  BY <1>3 DEF S!SetRoot
<1>4. ASSUME NEW s \in Sessions, NEW t \in S!Tool \cup {None}, run[s] # None,
             access' = [access EXCEPT ![s] = t],
             UNCHANGED <<root, grantedReads, approvedPaths, run>>,
             t # None /\ t.place = "open" =>
                 t.licence # {} /\ S!Opened(t.mode, t.path) \cap Excluded = {}
      PROVE  SandboxInv'
  BY <1>4
<1>5. ASSUME NEW s \in Sessions, NEW mode \in S!Modes, NEW p \in Paths, S!Evaluate(s, mode, p)
      PROVE  SandboxInv'
  <2> DEFINE t == [mode |-> mode, path |-> p, licence |-> None,
                   place |-> IF S!Reaches(mode, p) \/ p \in Excluded THEN "execute" ELSE "ask"]
  <2>1. t \in S!Tool /\ t.place # "open"
    BY Asked
  <2>2. /\ access' = [access EXCEPT ![s] = t] /\ run[s] # None
        /\ UNCHANGED <<root, grantedReads, approvedPaths, run>>
    BY <1>5 DEF S!Evaluate
  <2> HIDE DEF t
  <2>3. QED
    BY <1>4, <2>1, <2>2
<1>6. ASSUME NEW s \in Sessions, NEW p \in Paths, S!Search(s, p) PROVE SandboxInv'
  <2> DEFINE t == [mode |-> "search", path |-> p, licence |-> None, place |-> "execute"]
  <2>1. t \in S!Tool /\ t.place # "open"
    BY Asked DEF S!Modes
  <2>2. /\ access' = [access EXCEPT ![s] = t] /\ run[s] # None
        /\ UNCHANGED <<root, grantedReads, approvedPaths, run>>
    BY <1>6 DEF S!Search
  <2> HIDE DEF t
  <2>3. QED
    BY <1>4, <2>1, <2>2
<1>7. ASSUME NEW s \in Sessions, S!Deny(s) \/ S!Return(s) PROVE SandboxInv'
  <2>1. /\ access' = [access EXCEPT ![s] = None] /\ run[s] # None
        /\ UNCHANGED <<root, grantedReads, approvedPaths, run>>
    BY <1>7 DEF S!Deny, S!Return
  <2>2. QED
    BY <1>4, <2>1
<1>8. ASSUME NEW s \in Sessions, S!Allow(s) PROVE SandboxInv'
  <2> DEFINE p == access[s].path
             t == [access[s] EXCEPT !.place = "execute"]
             g == [run[s] EXCEPT !.allowed = @ \cup {p}]
  <2>1. access[s] \in S!Tool /\ run[s] \in S!RunGrants
    BY <1>8 DEF S!Allow
  <2>2. /\ p \in Paths /\ t \in S!Tool /\ t.place # "open" /\ g \in S!RunGrants
        /\ p \in g.allowed /\ run[s].allowed \subseteq g.allowed /\ g.attached = run[s].attached
    BY <2>1 DEF S!Tool, S!RunGrants
  <2>3. /\ access' = [access EXCEPT ![s] = t] /\ run' = [run EXCEPT ![s] = g]
        /\ approvedPaths' = approvedPaths \cup {p} /\ UNCHANGED <<root, grantedReads>>
    BY <1>8 DEF S!Allow
  <2>4. g # None
    BY <2>2 DEF S!NoneIsNothing
  <2> HIDE DEF p, t, g
  <2>5. S!TypeOK' /\ S!OpensAreLicensed'
    BY <2>2, <2>3, <2>4
  <2>6. ASSUME NEW q \in approvedPaths'
        PROVE  \E u \in Sessions : run'[u] # None /\ q \in run'[u].allowed
    BY <2>2, <2>3, <2>4
  <2>7. ASSUME NEW q \in grantedReads'
        PROVE  \E u \in Sessions : run'[u] # None /\ q \in run'[u].attached
    BY <2>2, <2>3, <2>4
  <2>8. QED
    BY <2>5, <2>6, <2>7
<1>9. ASSUME NEW s \in Sessions, S!Execute(s) PROVE SandboxInv'
  <2> DEFINE p == access[s].path
             mode == access[s].mode
             licence == IF MCUnder[p] = root THEN None ELSE S!Licensed(mode, p)
             opened == [access[s] EXCEPT !.place = "open", !.licence = licence]
             t == IF ~ S!Reaches(mode, p) THEN None ELSE opened
  <2>1. access[s] \in S!Tool /\ run[s] # None
    BY <1>9 DEF S!Execute
  <2>2. p \in Paths /\ mode \in S!Modes
    BY <2>1 DEF S!Tool
  <2>3. licence \in (SUBSET Sessions) \cup {None}
    <3> HIDE DEF p, mode, SandboxInv
    <3>1. S!Licensed(mode, p) \subseteq Sessions
      BY DEF S!Licensed
    <3>2. QED
      BY <3>1
  <2>4. /\ access' = [access EXCEPT ![s] = t]
        /\ UNCHANGED <<root, grantedReads, approvedPaths, run>>
    BY <1>9 DEF S!Execute
  <2>5. S!Reaches(mode, p) => licence # {} /\ S!Opened(mode, p) \cap Excluded = {}
    <3>1. {} # None
      <4>1. {} \in SUBSET Sessions /\ run[s] \in S!RunGrants
        BY <2>1
      <4>2. QED
        BY <4>1 DEF S!NoneIsNothing
    <3> HIDE DEF p, mode
    <3>2. QED
      BY <2>2, <3>1, Resolved DEF S!Opened, S!Walked
  <2> HIDE DEF licence
  <2>6. /\ opened \in S!Tool /\ opened.licence = licence /\ opened.mode = mode /\ opened.path = p
    BY <2>1, <2>3 DEF S!Tool
  <2> HIDE DEF p, mode, opened
  <2>7. /\ t \in S!Tool \cup {None}
        /\ t # None /\ t.place = "open" =>
             t.licence # {} /\ S!Opened(t.mode, t.path) \cap Excluded = {}
    BY <2>5, <2>6
  <2> HIDE DEF t
  <2>8. QED
    BY <1>4, <2>1, <2>4, <2>7
<1>10. CASE UNCHANGED sandboxVars
  BY <1>10 DEF sandboxVars
<1>11. QED
  BY <1>1, <1>2, <1>3, <1>5, <1>6, <1>7, <1>8, <1>9, <1>10 DEF S!Next

-----------------------------------------------------------------------------
\* Whatever any number of calls, sessions, shell commands and workspace changes do
\* between the steps of the tools: the symbol index differs from a file for a reason only,
\* a tool that reports an error has left the file it names as it was, unless the disk
\* failed a write already begun, and what is opened is inside the root or licensed by a
\* run in progress, and never excluded (fs.go, code_index.go, sandbox.go).
THEOREM Safeguarding == MCSpec => []FilesAreSafe
<1>1. MCInit => FilesInv /\ SandboxInv
  BY FilesInit, SandboxInit DEF MCInit
<1>2. /\ F!EditsNameTexts /\ F!NoneIsNothing /\ S!NoneIsNothing
  BY PartsAssumption
<1>3. FilesInv /\ SandboxInv /\ [MCNext]_<<fileVars, sandboxVars, allVars, part>>
        => FilesInv' /\ SandboxInv'
  <2>1. [MCNext]_<<fileVars, sandboxVars, allVars, part>>
          => [F!Next]_fileVars /\ [S!Next]_sandboxVars
    BY DEF MCNext
  <2>2. QED
    BY <1>2, <2>1, FilesStep, SandboxStep
<1>4. FilesInv /\ SandboxInv => FilesAreSafe
  BY FilesSafe DEF SandboxInv, FilesAreSafe
<1>5. QED
  BY <1>1, <1>3, <1>4, PTL DEF MCSpec
==============================================================================
