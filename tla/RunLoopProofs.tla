---------------------------- MODULE RunLoopProofs ----------------------------
(***************************************************************************)
(* Safety of RunLoop for every set of requests and of controllers.         *)
(***************************************************************************)
EXTENDS RunLoop, SequenceTheorems, TLAPS

(***************************************************************************)
(* Facts about queues without repetition.                                  *)
(***************************************************************************)

\* The empty queue parks nobody.
LEMMA EmptyQueue == Elems(<<>>) = {} /\ Distinct(<<>>)
  BY DEF Elems, Distinct

\* Appending a newcomer adds it, once.
LEMMA AppendQueue ==
  ASSUME NEW S, NEW q \in Seq(S), NEW e \in S
  PROVE  /\ Append(q, e) \in Seq(S)
         /\ Elems(Append(q, e)) = Elems(q) \cup {e}
         /\ Distinct(q) /\ e \notin Elems(q) => Distinct(Append(q, e))
<1>1. Append(q, e) \in Seq(S) /\ Len(Append(q, e)) = Len(q) + 1
  BY AppendProperties
<1>2. \A i \in 1 .. Len(q) : Append(q, e)[i] = q[i]
  BY AppendProperties
<1>3. Append(q, e)[Len(q) + 1] = e
  BY AppendProperties
<1>4. Len(q) \in Nat
  BY LenProperties
<1>5. Elems(Append(q, e)) = Elems(q) \cup {e}
  BY <1>1, <1>2, <1>3, <1>4 DEF Elems
<1>6. ASSUME Distinct(q), e \notin Elems(q) PROVE Distinct(Append(q, e))
  <2> SUFFICES ASSUME NEW i \in 1 .. Len(q) + 1, NEW j \in 1 .. Len(q) + 1,
                      Append(q, e)[i] = Append(q, e)[j]
               PROVE  i = j
    BY <1>1 DEF Distinct
  <2>1. \A k \in 1 .. Len(q) : q[k] # e
    BY <1>6 DEF Elems
  <2>2. CASE i \in 1 .. Len(q) /\ j \in 1 .. Len(q)
    BY <1>2, <1>6, <2>2 DEF Distinct
  <2>3. CASE i = Len(q) + 1 /\ j \in 1 .. Len(q)
    BY <1>2, <1>3, <2>1, <2>3
  <2>4. CASE i \in 1 .. Len(q) /\ j = Len(q) + 1
    BY <1>2, <1>3, <2>1, <2>4
  <2>5. QED
    BY <1>4, <2>2, <2>3, <2>4
<1>7. QED
  BY <1>1, <1>5, <1>6

\* Popping the head removes it, and only it.
LEMMA PopQueue ==
  ASSUME NEW S, NEW q \in Seq(S), q # <<>>, Distinct(q)
  PROVE  /\ Head(q) \in S /\ Tail(q) \in Seq(S)
         /\ Head(q) \in Elems(q)
         /\ Elems(Tail(q)) = Elems(q) \ {Head(q)}
         /\ Distinct(Tail(q))
<1>1. /\ Head(q) = q[1] /\ Head(q) \in S /\ Tail(q) \in Seq(S)
      /\ Len(q) \in Nat \ {0} /\ Len(Tail(q)) = Len(q) - 1
  BY HeadTailProperties, EmptySeq
<1>2. \A i \in 1 .. Len(q) - 1 : Tail(q)[i] = q[i + 1]
  BY HeadTailProperties
<1>3. Head(q) \in Elems(q)
  BY <1>1 DEF Elems
<1>4. Elems(Tail(q)) \subseteq Elems(q) \ {Head(q)}
  <2> SUFFICES ASSUME NEW i \in 1 .. Len(q) - 1
               PROVE  Tail(q)[i] \in Elems(q) /\ Tail(q)[i] # q[1]
    BY <1>1 DEF Elems
  <2>1. i + 1 \in 1 .. Len(q) /\ 1 \in 1 .. Len(q) /\ i + 1 # 1
    BY <1>1
  <2>2. QED
    BY <1>2, <2>1 DEF Elems, Distinct
<1>5. Elems(q) \ {Head(q)} \subseteq Elems(Tail(q))
  <2> SUFFICES ASSUME NEW i \in 1 .. Len(q), q[i] # q[1]
               PROVE  q[i] \in Elems(Tail(q))
    BY <1>1 DEF Elems
  <2>1. i - 1 \in 1 .. Len(q) - 1 /\ (i - 1) + 1 = i
    BY <1>1
  <2>2. QED
    BY <1>1, <1>2, <2>1 DEF Elems
<1>6. Distinct(Tail(q))
  <2> SUFFICES ASSUME NEW i \in 1 .. Len(q) - 1, NEW j \in 1 .. Len(q) - 1,
                      Tail(q)[i] = Tail(q)[j]
               PROVE  i = j
    BY <1>1 DEF Distinct
  <2>1. i + 1 \in 1 .. Len(q) /\ j + 1 \in 1 .. Len(q)
    BY <1>1
  <2>2. QED
    BY <1>1, <1>2, <2>1 DEF Distinct
<1>7. QED
  BY <1>1, <1>3, <1>4, <1>5, <1>6

(***************************************************************************)
(* The inductive invariant.                                                *)
(***************************************************************************)

\* Steers stand in one queue, follow-ups in the other, and neither outlives Close.
Sorted ==
  /\ Elems(steerQueue) \subseteq SteerReqs
  /\ Elems(followUpQueue) \cap SteerReqs = {}
  /\ closed => steerQueue = <<>> /\ followUpQueue = <<>>

\* What the run goroutine holds and what the agent is doing, at each of its places.
Resting == held = NoReq /\ activeRun = NoReq /\ promptCh = <<>> /\ ~agentRunning

Registered == held # NoReq /\ activeRun = held /\ curRunID = held

Placed ==
  /\ at \in {"pop", "select", "exited"} => Resting
  /\ at = "exited" => stopped
  /\ at = "popped" => held # NoReq /\ activeRun = NoReq /\ promptCh = <<>> /\ ~agentRunning
  /\ at = "registered" => Registered /\ promptCh = <<>> /\ ~agentRunning
  /\ at = "prompted" => Registered /\ promptCh = <<held>> /\ ~agentRunning
  /\ at = "conversing" => Registered /\ promptCh = <<>> /\ agentRunning /\ taken = held
  /\ at = "leaving" => Registered /\ promptCh = <<>> /\ ~agentRunning
  /\ \A r \in Reqs : fate[r] = "serving" <=> r = held

\* Whoever is about to cancel a turn captured it.
Captured ==
  /\ \A r \in Reqs : victim[r] # NoReq => victim[r] \in intended
  /\ \A r \in Reqs : caller[r] = "cancel" => victim[r] # NoReq
  /\ \A r \in Reqs : caller[r] = "idle" => fate[r] = "new" /\ victim[r] = NoReq
  /\ \A c \in Ctls : ctl[c] = "cancel" => aim[c] \in intended

\* How far each closer has got, and what that implies.
Closing ==
  /\ stopped => closed
  /\ \A c \in Ctls : ctl[c] \in {"stop", "wait", "returned"} => closed
  /\ \A c \in Ctls : ctl[c] = "returned" => at = "exited"

IInv == TypeOK /\ ParkedOnce /\ Sorted /\ Placed /\ Captured /\ Closing
        /\ CancelsOnlyCaptured

\* Every step keeps the types.
LEMMA TypeStep == IInv /\ [Next]_vars => TypeOK'
<1> SUFFICES ASSUME TypeOK, ParkedOnce, Placed, Captured, [Next]_vars PROVE TypeOK'
  BY DEF IInv
<1> USE RunLoopAssumption
    DEF TypeOK, Places, Fates, vars, loopVars, goVars, agentVars, callVars, ctlVars
<1>1. ASSUME NEW r \in Reqs, AdmitFollowUp(r) PROVE TypeOK'
  BY <1>1 DEF AdmitFollowUp
<1>2. ASSUME NEW r \in Reqs, AdmitSteer(r) PROVE TypeOK'
  BY <1>2 DEF AdmitSteer, Capture
<1>3. ASSUME NEW r \in Reqs, AdmitClosed(r) PROVE TypeOK'
  BY <1>3 DEF AdmitClosed
<1>4. ASSUME NEW r \in Reqs, Signal(r) PROVE TypeOK'
  BY <1>4 DEF Signal
<1>5. ASSUME NEW r \in Reqs, SteerCancel(r) PROVE TypeOK'
  BY <1>5 DEF SteerCancel, Captured
<1>6. ASSUME NEW c \in Ctls, NEW r \in Reqs, Stop(c, r) PROVE TypeOK'
  BY <1>6 DEF Stop, Capture, DropParked
<1>7. ASSUME NEW c \in Ctls, Abort(c) PROVE TypeOK'
  <2>1. /\ UNCHANGED <<activeRun, curRunID, closed, wake, stopped, cancelled, at, held>>
        /\ UNCHANGED <<promptCh, agentRunning, taken, caller, victim>>
        /\ intended' \in SUBSET Reqs
    BY <1>7 DEF Abort, Capture
  <2>2. /\ steerQueue' \in Seq(Reqs) /\ followUpQueue' \in Seq(Reqs)
        /\ fate' \in [Reqs -> Fates]
    BY <1>7 DEF Abort, DropParked
  <2>3. /\ ctl' \in [Ctls -> {"idle", "cancel", "stop", "wait", "returned"}]
        /\ aim' \in [Ctls -> Reqs \cup {NoReq}]
    BY <1>7 DEF Abort
  <2>4. QED
    BY <2>1, <2>2, <2>3
<1>8. ASSUME NEW c \in Ctls, ControlCancel(c) PROVE TypeOK'
  BY <1>8 DEF ControlCancel, Captured
<1>9. ASSUME NEW c \in Ctls, Close(c) PROVE TypeOK'
  BY <1>9 DEF Close, DropParked
<1>10. ASSUME NEW c \in Ctls, CloseStop(c) PROVE TypeOK'
  BY <1>10 DEF CloseStop
<1>11. ASSUME NEW c \in Ctls, CloseReturn(c) PROVE TypeOK'
  BY <1>11 DEF CloseReturn
<1>12. CASE Pop
  <2>1. /\ UNCHANGED <<activeRun, curRunID, closed, wake, stopped, cancelled, intended>>
        /\ UNCHANGED <<promptCh, agentRunning, taken, caller, victim, ctl, aim>>
    BY <1>12 DEF Pop
  <2>2. ASSUME NEW q \in Seq(Reqs), q # <<>>
        PROVE  Head(q) \in Reqs /\ Tail(q) \in Seq(Reqs)
    BY ONLY <2>2, HeadTailProperties
  <2>3. steerQueue' \in Seq(Reqs) /\ followUpQueue' \in Seq(Reqs)
    BY <1>12, <2>2 DEF Pop
  <2>4. at' \in Places /\ held' \in Reqs \cup {NoReq} /\ fate' \in [Reqs -> Fates]
    <3>1. ASSUME NEW r \in Reqs, Hold(r)
          PROVE  at' \in Places /\ held' \in Reqs \cup {NoReq} /\ fate' \in [Reqs -> Fates]
      BY <3>1 DEF Hold
    <3>2. \/ \E r \in Reqs : Hold(r)
          \/ at' = "select" /\ UNCHANGED <<held, fate>>
      BY <1>12, <2>2 DEF Pop
    <3>3. QED
      BY <3>1, <3>2
  <2>5. QED
    BY <2>1, <2>3, <2>4
<1>13. CASE Woken
  BY <1>13 DEF Woken
<1>14. CASE Exit
  BY <1>14 DEF Exit
<1>15. CASE Register
  BY <1>15 DEF Register
<1>16. CASE Prompt
  <2>1. held \in Reqs /\ Append(promptCh, held) \in Seq(Reqs)
    BY <1>16, AppendProperties DEF Prompt, Placed, Registered
  <2>2. QED
    BY <1>16, <2>1 DEF Prompt
<1>17. CASE Refused
  BY <1>17 DEF Refused, Placed, Registered
<1>18. CASE Dequeue
  <2>1. Head(promptCh) \in Reqs /\ Tail(promptCh) \in Seq(Reqs)
    BY <1>18, HeadTailProperties DEF Dequeue
  <2>2. QED
    BY <1>18, <2>1 DEF Dequeue
<1>19. CASE ConversationAborts
  BY <1>19 DEF ConversationAborts, EndRun, Placed, Registered
<1>20. CASE Leave
  BY <1>20 DEF Leave, Placed, Registered
<1>21. CASE ConversationEnds
  BY <1>21 DEF ConversationEnds, EndRun, Placed, Registered
<1>22. CASE UNCHANGED vars
  BY <1>22
<1>23. QED
  BY <1>1, <1>2, <1>3, <1>4, <1>5, <1>6, <1>7, <1>8, <1>9, <1>10, <1>11, <1>12, <1>13,
     <1>14, <1>15, <1>16, <1>17, <1>18, <1>19, <1>20, <1>21, <1>22
     DEF Next, CallerStep, ControlStep, GoStep

\* Every step keeps the queues sorted and each waiting request parked once.
LEMMA ParkingStep == IInv /\ [Next]_vars => ParkedOnce' /\ Sorted'
<1> SUFFICES ASSUME IInv, [Next]_vars PROVE ParkedOnce' /\ Sorted'
  OBVIOUS
<1> USE RunLoopAssumption
    DEF IInv, TypeOK, vars, loopVars, goVars, agentVars, callVars, ctlVars
<1>1. ASSUME NEW r \in Reqs, AdmitFollowUp(r) PROVE ParkedOnce' /\ Sorted'
  <2>1. r \notin Elems(steerQueue) \cup Elems(followUpQueue)
    BY <1>1 DEF AdmitFollowUp, ParkedOnce, Captured
  <2>2. /\ Elems(followUpQueue') = Elems(followUpQueue) \cup {r} /\ Distinct(followUpQueue')
        /\ steerQueue' = steerQueue
    BY <1>1, <2>1, AppendQueue DEF AdmitFollowUp, ParkedOnce
  <2>3. ~closed' /\ fate' = [fate EXCEPT ![r] = "waiting"]
    BY <1>1 DEF AdmitFollowUp
  <2>4. QED
    BY <1>1, <2>1, <2>2, <2>3 DEF AdmitFollowUp, ParkedOnce, Sorted
<1>2. ASSUME NEW r \in Reqs, AdmitSteer(r) PROVE ParkedOnce' /\ Sorted'
  <2>1. r \notin Elems(steerQueue) \cup Elems(followUpQueue)
    BY <1>2 DEF AdmitSteer, ParkedOnce, Captured
  <2>2. /\ Elems(steerQueue') = Elems(steerQueue) \cup {r} /\ Distinct(steerQueue')
        /\ followUpQueue' = followUpQueue
    BY <1>2, <2>1, AppendQueue DEF AdmitSteer, Capture, ParkedOnce
  <2>3. ~closed' /\ fate' = [fate EXCEPT ![r] = "waiting"]
    BY <1>2 DEF AdmitSteer
  <2>4. QED
    BY <1>2, <2>1, <2>2, <2>3 DEF AdmitSteer, ParkedOnce, Sorted
<1>3. ASSUME NEW r \in Reqs, AdmitClosed(r) PROVE ParkedOnce' /\ Sorted'
  BY <1>3 DEF AdmitClosed, ParkedOnce, Sorted, Placed, Captured
<1>4. ASSUME NEW r \in Reqs, Signal(r) PROVE ParkedOnce' /\ Sorted'
  BY <1>4 DEF Signal, ParkedOnce, Sorted, Placed, Captured
<1>5. ASSUME NEW r \in Reqs, SteerCancel(r) PROVE ParkedOnce' /\ Sorted'
  BY <1>5 DEF SteerCancel, ParkedOnce, Sorted, Placed, Captured
<1>6. ASSUME NEW c \in Ctls, NEW r \in Reqs, Stop(c, r) PROVE ParkedOnce' /\ Sorted'
  <2>1. steerQueue' = <<>> /\ followUpQueue' = <<>>
        /\ \A q \in Reqs : fate'[q] # "waiting"
    BY <1>6 DEF Stop, DropParked
  <2>2. QED
    BY <2>1, EmptyQueue DEF ParkedOnce, Sorted
<1>7. ASSUME NEW c \in Ctls, Abort(c) PROVE ParkedOnce' /\ Sorted'
  <2>1. steerQueue' = <<>> /\ followUpQueue' = <<>>
        /\ \A q \in Reqs : fate'[q] # "waiting"
    BY <1>7 DEF Abort, DropParked
  <2>2. QED
    BY <2>1, EmptyQueue DEF ParkedOnce, Sorted
<1>8. ASSUME NEW c \in Ctls, ControlCancel(c) PROVE ParkedOnce' /\ Sorted'
  BY <1>8 DEF ControlCancel, ParkedOnce, Sorted, Placed, Captured
<1>9. ASSUME NEW c \in Ctls, Close(c) PROVE ParkedOnce' /\ Sorted'
  <2>1. steerQueue' = <<>> /\ followUpQueue' = <<>>
        /\ \A q \in Reqs : fate'[q] # "waiting"
    BY <1>9 DEF Close, DropParked
  <2>2. QED
    BY <2>1, EmptyQueue DEF ParkedOnce, Sorted
<1>10. ASSUME NEW c \in Ctls, CloseStop(c) PROVE ParkedOnce' /\ Sorted'
  BY <1>10 DEF CloseStop, ParkedOnce, Sorted, Placed, Captured
<1>11. ASSUME NEW c \in Ctls, CloseReturn(c) PROVE ParkedOnce' /\ Sorted'
  BY <1>11 DEF CloseReturn, ParkedOnce, Sorted, Placed, Captured
<1>12. CASE Pop
  <2>1. ASSUME steerQueue # <<>>, Hold(Head(steerQueue)), steerQueue' = Tail(steerQueue),
               UNCHANGED <<followUpQueue, closed>>
        PROVE  ParkedOnce' /\ Sorted'
    <3>1. /\ Head(steerQueue) \in Elems(steerQueue) /\ Head(steerQueue) \in Reqs
          /\ Elems(steerQueue') = Elems(steerQueue) \ {Head(steerQueue)}
          /\ Distinct(steerQueue')
      BY <2>1, PopQueue DEF ParkedOnce
    <3>2. fate' = [fate EXCEPT ![Head(steerQueue)] = "serving"]
      BY <2>1 DEF Hold
    <3>3. QED
      BY <2>1, <3>1, <3>2 DEF ParkedOnce, Sorted
  <2>2. ASSUME followUpQueue # <<>>, Hold(Head(followUpQueue)),
               followUpQueue' = Tail(followUpQueue), UNCHANGED <<steerQueue, closed>>
        PROVE  ParkedOnce' /\ Sorted'
    <3>1. /\ Head(followUpQueue) \in Elems(followUpQueue) /\ Head(followUpQueue) \in Reqs
          /\ Elems(followUpQueue') = Elems(followUpQueue) \ {Head(followUpQueue)}
          /\ Distinct(followUpQueue')
      BY <2>2, PopQueue DEF ParkedOnce
    <3>2. fate' = [fate EXCEPT ![Head(followUpQueue)] = "serving"]
      BY <2>2 DEF Hold
    <3>3. QED
      BY <2>2, <3>1, <3>2 DEF ParkedOnce, Sorted
  <2>3. CASE UNCHANGED <<fate, steerQueue, followUpQueue, closed>>
    BY <2>3 DEF ParkedOnce, Sorted
  <2>4. QED
    BY <1>12, <2>1, <2>2, <2>3 DEF Pop
<1>13. CASE Woken
  BY <1>13 DEF Woken, ParkedOnce, Sorted, Placed, Captured
<1>14. CASE Exit
  BY <1>14 DEF Exit, ParkedOnce, Sorted, Placed, Captured
<1>15. CASE Register
  BY <1>15 DEF Register, ParkedOnce, Sorted, Placed, Captured
<1>16. CASE Prompt
  BY <1>16 DEF Prompt, AgentBusy, ParkedOnce, Sorted, Placed, Captured
<1>17. CASE Refused
  BY <1>17 DEF Refused, ParkedOnce, Sorted, Placed, Captured
<1>18. CASE Dequeue
  BY <1>18 DEF Dequeue, ParkedOnce, Sorted, Placed, Captured
<1>19. CASE ConversationAborts
  BY <1>19 DEF ConversationAborts, EndRun, ParkedOnce, Sorted, Placed, Captured
<1>20. CASE Leave
  BY <1>20 DEF Leave, ParkedOnce, Sorted, Placed, Captured
<1>21. CASE ConversationEnds
  BY <1>21 DEF ConversationEnds, EndRun, ParkedOnce, Sorted, Placed, Captured
<1>22. CASE UNCHANGED vars
  BY <1>22 DEF ParkedOnce, Sorted
<1>23. QED
  BY <1>1, <1>2, <1>3, <1>4, <1>5, <1>6, <1>7, <1>8, <1>9, <1>10, <1>11, <1>12, <1>13, <1>14, <1>15, <1>16, <1>17, <1>18, <1>19, <1>20, <1>21, <1>22
     DEF Next, CallerStep, ControlStep, GoStep

\* Every step leaves the run goroutine and the agent in step with each other.
LEMMA PlaceStep == IInv /\ [Next]_vars => Placed'
<1> SUFFICES ASSUME IInv, [Next]_vars PROVE Placed'
  OBVIOUS
<1> USE RunLoopAssumption
    DEF IInv, TypeOK, vars, loopVars, goVars, agentVars, callVars, ctlVars
<1>1. ASSUME NEW r \in Reqs, AdmitFollowUp(r) PROVE Placed'
  BY <1>1 DEF AdmitFollowUp, Placed, Registered, Resting, Captured, Closing, ParkedOnce
<1>2. ASSUME NEW r \in Reqs, AdmitSteer(r) PROVE Placed'
  BY <1>2 DEF AdmitSteer, Capture, Placed, Registered, Resting, Captured, Closing, ParkedOnce
<1>3. ASSUME NEW r \in Reqs, AdmitClosed(r) PROVE Placed'
  BY <1>3 DEF AdmitClosed, Placed, Registered, Resting, Captured, Closing, ParkedOnce
<1>4. ASSUME NEW r \in Reqs, Signal(r) PROVE Placed'
  BY <1>4 DEF Signal, Placed, Registered, Resting, Captured, Closing, ParkedOnce
<1>5. ASSUME NEW r \in Reqs, SteerCancel(r) PROVE Placed'
  BY <1>5 DEF SteerCancel, Placed, Registered, Resting, Captured, Closing, ParkedOnce
<1>6. ASSUME NEW c \in Ctls, NEW r \in Reqs, Stop(c, r) PROVE Placed'
  BY <1>6 DEF Stop, Capture, DropParked, Placed, Registered, Resting, Captured, Closing, ParkedOnce
<1>7. ASSUME NEW c \in Ctls, Abort(c) PROVE Placed'
  BY <1>7 DEF Abort, Capture, DropParked, Placed, Registered, Resting, Captured, Closing, ParkedOnce
<1>8. ASSUME NEW c \in Ctls, ControlCancel(c) PROVE Placed'
  BY <1>8 DEF ControlCancel, Placed, Registered, Resting, Captured, Closing, ParkedOnce
<1>9. ASSUME NEW c \in Ctls, Close(c) PROVE Placed'
  BY <1>9 DEF Close, DropParked, Placed, Registered, Resting, Captured, Closing, ParkedOnce
<1>10. ASSUME NEW c \in Ctls, CloseStop(c) PROVE Placed'
  BY <1>10 DEF CloseStop, Placed, Registered, Resting, Captured, Closing, ParkedOnce
<1>11. ASSUME NEW c \in Ctls, CloseReturn(c) PROVE Placed'
  BY <1>11 DEF CloseReturn, Placed, Registered, Resting, Captured, Closing, ParkedOnce
<1>12. CASE Pop
  <2>1. steerQueue # <<>> => Head(steerQueue) \in Reqs
    BY PopQueue DEF ParkedOnce
  <2>2. followUpQueue # <<>> => Head(followUpQueue) \in Reqs
    BY PopQueue DEF ParkedOnce
  <2>3. QED
    BY <1>12, <2>1, <2>2 DEF Pop, Hold, Placed, Registered, Resting
<1>13. CASE Woken
  BY <1>13 DEF Woken, Placed, Registered, Resting, Captured, Closing, ParkedOnce
<1>14. CASE Exit
  BY <1>14 DEF Exit, Placed, Registered, Resting, Captured, Closing, ParkedOnce
<1>15. CASE Register
  BY <1>15 DEF Register, Placed, Registered, Resting, Captured, Closing, ParkedOnce
<1>16. CASE Prompt
  <2>1. promptCh' = <<held>>
    BY <1>16 DEF Prompt, Placed
  <2>2. QED
    BY <1>16, <2>1 DEF Prompt, Placed, Registered, Resting
<1>17. CASE Refused
  BY <1>17 DEF Refused, Placed, Registered, Resting, Captured, Closing, ParkedOnce
<1>18. CASE Dequeue
  <2>1. promptCh = <<held>> /\ held \in Reqs
    BY <1>18 DEF Dequeue, Placed, Registered
  <2>2. Head(promptCh) = held /\ Tail(promptCh) = <<>>
    BY <2>1
  <2>3. QED
    BY <1>18, <2>2 DEF Dequeue, Placed, Registered, Resting
<1>19. CASE ConversationAborts
  BY <1>19 DEF ConversationAborts, EndRun, Placed, Registered, Resting, Captured, Closing, ParkedOnce
<1>20. CASE Leave
  BY <1>20 DEF Leave, Placed, Registered, Resting, Captured, Closing, ParkedOnce
<1>21. CASE ConversationEnds
  BY <1>21 DEF ConversationEnds, EndRun, Placed, Registered, Resting, Captured, Closing, ParkedOnce
<1>22. CASE UNCHANGED vars
  BY <1>22 DEF Placed, Registered, Resting
<1>23. QED
  BY <1>1, <1>2, <1>3, <1>4, <1>5, <1>6, <1>7, <1>8, <1>9, <1>10, <1>11, <1>12, <1>13, <1>14, <1>15, <1>16, <1>17, <1>18, <1>19, <1>20, <1>21, <1>22
     DEF Next, CallerStep, ControlStep, GoStep

\* Every step keeps each cancellation aimed at a captured turn.
LEMMA CaptureStep == IInv /\ [Next]_vars => Captured' /\ CancelsOnlyCaptured'
<1> SUFFICES ASSUME IInv, [Next]_vars PROVE Captured' /\ CancelsOnlyCaptured'
  OBVIOUS
<1> USE RunLoopAssumption
    DEF IInv, TypeOK, vars, loopVars, goVars, agentVars, callVars, ctlVars
<1>1. ASSUME NEW r \in Reqs, AdmitFollowUp(r) PROVE Captured' /\ CancelsOnlyCaptured'
  BY <1>1 DEF AdmitFollowUp, Captured, CancelsOnlyCaptured, Placed, Registered
<1>2. ASSUME NEW r \in Reqs, AdmitSteer(r) PROVE Captured' /\ CancelsOnlyCaptured'
  BY <1>2 DEF AdmitSteer, Capture, Captured, CancelsOnlyCaptured, Placed, Registered
<1>3. ASSUME NEW r \in Reqs, AdmitClosed(r) PROVE Captured' /\ CancelsOnlyCaptured'
  BY <1>3 DEF AdmitClosed, Captured, CancelsOnlyCaptured, Placed, Registered
<1>4. ASSUME NEW r \in Reqs, Signal(r) PROVE Captured' /\ CancelsOnlyCaptured'
  BY <1>4 DEF Signal, Captured, CancelsOnlyCaptured, Placed, Registered
<1>5. ASSUME NEW r \in Reqs, SteerCancel(r) PROVE Captured' /\ CancelsOnlyCaptured'
  BY <1>5 DEF SteerCancel, Captured, CancelsOnlyCaptured, Placed, Registered
<1>6. ASSUME NEW c \in Ctls, NEW r \in Reqs, Stop(c, r) PROVE Captured' /\ CancelsOnlyCaptured'
  BY <1>6 DEF Stop, Capture, DropParked, Captured, CancelsOnlyCaptured, Placed, Registered
<1>7. ASSUME NEW c \in Ctls, Abort(c) PROVE Captured' /\ CancelsOnlyCaptured'
  BY <1>7 DEF Abort, Capture, DropParked, Captured, CancelsOnlyCaptured, Placed, Registered
<1>8. ASSUME NEW c \in Ctls, ControlCancel(c) PROVE Captured' /\ CancelsOnlyCaptured'
  BY <1>8 DEF ControlCancel, Captured, CancelsOnlyCaptured, Placed, Registered
<1>9. ASSUME NEW c \in Ctls, Close(c) PROVE Captured' /\ CancelsOnlyCaptured'
  BY <1>9 DEF Close, DropParked, Captured, CancelsOnlyCaptured, Placed, Registered
<1>10. ASSUME NEW c \in Ctls, CloseStop(c) PROVE Captured' /\ CancelsOnlyCaptured'
  BY <1>10 DEF CloseStop, Captured, CancelsOnlyCaptured, Placed, Registered
<1>11. ASSUME NEW c \in Ctls, CloseReturn(c) PROVE Captured' /\ CancelsOnlyCaptured'
  BY <1>11 DEF CloseReturn, Captured, CancelsOnlyCaptured, Placed, Registered
<1>12. CASE Pop
  <2>1. steerQueue # <<>> => Head(steerQueue) \in Reqs /\ fate[Head(steerQueue)] = "waiting"
    BY PopQueue DEF ParkedOnce
  <2>2. followUpQueue # <<>> => Head(followUpQueue) \in Reqs /\ fate[Head(followUpQueue)] = "waiting"
    BY PopQueue DEF ParkedOnce
  <2>3. QED
    BY <1>12, <2>1, <2>2 DEF Pop, Hold, Captured, CancelsOnlyCaptured
<1>13. CASE Woken
  BY <1>13 DEF Woken, Captured, CancelsOnlyCaptured, Placed, Registered
<1>14. CASE Exit
  BY <1>14 DEF Exit, Captured, CancelsOnlyCaptured, Placed, Registered
<1>15. CASE Register
  BY <1>15 DEF Register, Captured, CancelsOnlyCaptured, Placed, Registered
<1>16. CASE Prompt
  BY <1>16 DEF Prompt, AgentBusy, Captured, CancelsOnlyCaptured, Placed, Registered
<1>17. CASE Refused
  BY <1>17 DEF Refused, Captured, CancelsOnlyCaptured, Placed, Registered
<1>18. CASE Dequeue
  BY <1>18 DEF Dequeue, Captured, CancelsOnlyCaptured, Placed, Registered
<1>19. CASE ConversationAborts
  BY <1>19 DEF ConversationAborts, EndRun, Captured, CancelsOnlyCaptured, Placed, Registered
<1>20. CASE Leave
  BY <1>20 DEF Leave, Captured, CancelsOnlyCaptured, Placed, Registered
<1>21. CASE ConversationEnds
  BY <1>21 DEF ConversationEnds, EndRun, Captured, CancelsOnlyCaptured, Placed, Registered
<1>22. CASE UNCHANGED vars
  BY <1>22 DEF Captured, CancelsOnlyCaptured
<1>23. QED
  BY <1>1, <1>2, <1>3, <1>4, <1>5, <1>6, <1>7, <1>8, <1>9, <1>10, <1>11, <1>12, <1>13, <1>14, <1>15, <1>16, <1>17, <1>18, <1>19, <1>20, <1>21, <1>22
     DEF Next, CallerStep, ControlStep, GoStep

\* Every step keeps the closers in order.
LEMMA ClosingStep == IInv /\ [Next]_vars => Closing'
<1> SUFFICES ASSUME IInv, [Next]_vars PROVE Closing'
  OBVIOUS
<1> USE RunLoopAssumption
    DEF IInv, TypeOK, vars, loopVars, goVars, agentVars, callVars, ctlVars
<1>1. ASSUME NEW r \in Reqs, AdmitFollowUp(r) PROVE Closing'
  BY <1>1 DEF AdmitFollowUp, Closing, Placed
<1>2. ASSUME NEW r \in Reqs, AdmitSteer(r) PROVE Closing'
  BY <1>2 DEF AdmitSteer, Capture, Closing, Placed
<1>3. ASSUME NEW r \in Reqs, AdmitClosed(r) PROVE Closing'
  BY <1>3 DEF AdmitClosed, Closing, Placed
<1>4. ASSUME NEW r \in Reqs, Signal(r) PROVE Closing'
  BY <1>4 DEF Signal, Closing, Placed
<1>5. ASSUME NEW r \in Reqs, SteerCancel(r) PROVE Closing'
  BY <1>5 DEF SteerCancel, Closing, Placed
<1>6. ASSUME NEW c \in Ctls, NEW r \in Reqs, Stop(c, r) PROVE Closing'
  BY <1>6 DEF Stop, Capture, DropParked, Closing, Placed
<1>7. ASSUME NEW c \in Ctls, Abort(c) PROVE Closing'
  BY <1>7 DEF Abort, Capture, DropParked, Closing, Placed
<1>8. ASSUME NEW c \in Ctls, ControlCancel(c) PROVE Closing'
  BY <1>8 DEF ControlCancel, Closing, Placed
<1>9. ASSUME NEW c \in Ctls, Close(c) PROVE Closing'
  BY <1>9 DEF Close, DropParked, Closing, Placed
<1>10. ASSUME NEW c \in Ctls, CloseStop(c) PROVE Closing'
  BY <1>10 DEF CloseStop, Closing, Placed
<1>11. ASSUME NEW c \in Ctls, CloseReturn(c) PROVE Closing'
  BY <1>11 DEF CloseReturn, Closing, Placed
<1>12. CASE Pop
  BY <1>12 DEF Pop, Hold, Closing, Placed
<1>13. CASE Woken
  BY <1>13 DEF Woken, Closing, Placed
<1>14. CASE Exit
  BY <1>14 DEF Exit, Closing, Placed
<1>15. CASE Register
  BY <1>15 DEF Register, Closing, Placed
<1>16. CASE Prompt
  BY <1>16 DEF Prompt, AgentBusy, Closing, Placed
<1>17. CASE Refused
  BY <1>17 DEF Refused, Closing, Placed
<1>18. CASE Dequeue
  BY <1>18 DEF Dequeue, Closing, Placed
<1>19. CASE ConversationAborts
  BY <1>19 DEF ConversationAborts, EndRun, Closing, Placed
<1>20. CASE Leave
  BY <1>20 DEF Leave, Closing, Placed
<1>21. CASE ConversationEnds
  BY <1>21 DEF ConversationEnds, EndRun, Closing, Placed
<1>22. CASE UNCHANGED vars
  BY <1>22 DEF Closing
<1>23. QED
  BY <1>1, <1>2, <1>3, <1>4, <1>5, <1>6, <1>7, <1>8, <1>9, <1>10, <1>11, <1>12, <1>13, <1>14, <1>15, <1>16, <1>17, <1>18, <1>19, <1>20, <1>21, <1>22
     DEF Next, CallerStep, ControlStep, GoStep

\* The initial state satisfies the invariant.
LEMMA InitIInv == Init => IInv
<1> SUFFICES ASSUME Init PROVE IInv
  OBVIOUS
<1> USE RunLoopAssumption DEF Init
<1>1. TypeOK
  <2>1. <<>> \in Seq(Reqs)
    BY EmptySeq
  <2>2. QED
    BY <2>1 DEF TypeOK, Places, Fates
<1>2. ParkedOnce /\ Sorted
  BY EmptyQueue DEF ParkedOnce, Sorted
<1>3. Placed
  BY DEF Placed, Resting
<1>4. Captured /\ Closing /\ CancelsOnlyCaptured
  BY DEF Captured, Closing, CancelsOnlyCaptured
<1>5. QED
  BY <1>1, <1>2, <1>3, <1>4 DEF IInv

\* Every step, and every stutter, keeps the invariant.
LEMMA StepIInv == IInv /\ [Next]_vars => IInv'
  BY TypeStep, ParkingStep, PlaceStep, CaptureStep, ClosingStep DEF IInv

(***************************************************************************)
(* The safety theorems.                                                    *)
(***************************************************************************)

\* The inductive invariant holds of every reachable state.
THEOREM Inductive == Spec => []IInv
  BY InitIInv, StepIInv, PTL DEF Spec

\* Every variable of the loop keeps its type.
THEOREM TypeCorrect == Spec => []TypeOK
<1>1. IInv => TypeOK
  BY DEF IInv
<1>2. QED
  BY <1>1, Inductive, PTL

\* No interleaving of callers, controllers and the run goroutine loses an accepted
\* request or parks it twice.
THEOREM Parking == Spec => []ParkedOnce
<1>1. IInv => ParkedOnce
  BY DEF IInv
<1>2. QED
  BY <1>1, Inductive, PTL

\* A turn in flight is the one its events are stamped with and the one the agent is
\* conversing about, and it finds the agent idle.
THEOREM Naming == Spec => []TurnKeepsItsName
<1>1. IInv => TurnKeepsItsName
  BY DEF IInv, Placed, Registered, TurnKeepsItsName, AgentBusy
<1>2. QED
  BY <1>1, Inductive, PTL

\* A cancellation never strikes a turn that nobody captured.
THEOREM Cancelling == Spec => []CancelsOnlyCaptured
<1>1. IInv => CancelsOnlyCaptured
  BY DEF IInv
<1>2. QED
  BY <1>1, Inductive, PTL

\* After any Close has returned nothing is in flight and nobody is parked.
THEOREM Finality == Spec => []CloseIsFinal
<1>1. IInv => CloseIsFinal
  <2> SUFFICES ASSUME IInv, NEW c \in Ctls, ctl[c] = "returned"
               PROVE  /\ at = "exited" /\ activeRun = NoReq /\ ~agentRunning
                      /\ \A r \in Reqs : fate[r] \notin {"waiting", "serving"}
    BY DEF CloseIsFinal
  <2>1. at = "exited" /\ Resting /\ closed
    BY DEF IInv, Closing, Placed
  <2>2. \A r \in Reqs : fate[r] # "waiting"
    BY <2>1, EmptyQueue DEF IInv, Sorted, ParkedOnce
  <2>3. \A r \in Reqs : fate[r] # "serving"
    BY <2>1, RunLoopAssumption DEF IInv, Placed, Resting
  <2>4. QED
    BY <2>1, <2>2, <2>3 DEF Resting
<1>2. QED
  BY <1>1, Inductive, PTL

-----------------------------------------------------------------------------
(***************************************************************************)
(* RunLoop implements TurnService: each of its steps is a step of the      *)
(* service, or no step of it at all. The line of the service is the steer  *)
(* queue followed by the follow-up queue; the turn in service is the one   *)
(* the run goroutine has popped, registered or not.                        *)
(***************************************************************************)

(***************************************************************************)
(* Two queues seen as one line.                                            *)
(***************************************************************************)

\* A newcomer at the end of the second queue is at the end of the line.
LEMMA JoinTheEnd ==
  ASSUME NEW S, NEW s \in Seq(S), NEW t \in Seq(S), NEW e \in S
  PROVE  s \o Append(t, e) = Append(s \o t, e)
<1>1. <<e>> \in Seq(S) /\ s \o t \in Seq(S)
  BY ConcatProperties
<1>2. Append(t, e) = t \o <<e>> /\ Append(s \o t, e) = (s \o t) \o <<e>>
  BY <1>1, AppendIsConcat
<1>3. QED
  BY <1>1, <1>2, ConcatAssociative

\* Cutting the line where the first queue ends gives the two queues back.
LEMMA CutTheLine ==
  ASSUME NEW S, NEW s \in Seq(S), NEW t \in Seq(S)
  PROVE  /\ SubSeq(s \o t, 1, Len(s)) = s
         /\ SubSeq(s \o t, Len(s) + 1, Len(s \o t)) = t
<1>1. /\ s \o t \in Seq(S) /\ Len(s \o t) = Len(s) + Len(t)
      /\ Len(s) \in Nat /\ Len(t) \in Nat
  BY ConcatProperties, LenProperties
<1>2. SubSeq(s \o t, 1, Len(s)) = s
  <2>1. CASE Len(s) = 0
    BY <1>1, <2>1, EmptySeq, SubSeqEmpty
  <2>2. CASE Len(s) # 0
    <3>1. 1 \in 1 .. Len(s) /\ Len(s) \in 1 .. Len(s)
      BY <1>1, <2>2
    <3>2. SubSeq(s \o t, 1, Len(s)) = SubSeq(s, 1, Len(s))
      BY <3>1, SubSeqOfConcat1
    <3>3. QED
      BY <3>2, SubSeqFull
  <2>3. QED
    BY <2>1, <2>2
<1>3. SubSeq(s \o t, Len(s) + 1, Len(s \o t)) = t
  <2>1. CASE Len(t) = 0
    <3>1. t = <<>>
      BY <2>1, EmptySeq
    <3>2. Len(s) + 1 \in Int /\ Len(s \o t) \in Int /\ Len(s \o t) < Len(s) + 1
      BY <1>1, <2>1
    <3>3. QED
      BY <3>1, <3>2, SubSeqEmpty
  <2>2. CASE Len(t) # 0
    <3>1. /\ Len(s) + 1 \in Len(s) + 1 .. Len(s) + Len(t)
          /\ Len(s) + Len(t) \in Len(s) + 1 .. Len(s) + Len(t)
          /\ (Len(s) + 1) - Len(s) = 1 /\ (Len(s) + Len(t)) - Len(s) = Len(t)
      BY <1>1, <2>2
    <3>2. SubSeq(s \o t, Len(s) + 1, Len(s) + Len(t)) = SubSeq(t, 1, Len(t))
      BY <3>1, SubSeqOfConcat2
    <3>3. QED
      BY <1>1, <3>2, SubSeqFull
  <2>3. QED
    BY <2>1, <2>2
<1>4. QED
  BY <1>2, <1>3

\* A newcomer at the end of the first queue stands between the two.
LEMMA JoinTheMiddle ==
  ASSUME NEW S, NEW s \in Seq(S), NEW t \in Seq(S), NEW e \in S
  PROVE  Append(s, e) \o t =
           SubSeq(s \o t, 1, Len(s)) \o <<e>> \o SubSeq(s \o t, Len(s) + 1, Len(s \o t))
<1>1. Append(s, e) = s \o <<e>>
  BY AppendIsConcat
<1>2. QED
  BY <1>1, CutTheLine

\* Popping the first queue pops the line.
LEMMA PopTheLine ==
  ASSUME NEW S, NEW s \in Seq(S), NEW t \in Seq(S), s # <<>>
  PROVE  /\ s \o t # <<>>
         /\ Head(s \o t) = Head(s)
         /\ Tail(s \o t) = Tail(s) \o t
<1>1. /\ s \o t \in Seq(S) /\ Len(s \o t) = Len(s) + Len(t)
      /\ Len(s) \in Nat \ {0} /\ Len(t) \in Nat
  BY ConcatProperties, LenProperties, EmptySeq
<1>2. \A i \in 1 .. Len(s) + Len(t) :
        (s \o t)[i] = IF i <= Len(s) THEN s[i] ELSE t[i - Len(s)]
  BY ConcatProperties
<1>3. s \o t # <<>>
  BY ConcatEqualIffEmpty
<1>4. Head(s \o t) = Head(s)
  BY <1>1, <1>2, <1>3
<1>5. /\ Tail(s) \in Seq(S) /\ Len(Tail(s)) = Len(s) - 1
      /\ \A i \in 1 .. Len(s) - 1 : Tail(s)[i] = s[i + 1]
  BY HeadTailProperties
<1>6. /\ Tail(s \o t) \in Seq(S) /\ Len(Tail(s \o t)) = Len(s) + Len(t) - 1
      /\ \A i \in 1 .. Len(s) + Len(t) - 1 : Tail(s \o t)[i] = (s \o t)[i + 1]
  BY <1>1, <1>3, HeadTailProperties
<1>7. /\ Tail(s) \o t \in Seq(S) /\ Len(Tail(s) \o t) = Len(Tail(s)) + Len(t)
      /\ \A i \in 1 .. Len(Tail(s)) + Len(t) : (Tail(s) \o t)[i] =
           IF i <= Len(Tail(s)) THEN Tail(s)[i] ELSE t[i - Len(Tail(s))]
  BY <1>5, ConcatProperties
<1>8. ASSUME NEW i \in 1 .. Len(s) + Len(t) - 1
      PROVE  Tail(s \o t)[i] = (Tail(s) \o t)[i]
  <2>1. i + 1 \in 1 .. Len(s) + Len(t) /\ i \in 1 .. Len(Tail(s)) + Len(t)
    BY <1>1, <1>5
  <2>2. Tail(s \o t)[i] = IF i + 1 <= Len(s) THEN s[i + 1] ELSE t[(i + 1) - Len(s)]
    BY <1>2, <1>6, <2>1
  <2>3. (Tail(s) \o t)[i] = IF i <= Len(s) - 1 THEN Tail(s)[i] ELSE t[i - (Len(s) - 1)]
    BY <1>5, <1>7, <2>1
  <2>4. CASE i <= Len(s) - 1
    BY <1>1, <1>5, <2>2, <2>3, <2>4
  <2>5. CASE ~(i <= Len(s) - 1)
    BY <1>1, <2>2, <2>3, <2>5
  <2>6. QED
    BY <2>4, <2>5
<1>9. Tail(s \o t) = Tail(s) \o t
  BY <1>1, <1>5, <1>6, <1>7, <1>8, SeqEqual
<1>10. QED
  BY <1>3, <1>4, <1>9

\* The steers of the line are exactly its first Len(steerQueue) turns.
LEMMA SteersFirst == IInv => Svc!Boundary(Len(steerQueue))
<1> SUFFICES ASSUME IInv PROVE Svc!Boundary(Len(steerQueue))
  OBVIOUS
<1>1. steerQueue \in Seq(Reqs) /\ followUpQueue \in Seq(Reqs)
  BY DEF IInv, TypeOK
<1>2. /\ Len(steerQueue) \in Nat /\ Len(followUpQueue) \in Nat
      /\ Len(steerQueue \o followUpQueue) = Len(steerQueue) + Len(followUpQueue)
  BY <1>1, ConcatProperties, LenProperties
<1>3. \A i \in 1 .. Len(steerQueue) + Len(followUpQueue) :
        (steerQueue \o followUpQueue)[i] =
          IF i <= Len(steerQueue) THEN steerQueue[i] ELSE followUpQueue[i - Len(steerQueue)]
  BY <1>1, ConcatProperties
<1>4. \A i \in 1 .. Len(steerQueue) : steerQueue[i] \in SteerReqs
  BY DEF IInv, Sorted, Elems
<1>5. \A i \in 1 .. Len(followUpQueue) : followUpQueue[i] \notin SteerReqs
  BY DEF IInv, Sorted, Elems
<1>6. ASSUME NEW i \in 1 .. Len(steerQueue) + Len(followUpQueue)
      PROVE  (steerQueue \o followUpQueue)[i] \in SteerReqs <=> i <= Len(steerQueue)
  <2>1. CASE i <= Len(steerQueue)
    <3>1. i \in 1 .. Len(steerQueue)
      BY <1>2, <2>1
    <3>2. QED
      BY <1>3, <1>4, <2>1, <3>1
  <2>2. CASE ~(i <= Len(steerQueue))
    <3>1. i - Len(steerQueue) \in 1 .. Len(followUpQueue)
      BY <1>2, <2>2
    <3>2. QED
      BY <1>3, <1>5, <2>2, <3>1
  <2>3. QED
    BY <2>1, <2>2
<1>7. QED
  BY <1>2, <1>6 DEF Svc!Boundary

(***************************************************************************)
(* Step by step.                                                           *)
(***************************************************************************)

\* The initial states are the service's.
LEMMA InitMaps == Init => Svc!ServiceInit
<1>1. <<>> \o <<>> = <<>>
  BY EmptySeq, ConcatEmptySeq
<1>2. QED
  BY <1>1 DEF Init, Svc!ServiceInit

\* Dropping the parked requests empties the line.
LEMMA DropMaps == DropParked => (steerQueue \o followUpQueue)' = <<>> /\ fate' = Svc!Dropped
<1>1. <<>> \o <<>> = <<>>
  BY EmptySeq, ConcatEmptySeq
<1>2. QED
  BY <1>1 DEF DropParked, Svc!Dropped

\* A parked steer takes its place between the steers and the follow-ups.
LEMMA SteerJoins ==
  ASSUME IInv, NEW r \in Reqs
  PROVE  Append(steerQueue, r) \o followUpQueue =
           SubSeq(steerQueue \o followUpQueue, 1, Len(steerQueue)) \o <<r>>
             \o SubSeq(steerQueue \o followUpQueue, Len(steerQueue) + 1,
                       Len(steerQueue \o followUpQueue))
<1>1. steerQueue \in Seq(Reqs) /\ followUpQueue \in Seq(Reqs)
  BY DEF IInv, TypeOK
<1>2. QED
  BY <1>1, JoinTheMiddle

\* Every step of a caller, a controller or the run goroutine is a step of the
\* service or leaves it alone.
LEMMA StepMaps == IInv /\ [Next]_vars => [Svc!ServiceNext]_(Svc!serviceVars)
<1> SUFFICES ASSUME IInv, [Next]_vars
             PROVE  Svc!ServiceNext \/ UNCHANGED Svc!serviceVars
  OBVIOUS
<1> USE RunLoopAssumption DEF vars, loopVars, goVars, agentVars, callVars, ctlVars
<1>0. steerQueue \in Seq(Reqs) /\ followUpQueue \in Seq(Reqs)
  BY DEF IInv, TypeOK
<1>1. ASSUME NEW r \in Reqs, AdmitFollowUp(r) PROVE Svc!AcceptOrdinary(r)
  <2>1. fate[r] = "new"
    BY <1>1 DEF AdmitFollowUp, IInv, Captured
  <2>2. (steerQueue \o followUpQueue)' = Append(steerQueue \o followUpQueue, r)
    BY <1>0, <1>1, JoinTheEnd DEF AdmitFollowUp
  <2>3. QED
    BY <1>1, <2>1, <2>2 DEF AdmitFollowUp, Svc!AcceptOrdinary
<1>2. ASSUME NEW r \in Reqs, AdmitSteer(r) PROVE Svc!AcceptUrgent(r)
  <2>1. fate[r] = "new"
    BY <1>2 DEF AdmitSteer, IInv, Captured
  <2>2. Append(steerQueue, r) \o followUpQueue =
          SubSeq(steerQueue \o followUpQueue, 1, Len(steerQueue)) \o <<r>>
            \o SubSeq(steerQueue \o followUpQueue, Len(steerQueue) + 1,
                      Len(steerQueue \o followUpQueue))
    BY SteerJoins
  <2>3. (steerQueue \o followUpQueue)' = Append(steerQueue, r) \o followUpQueue
    BY <1>2 DEF AdmitSteer
  <2>4. Svc!Boundary(Len(steerQueue)) /\ Len(steerQueue) \in 0 .. Len(steerQueue \o followUpQueue)
    BY SteersFirst DEF Svc!Boundary
  <2>5. QED
    BY <1>2, <2>1, <2>2, <2>3, <2>4 DEF AdmitSteer, Svc!AcceptUrgent
<1>3. ASSUME NEW r \in Reqs, AdmitClosed(r) PROVE Svc!Reject(r)
  <2>1. fate[r] = "new"
    BY <1>3 DEF AdmitClosed, IInv, Captured
  <2>2. QED
    BY <1>3, <2>1 DEF AdmitClosed, Svc!Reject
<1>4. ASSUME NEW r \in Reqs, Signal(r) \/ SteerCancel(r) PROVE UNCHANGED Svc!serviceVars
  BY <1>4 DEF Signal, SteerCancel, Svc!serviceVars
<1>5. ASSUME NEW c \in Ctls, NEW r \in Reqs, Stop(c, r) PROVE Svc!ClearLine
  BY <1>5, DropMaps DEF Stop, Svc!ClearLine
<1>6. ASSUME NEW c \in Ctls, Abort(c) PROVE Svc!ClearLine
  BY <1>6, DropMaps DEF Abort, Svc!ClearLine
<1>7. ASSUME NEW c \in Ctls, Close(c) PROVE Svc!Shut
  BY <1>7, DropMaps DEF Close, Svc!Shut
<1>8. ASSUME NEW c \in Ctls, ControlCancel(c) \/ CloseStop(c) \/ CloseReturn(c)
      PROVE  UNCHANGED Svc!serviceVars
  BY <1>8 DEF ControlCancel, CloseStop, CloseReturn, Svc!serviceVars
<1>9. CASE Pop
  <2>1. held = NoReq
    BY <1>9 DEF Pop, IInv, Placed, Resting
  <2>2. CASE /\ steerQueue # <<>> /\ Hold(Head(steerQueue))
             /\ steerQueue' = Tail(steerQueue) /\ UNCHANGED <<followUpQueue, closed>>
    <3>1. /\ steerQueue \o followUpQueue # <<>>
          /\ Head(steerQueue \o followUpQueue) = Head(steerQueue)
          /\ Tail(steerQueue \o followUpQueue) = Tail(steerQueue) \o followUpQueue
      BY <1>0, <2>2, PopTheLine
    <3>2. QED
      BY <2>1, <2>2, <3>1 DEF Hold, Svc!Serve, Svc!ServiceNext
  <2>3. CASE /\ steerQueue = <<>> /\ followUpQueue # <<>> /\ Hold(Head(followUpQueue))
             /\ followUpQueue' = Tail(followUpQueue) /\ UNCHANGED <<steerQueue, closed>>
    <3>1. Tail(followUpQueue) \in Seq(Reqs)
      BY <1>0, <2>3, HeadTailProperties
    <3>2. /\ steerQueue \o followUpQueue = followUpQueue
          /\ (steerQueue \o followUpQueue)' = Tail(followUpQueue)
      BY <1>0, <2>3, <3>1, ConcatEmptySeq
    <3>3. QED
      BY <2>1, <2>3, <3>2 DEF Hold, Svc!Serve, Svc!ServiceNext
  <2>4. CASE UNCHANGED <<held, fate, steerQueue, followUpQueue, closed>>
    BY <2>4 DEF Svc!serviceVars
  <2>5. QED
    BY <1>9, <2>2, <2>3, <2>4 DEF Pop
<1>10. CASE Woken \/ Exit \/ Register \/ Prompt \/ Refused \/ Dequeue
  BY <1>10 DEF Woken, Exit, Register, Prompt, Refused, Dequeue, Svc!serviceVars
<1>11. CASE ConversationAborts \/ ConversationEnds
  BY <1>11 DEF ConversationAborts, ConversationEnds, EndRun, Svc!serviceVars
<1>12. CASE Leave
  <2>1. held # NoReq
    BY <1>12 DEF Leave, IInv, Placed, Registered
  <2>2. QED
    BY <1>12, <2>1 DEF Leave, Svc!Settle, Svc!ServiceNext
<1>13. CASE UNCHANGED vars
  BY <1>13 DEF Svc!serviceVars
<1>14. QED
  BY <1>1, <1>2, <1>3, <1>4, <1>5, <1>6, <1>7, <1>8, <1>9, <1>10, <1>11, <1>12, <1>13
     DEF Next, CallerStep, ControlStep, GoStep, Svc!ServiceNext

\* The loop, with its mutex, wake channel, run goroutine and agent, is a TurnService:
\* accepted turns stand in one line, steers before follow-ups and each kind in order
\* of arrival, and are served one at a time from its head.
THEOREM Refinement == Spec => ImplementsService
<1>1. IInv /\ [Next]_vars => [Svc!ServiceNext]_(Svc!serviceVars)
  BY StepMaps
<1>2. QED
  BY InitMaps, <1>1, Inductive, PTL DEF Spec, ImplementsService, Svc!Service
==============================================================================
