------------------------------- MODULE RunLoop -------------------------------
(***************************************************************************)
(* The per-session Loop (sessionruntime/loop.go) and the turn it drives    *)
(* through the embedded harness into the Agent (harness/lifecycle.go,      *)
(* runtime/harness.go, agents/dispatcher.go, queue.go, controller.go).     *)
(*                                                                         *)
(* Three kinds of goroutines interleave at every release of Loop.mu:       *)
(*   - callers of Submit, SubmitSkill and Steer, one per request;          *)
(*   - controllers calling Stop, Abort and Close;                          *)
(*   - the single run goroutine, whose program counter is "at".            *)
(***************************************************************************)
EXTENDS Sequences, Naturals

CONSTANTS
  Reqs,             \* requests; each is submitted at most once
  SteerReqs,        \* those submitted through Steer; the others are follow-ups,
                    \* submitted through Submit or SubmitSkill
  ForeignReqs,      \* prompts overriding the provider with one not configured
  Ctls,             \* goroutines calling Stop, Abort or Close
  NoReq             \* "no request": nil activeRun, nothing held

ASSUME RunLoopAssumption ==
  /\ SteerReqs \subseteq Reqs
  /\ ForeignReqs \subseteq Reqs
  /\ NoReq \notin Reqs

VARIABLES
  \* fields of Loop, guarded by mu
  steerQueue, followUpQueue,
  activeRun,        \* the registered turn
  curRunID,         \* the turn events are stamped with; kept after the turn
  closed,
  \* channels and contexts
  wake,             \* the capacity-1 wake channel holds a token
  stopped,          \* l.ctx has been cancelled
  cancelled,        \* turns whose runCtx has been cancelled by cancelRun
  \* the run goroutine
  at, held,         \* its program counter, the request it has popped
  \* the Agent it drives
  promptCh,         \* Agent.queue's prompt channel, capacity 1
  agentRunning,     \* Controller state
  taken,            \* the message Agent.Run has dequeued in this turn
  \* callers and controllers
  caller, victim,   \* where each caller is, the turn its Steer will cancel
  ctl, aim,         \* where each controller is, the turn it will cancel
  \* history
  fate,             \* what has become of each request
  intended          \* turns somebody captured in order to cancel them

loopVars == <<steerQueue, followUpQueue, activeRun, curRunID, closed>>
goVars == <<at, held>>
agentVars == <<promptCh, agentRunning, taken>>
callVars == <<caller, victim>>
ctlVars == <<ctl, aim>>
vars == <<loopVars, wake, stopped, cancelled, goVars, agentVars, callVars,
          ctlVars, fate, intended>>

Fates == {"new", "rejected", "waiting", "serving", "settled", "dropped"}
Places == {"pop", "select", "popped", "registered", "prompted", "conversing",
           "leaving", "exited"}

TypeOK ==
  /\ steerQueue \in Seq(Reqs) /\ followUpQueue \in Seq(Reqs)
  /\ activeRun \in Reqs \cup {NoReq} /\ curRunID \in Reqs \cup {NoReq}
  /\ closed \in BOOLEAN /\ wake \in BOOLEAN /\ stopped \in BOOLEAN
  /\ cancelled \in SUBSET Reqs
  /\ at \in Places /\ held \in Reqs \cup {NoReq}
  /\ promptCh \in Seq(Reqs) /\ agentRunning \in BOOLEAN
  /\ taken \in Reqs \cup {NoReq}
  /\ caller \in [Reqs -> {"idle", "signal", "cancel", "returned"}]
  /\ victim \in [Reqs -> Reqs \cup {NoReq}]
  /\ ctl \in [Ctls -> {"idle", "cancel", "stop", "wait", "returned"}]
  /\ aim \in [Ctls -> Reqs \cup {NoReq}]
  /\ fate \in [Reqs -> Fates]
  /\ intended \in SUBSET Reqs

Init ==
  /\ steerQueue = <<>> /\ followUpQueue = <<>>
  /\ activeRun = NoReq /\ curRunID = NoReq
  /\ closed = FALSE /\ wake = FALSE /\ stopped = FALSE
  /\ cancelled = {}
  /\ at = "pop" /\ held = NoReq
  /\ promptCh = <<>> /\ agentRunning = FALSE /\ taken = NoReq
  /\ caller = [r \in Reqs |-> "idle"] /\ victim = [r \in Reqs |-> NoReq]
  /\ ctl = [c \in Ctls |-> "idle"] /\ aim = [c \in Ctls |-> NoReq]
  /\ fate = [r \in Reqs |-> "new"]
  /\ intended = {}

\* Fault: cancelRun is not wired to the run context.
CtxDoneUnwired(r) == stopped

\* A turn's runCtx is derived from l.ctx, so it is done when either is cancelled.
CtxDone(r) == stopped \/ r \in cancelled

\* Capturing activeRun under the lock is what later lets its holder cancel it.
Capture(t) == intended' = IF t = NoReq THEN intended ELSE intended \cup {t}

------------------------------------------------------------------------------
(* Callers: admit, one step per release of the lock. *)

\* The locked section of admit, for Submit and SubmitSkill and for Steer.
AdmitFollowUp(r) ==
  /\ caller[r] = "idle"
  /\ ~closed
  /\ r \notin SteerReqs
  /\ followUpQueue' = Append(followUpQueue, r)
  /\ caller' = [caller EXCEPT ![r] = "signal"]
  /\ fate' = [fate EXCEPT ![r] = "waiting"]
  /\ UNCHANGED <<steerQueue, activeRun, curRunID, closed, wake, stopped, cancelled,
                 goVars, agentVars, victim, ctlVars, intended>>

AdmitSteer(r) ==
  /\ caller[r] = "idle"
  /\ ~closed
  /\ r \in SteerReqs
  /\ steerQueue' = Append(steerQueue, r)
  /\ victim' = [victim EXCEPT ![r] = activeRun]
  /\ Capture(activeRun)
  /\ caller' = [caller EXCEPT ![r] = "signal"]
  /\ fate' = [fate EXCEPT ![r] = "waiting"]
  /\ UNCHANGED <<followUpQueue, activeRun, curRunID, closed, wake, stopped, cancelled,
                 goVars, agentVars, ctlVars>>

\* ErrLoopClosed.
AdmitClosed(r) ==
  /\ caller[r] = "idle"
  /\ closed
  /\ caller' = [caller EXCEPT ![r] = "returned"]
  /\ fate' = [fate EXCEPT ![r] = "rejected"]
  /\ UNCHANGED <<loopVars, wake, stopped, cancelled, goVars, agentVars, victim,
                 ctlVars, intended>>

\* The non-blocking send on wake: a token already there stands for this one too.
Signal(r) ==
  /\ caller[r] = "signal"
  /\ wake' = TRUE
  /\ caller' = [caller EXCEPT ![r] = IF victim[r] = NoReq THEN "returned" ELSE "cancel"]
  /\ UNCHANGED <<loopVars, stopped, cancelled, goVars, agentVars, victim, ctlVars,
                 fate, intended>>

\* Fault: Steer cancels the turn that is active when it gets to cancelling.
SteerCancelLate(r) ==
  /\ caller[r] = "cancel"
  /\ cancelled' = cancelled \cup ({activeRun} \ {NoReq})
  /\ caller' = [caller EXCEPT ![r] = "returned"]
  /\ UNCHANGED <<loopVars, wake, stopped, goVars, agentVars, victim, ctlVars,
                 fate, intended>>

\* Steer's active.cancelRun(), on the turn it captured.
SteerCancel(r) ==
  /\ caller[r] = "cancel"
  /\ cancelled' = cancelled \cup {victim[r]}
  /\ caller' = [caller EXCEPT ![r] = "returned"]
  /\ UNCHANGED <<loopVars, wake, stopped, goVars, agentVars, victim, ctlVars,
                 fate, intended>>

------------------------------------------------------------------------------
(* Controllers: Stop, Abort and Close. *)

\* Fault: the follow-ups survive, though their callers are told they are gone.
DropSteersOnly ==
  /\ steerQueue' = <<>>
  /\ UNCHANGED followUpQueue
  /\ fate' = [r \in Reqs |-> IF fate[r] = "waiting" THEN "dropped" ELSE fate[r]]

\* Both queues are dropped together, under the lock.
DropParked ==
  /\ steerQueue' = <<>>
  /\ followUpQueue' = <<>>
  /\ fate' = [r \in Reqs |-> IF fate[r] = "waiting" THEN "dropped" ELSE fate[r]]

\* Stop(runID): FALSE, and no effect, unless runID names the active turn.
Stop(c, r) ==
  /\ ctl[c] = "idle"
  /\ activeRun = r
  /\ DropParked
  /\ Capture(r)
  /\ ctl' = [ctl EXCEPT ![c] = "cancel"]
  /\ aim' = [aim EXCEPT ![c] = r]
  /\ UNCHANGED <<activeRun, curRunID, closed, wake, stopped, cancelled, goVars,
                 agentVars, callVars>>

Abort(c) ==
  /\ ctl[c] = "idle"
  /\ DropParked
  /\ Capture(activeRun)
  /\ IF activeRun = NoReq
       THEN UNCHANGED ctlVars
       ELSE /\ ctl' = [ctl EXCEPT ![c] = "cancel"]
            /\ aim' = [aim EXCEPT ![c] = activeRun]
  /\ UNCHANGED <<activeRun, curRunID, closed, wake, stopped, cancelled, goVars,
                 agentVars, callVars>>

\* The cancelRun of a Stop or an Abort, after the lock is released.
ControlCancel(c) ==
  /\ ctl[c] = "cancel"
  /\ cancelled' = cancelled \cup {aim[c]}
  /\ ctl' = [ctl EXCEPT ![c] = "idle"]
  /\ aim' = [aim EXCEPT ![c] = NoReq]
  /\ UNCHANGED <<loopVars, wake, stopped, goVars, agentVars, callVars, fate,
                 intended>>

\* The locked section of Close; only the first closer will cancel l.ctx.
Close(c) ==
  /\ ctl[c] = "idle"
  /\ DropParked
  /\ closed' = TRUE
  /\ ctl' = [ctl EXCEPT ![c] = IF closed THEN "wait" ELSE "stop"]
  /\ UNCHANGED <<activeRun, curRunID, wake, stopped, cancelled, goVars, agentVars,
                 callVars, aim, intended>>

CloseStop(c) ==
  /\ ctl[c] = "stop"
  /\ stopped' = TRUE
  /\ ctl' = [ctl EXCEPT ![c] = "wait"]
  /\ UNCHANGED <<loopVars, wake, cancelled, goVars, agentVars, callVars, aim, fate,
                 intended>>

\* Fault: Close does not wait for the run goroutine.
CloseReturnEarly(c) ==
  /\ ctl[c] = "wait"
  /\ ctl' = [ctl EXCEPT ![c] = "returned"]
  /\ UNCHANGED <<loopVars, wake, stopped, cancelled, goVars, agentVars, callVars,
                 aim, fate, intended>>

\* <-l.done, closed by the run goroutine as it exits.
CloseReturn(c) ==
  /\ ctl[c] = "wait"
  /\ at = "exited"
  /\ ctl' = [ctl EXCEPT ![c] = "returned"]
  /\ UNCHANGED <<loopVars, wake, stopped, cancelled, goVars, agentVars, callVars,
                 aim, fate, intended>>

------------------------------------------------------------------------------
(* The run goroutine: next and popLocked. *)

Hold(r) ==
  /\ held' = r
  /\ at' = "popped"
  /\ fate' = [fate EXCEPT ![r] = "serving"]

\* Fault: follow-ups are popped before steers.
PopFollowUpsFirst ==
  /\ at = "pop"
  /\ \/ /\ followUpQueue # <<>>
        /\ Hold(Head(followUpQueue))
        /\ followUpQueue' = Tail(followUpQueue)
        /\ UNCHANGED steerQueue
     \/ /\ followUpQueue = <<>> /\ steerQueue # <<>>
        /\ Hold(Head(steerQueue))
        /\ steerQueue' = Tail(steerQueue)
        /\ UNCHANGED followUpQueue
     \/ /\ steerQueue = <<>> /\ followUpQueue = <<>>
        /\ at' = "select"
        /\ UNCHANGED <<held, fate, steerQueue, followUpQueue>>
  /\ UNCHANGED <<activeRun, curRunID, closed, wake, stopped, cancelled, agentVars,
                 callVars, ctlVars, intended>>

\* Steers before follow-ups; with nothing to pop the goroutine goes to its select.
Pop ==
  /\ at = "pop"
  /\ \/ /\ steerQueue # <<>>
        /\ Hold(Head(steerQueue))
        /\ steerQueue' = Tail(steerQueue)
        /\ UNCHANGED followUpQueue
     \/ /\ steerQueue = <<>> /\ followUpQueue # <<>>
        /\ Hold(Head(followUpQueue))
        /\ followUpQueue' = Tail(followUpQueue)
        /\ UNCHANGED steerQueue
     \/ /\ steerQueue = <<>> /\ followUpQueue = <<>>
        /\ at' = "select"
        /\ UNCHANGED <<held, fate, steerQueue, followUpQueue>>
  /\ UNCHANGED <<activeRun, curRunID, closed, wake, stopped, cancelled, agentVars,
                 callVars, ctlVars, intended>>

Woken ==
  /\ at = "select"
  /\ wake
  /\ wake' = FALSE
  /\ at' = "pop"
  /\ UNCHANGED <<loopVars, stopped, cancelled, held, agentVars, callVars, ctlVars,
                 fate, intended>>

\* Returning from run closes l.done.
Exit ==
  /\ at = "select"
  /\ stopped
  /\ at' = "exited"
  /\ UNCHANGED <<loopVars, wake, stopped, cancelled, held, agentVars, callVars,
                 ctlVars, fate, intended>>

------------------------------------------------------------------------------
(* The run goroutine: executeTurn, the harness attempt and Agent.Run. *)

Register ==
  /\ at = "popped"
  /\ activeRun' = held
  /\ curRunID' = held
  /\ at' = "registered"
  /\ UNCHANGED <<steerQueue, followUpQueue, closed, wake, stopped, cancelled, held,
                 agentVars, callVars, ctlVars, fate, intended>>

AgentBusy == agentRunning \/ promptCh # <<>>

\* Agent.Prompt puts the message in the agent's queue.
Prompt ==
  /\ at = "registered"
  /\ held \notin ForeignReqs
  /\ ~AgentBusy
  /\ promptCh' = Append(promptCh, held)
  /\ at' = "prompted"
  /\ UNCHANGED <<loopVars, wake, stopped, cancelled, held, agentRunning, taken,
                 callVars, ctlVars, fate, intended>>

\* SetRunModel or Agent.Prompt refuses. A skill turn turns the refusal into an
\* AgentErrorEvent; a prompt's error is in the attempt, which executeTurn ignores.
Refused ==
  /\ at = "registered"
  /\ held \in ForeignReqs \/ AgentBusy
  /\ at' = "leaving"
  /\ UNCHANGED <<loopVars, wake, stopped, cancelled, held, agentVars, callVars,
                 ctlVars, fate, intended>>

\* Fault: Dequeue looks at the context first and leaves the message behind.
DequeueCtxFirst ==
  /\ at = "prompted"
  /\ promptCh # <<>>
  /\ IF CtxDone(held)
       THEN at' = "leaving" /\ UNCHANGED agentVars
       ELSE /\ agentRunning' = TRUE
            /\ taken' = Head(promptCh)
            /\ promptCh' = Tail(promptCh)
            /\ at' = "conversing"
  /\ UNCHANGED <<loopVars, wake, stopped, cancelled, held, callVars, ctlVars, fate,
                 intended>>

\* Agent.Run starts and dequeues. Dequeue polls the channels before it looks at
\* the context, so a message that is there is taken even by a cancelled run.
Dequeue ==
  /\ at = "prompted"
  /\ promptCh # <<>>
  /\ agentRunning' = TRUE
  /\ taken' = Head(promptCh)
  /\ promptCh' = Tail(promptCh)
  /\ at' = "conversing"
  /\ UNCHANGED <<loopVars, wake, stopped, cancelled, held, callVars, ctlVars, fate,
                 intended>>

\* Agent.Run returns: its deferred AgentEndEvent and Controller.End. With an empty
\* queue it leaves after one message.
EndRun ==
  /\ agentRunning' = FALSE
  /\ at' = "leaving"
  /\ UNCHANGED <<loopVars, wake, stopped, cancelled, held, promptCh, taken, callVars,
                 ctlVars, fate, intended>>

\* RunConversation ends by itself: a final answer or an error, whenever the
\* provider gets there.
ConversationEnds ==
  /\ at = "conversing"
  /\ EndRun

\* RunConversation ends because its context is done.
ConversationAborts ==
  /\ at = "conversing"
  /\ CtxDone(held)
  /\ EndRun

\* executeTurn's tail and its deferred function: the reply sink, then activeRun
\* is cleared and the run context cancelled for good.
Leave ==
  /\ at = "leaving"
  /\ activeRun' = NoReq
  /\ cancelled' = cancelled \cup {held}
  /\ fate' = [fate EXCEPT ![held] = "settled"]
  /\ held' = NoReq
  /\ taken' = NoReq
  /\ at' = "pop"
  /\ UNCHANGED <<steerQueue, followUpQueue, curRunID, closed, wake, stopped,
                 promptCh, agentRunning, callVars, ctlVars, intended>>

------------------------------------------------------------------------------
CallerStep(r) ==
  \/ AdmitFollowUp(r) \/ AdmitSteer(r) \/ AdmitClosed(r)
  \/ Signal(r) \/ SteerCancel(r)

ControlStep(c) ==
  \/ \E r \in Reqs : Stop(c, r)
  \/ Abort(c) \/ ControlCancel(c)
  \/ Close(c) \/ CloseStop(c) \/ CloseReturn(c)

GoStep ==
  \/ Pop \/ Woken \/ Exit \/ Register
  \/ Prompt \/ Refused \/ Dequeue \/ ConversationAborts \/ Leave

Next ==
  \/ \E r \in Reqs : CallerStep(r)
  \/ \E c \in Ctls : ControlStep(c)
  \/ GoStep
  \/ ConversationEnds

Spec == Init /\ [][Next]_vars

\* The scheduler runs every goroutine that can move. Nobody has to submit or to
\* call a controller, and nothing makes a provider answer: the LLM client has no
\* timeout of its own (llm/httpclient.go), so ConversationEnds is not fair.
Fairness ==
  /\ WF_vars(GoStep)
  /\ \A r \in Reqs : WF_vars(Signal(r) \/ SteerCancel(r))
  /\ \A c \in Ctls : WF_vars(ControlCancel(c) \/ CloseStop(c) \/ CloseReturn(c))

FairSpec == Spec /\ Fairness

------------------------------------------------------------------------------
(* Properties. *)

Elems(q) == {q[i] : i \in 1 .. Len(q)}
Distinct(q) == \A i, j \in 1 .. Len(q) : q[i] = q[j] => i = j

\* A request is waiting exactly when it is parked, and it is parked in one place
\* of one queue: no interleaving of Submit, Steer, Stop, Abort, Close and the run
\* goroutine loses an accepted request or queues it twice.
ParkedOnce ==
  /\ \A r \in Reqs : fate[r] = "waiting" <=> r \in Elems(steerQueue) \cup Elems(followUpQueue)
  /\ Distinct(steerQueue) /\ Distinct(followUpQueue)
  /\ Elems(steerQueue) \cap Elems(followUpQueue) = {}

\* While a turn is in flight the ids that events are stamped with are its own, and
\* the agent converses about its own prompt, not one left over in its queue: a
\* parked request never steals the identity of the turn before it, and the agent
\* is idle with an empty queue each time a turn reaches it.
TurnKeepsItsName ==
  /\ at \in {"registered", "prompted", "conversing", "leaving"} =>
       held # NoReq /\ activeRun = held /\ curRunID = held
  /\ at = "conversing" => taken = held
  /\ at = "registered" => ~AgentBusy

\* A cancellation strikes the turn that was active when Stop, Abort or Steer took
\* the lock, though cancelRun is called after the lock is released and another
\* turn may have become active by then.
CancelsOnlyCaptured ==
  \A r \in cancelled : r \in intended \/ fate[r] = "settled"

\* Once any Close has returned the run goroutine is gone, no turn is in flight in
\* the loop or in the agent, and nobody is left parked.
CloseIsFinal ==
  (\E c \in Ctls : ctl[c] = "returned") =>
    /\ at = "exited" /\ activeRun = NoReq /\ ~agentRunning
    /\ \A r \in Reqs : fate[r] \notin {"waiting", "serving"}

\* A turn that Stop, Abort or Steer captured settles even if its provider never
\* answers.
CapturedTurnsSettle == \A r \in Reqs : r \in intended ~> fate[r] = "settled"

\* Every Close returns, also a second one and one that overtakes a turn between
\* its pop and its registration, even if the provider never answers.
CloseReturns == \A c \in Ctls : ctl[c] \in {"stop", "wait"} ~> ctl[c] = "returned"

\* If providers answer, an accepted request does not wait for ever: the capacity-1
\* wake channel never swallows the only signal for a parked request.
WaitingTurnsAreServed ==
  WF_vars(ConversationEnds) => \A r \in Reqs : fate[r] = "waiting" ~> fate[r] # "waiting"

\* The loop is a TurnService: one turn at a time, steers first, each kind in order.
Svc == INSTANCE TurnService WITH
  Turns <- Reqs, NoTurn <- NoReq, line <- steerQueue \o followUpQueue,
  Urgent <- SteerReqs, serving <- held, status <- fate, open <- ~closed
ImplementsService == Svc!Service

==============================================================================
