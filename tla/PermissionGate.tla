---------------------------- MODULE PermissionGate ----------------------------
(***************************************************************************)
(* Tool calls and the user's approval of them: the executor's parallel     *)
(* tool goroutines (agents/executor/executor.go), the gate they ask        *)
(* (agents/perm/permission_gate.go), the sandbox paths a run has approved  *)
(* (tools/sandbox.go) and the gateway goroutines that bring the renderer's *)
(* answers (gateway/handler_permission.go).                                *)
(*                                                                         *)
(* For one request the answer, a second answer, the timeout and the end of *)
(* the run race for one entry of Gate.pending and one channel of capacity  *)
(* 1. Every section under Gate.mu is one action.                           *)
(***************************************************************************)
EXTENDS Naturals

CONSTANTS
  Calls,         \* the tool calls a model makes, each any number of times
  Dangerous,     \* calls that their command or their tool makes dangerous
  Path,          \* the path by which a call leaves the workspace, or NoPath
  CommandKey,    \* the (tool, level, reason) of each call's evaluation for its command
  PathKey,       \* and for its path
  NoPath,
  Answerers,     \* gateway goroutines bringing answers
  NoAnswer       \* an empty channel

VARIABLES
  run,           \* "none", "live", or "interrupted" once its context is done
  \* the goroutine of each call
  call,          \* where it is
  eval,          \* what its EvaluatePermission found
  \* Gate
  pending, rules,
  chan,          \* the channel each request waits on
  timer,         \* the request's AfterFunc timer and its callback
  \* Sandbox
  approvedPaths,
  \* gateway goroutines
  answerer,
  \* history
  accepted,      \* answers the gate has accepted for each request
  allowed,       \* calls the user has allowed in this run, since they were last made
  opened,        \* paths of the calls the user has allowed in this run
  kept,          \* keys of accepted answers that said remember
  early          \* requests whose timer elapsed before they were pending

runVars == <<run, approvedPaths, allowed, opened>>
gateVars == <<pending, rules, chan, timer>>
historyVars == <<accepted, kept, early>>
vars == <<run, call, eval, pending, rules, chan, timer, approvedPaths,
          answerer, accepted, allowed, opened, kept, early>>

Keys == {CommandKey[c] : c \in Calls} \cup {PathKey[c] : c \in Calls}
Paths == {Path[c] : c \in Calls} \ {NoPath}

\* The renderer's answers: its dialog offers to remember an allow only. The timeout's
\* default deny is an answer too.
Answers == {a \in [allow : BOOLEAN, remember : BOOLEAN] : a.remember => a.allow}
TimedOut == [allow |-> FALSE, remember |-> FALSE]

\* A gateway goroutine between ResolvePermission's lookup and its delivery.
Bringing == [to : Calls, answer : Answers]

ASSUME GateAssumption ==
  /\ Dangerous \subseteq Calls
  /\ CommandKey \in [Calls -> Keys] /\ PathKey \in [Calls -> Keys]
  /\ Path \in [Calls -> Paths \cup {NoPath}]
  /\ NoAnswer \notin Answers \cup Bringing

Places == {"new", "rule", "register", "wait", "approve", "execute",
           "ran", "refused", "failed"}
Over == {"ran", "refused", "failed"}

TypeOK ==
  /\ run \in {"none", "live", "interrupted"}
  /\ call \in [Calls -> Places]
  /\ eval \in [Calls -> {"safe", "path", "command"}]
  /\ pending \subseteq Calls
  /\ rules \subseteq Keys /\ approvedPaths \subseteq Paths
  /\ chan \in [Calls -> Answers \cup {NoAnswer}]
  /\ timer \in [Calls -> {"off", "armed", "stopped", "sending", "spent"}]
  /\ answerer \in [Answerers -> Bringing \cup {NoAnswer}]
  /\ accepted \in [Calls -> Nat]
  /\ allowed \subseteq Calls /\ opened \subseteq Paths /\ kept \subseteq Keys
  /\ early \subseteq Calls

Init ==
  /\ run = "none"
  /\ call = [c \in Calls |-> "new"]
  /\ eval = [c \in Calls |-> "safe"]
  /\ pending = {} /\ rules = {} /\ approvedPaths = {}
  /\ chan = [c \in Calls |-> NoAnswer]
  /\ timer = [c \in Calls |-> "off"]
  /\ answerer = [a \in Answerers |-> NoAnswer]
  /\ accepted = [c \in Calls |-> 0]
  /\ allowed = {} /\ opened = {} /\ kept = {} /\ early = {}

Goto(c, place) == call' = [call EXCEPT ![c] = place]

\* The goroutine's evaluation goes with it.
Return(c, place) ==
  /\ Goto(c, place)
  /\ eval' = [eval EXCEPT ![c] = "safe"]

\* A send into a full channel falls to the select's default.
Send(c, answer) ==
  chan' = [chan EXCEPT ![c] = IF chan[c] = NoAnswer THEN answer ELSE chan[c]]

\* Timer.Stop: a callback that has begun is not stopped.
StopTimer(c) ==
  timer' = [timer EXCEPT ![c] = IF timer[c] = "armed" THEN "stopped" ELSE timer[c]]

------------------------------------------------------------------------------
(* The run around the calls. *)

\* Fault: only the reads granted by attachments are replaced.
ResetPathsKept == approvedPaths' = approvedPaths

\* SetGrantedReads, which the dispatcher calls before and after RunConversation.
ResetPaths == approvedPaths' = {}

BeginRun ==
  /\ run = "none"
  /\ run' = "live"
  /\ ResetPaths
  /\ allowed' = {} /\ opened' = {}
  /\ UNCHANGED <<call, eval, gateVars, answerer, historyVars>>

\* Stop, Abort, a steer or Close.
Interrupt ==
  /\ run = "live"
  /\ run' = "interrupted"
  /\ UNCHANGED <<approvedPaths, allowed, opened, call, eval, gateVars, answerer, historyVars>>

\* The executor has waited for the goroutines of every call it made.
EndRun ==
  /\ run # "none"
  /\ \A c \in Calls : call[c] \in {"new"} \cup Over
  /\ run' = "none"
  /\ ResetPaths
  /\ allowed' = {} /\ opened' = {}
  /\ UNCHANGED <<call, eval, gateVars, answerer, historyVars>>

------------------------------------------------------------------------------
(* A call's goroutine: executeOneTool and RequestPermission. *)

\* EvaluatePermission: a path outside the workspace that this run has not approved
\* decides before the command is looked at; then a dangerous command.
Evaluation(c) ==
  IF Path[c] # NoPath /\ Path[c] \notin approvedPaths THEN "path"
  ELSE IF c \in Dangerous THEN "command" ELSE "safe"

\* The call is evaluated once. What is opened or closed later does not change its request.
Evaluate(c) ==
  /\ run # "none"
  /\ call[c] = "new"
  /\ eval' = [eval EXCEPT ![c] = Evaluation(c)]
  /\ Goto(c, IF Evaluation(c) = "safe" THEN "execute" ELSE "rule")
  /\ UNCHANGED <<runVars, gateVars, answerer, historyVars>>

\* The (tool, level, reason) that the rules are kept by, and the path to open.
KeyOf(c) == IF eval[c] = "path" THEN PathKey[c] ELSE CommandKey[c]
EscapedPath(c) == IF eval[c] = "path" THEN {Path[c]} ELSE {}

\* HasRule: a remembered key skips the request. RequestPermission arms the timer
\* before it registers the request.
CheckRule(c) ==
  /\ call[c] = "rule"
  /\ IF KeyOf(c) \in rules
       THEN Goto(c, "approve") /\ UNCHANGED timer
       ELSE Goto(c, "register") /\ timer' = [timer EXCEPT ![c] = "armed"]
  /\ UNCHANGED <<runVars, eval, pending, rules, chan, answerer, historyVars>>

\* The request is pending, then the renderer is told.
Register(c) ==
  /\ call[c] = "register"
  /\ pending' = pending \cup {c}
  /\ Goto(c, "wait")
  /\ UNCHANGED <<runVars, eval, rules, chan, timer, answerer, historyVars>>

\* The select takes an answer; one that says remember becomes a rule, whatever it
\* answers.
Receive(c) ==
  /\ call[c] = "wait"
  /\ chan[c] # NoAnswer
  /\ chan' = [chan EXCEPT ![c] = NoAnswer]
  /\ rules' = IF chan[c].remember THEN rules \cup {KeyOf(c)} ELSE rules
  /\ IF chan[c].allow THEN Goto(c, "approve") /\ UNCHANGED eval ELSE Return(c, "refused")
  /\ UNCHANGED <<runVars, pending, timer, answerer, historyVars>>

\* The select takes ctx.Done, also when an answer is there, and the request is
\* forgotten unless an answer or the timeout has claimed it.
GiveUp(c) ==
  /\ call[c] = "wait"
  /\ run = "interrupted"
  /\ IF c \in pending THEN StopTimer(c) ELSE UNCHANGED timer
  /\ pending' = pending \ {c}
  /\ Return(c, "failed")
  /\ UNCHANGED <<runVars, rules, chan, answerer, historyVars>>

\* ApprovePath, for a call that an answer or a rule let through in spite of its path.
Approve(c) ==
  /\ call[c] = "approve"
  /\ approvedPaths' = approvedPaths \cup EscapedPath(c)
  /\ Goto(c, "execute")
  /\ UNCHANGED <<run, allowed, opened, eval, gateVars, answerer, historyVars>>

\* The tool returns.
Finish(c) ==
  /\ call[c] = "execute"
  /\ Return(c, "ran")
  /\ UNCHANGED <<runVars, gateVars, answerer, historyVars>>

Answering(c) == \E a \in Answerers : answerer[a] # NoAnswer /\ answerer[a].to = c

\* The model makes the call again: a request of it will have an id, a channel and a
\* timer of its own. What the gate still knows of the last one is gone by then.
Again(c) ==
  /\ run = "live"
  /\ call[c] \in Over
  /\ c \notin pending
  /\ timer[c] \in {"off", "stopped", "spent"}
  /\ ~Answering(c)
  /\ Goto(c, "new")
  /\ chan' = [chan EXCEPT ![c] = NoAnswer]
  /\ timer' = [timer EXCEPT ![c] = "off"]
  /\ accepted' = [accepted EXCEPT ![c] = 0]
  /\ allowed' = allowed \ {c}
  /\ early' = early \ {c}
  /\ UNCHANGED <<run, approvedPaths, opened, eval, pending, rules, answerer, kept>>

------------------------------------------------------------------------------
(* The timeout of a request: deliver, called by the timer's goroutine. *)

\* The timer elapses and its callback removes the entry. To elapse and to take the
\* lock is one step: whoever comes between finds the same as before the first or
\* after the second.
Elapse(c) ==
  /\ timer[c] = "armed"
  /\ timer' = [timer EXCEPT ![c] = "sending"]
  /\ pending' = pending \ {c}
  /\ early' = IF call[c] = "register" THEN early \cup {c} ELSE early
  /\ UNCHANGED <<runVars, call, eval, rules, chan, answerer, accepted, kept>>

TimeOutSend(c) ==
  /\ timer[c] = "sending"
  /\ Send(c, TimedOut)
  /\ timer' = [timer EXCEPT ![c] = "spent"]
  /\ UNCHANGED <<runVars, call, eval, pending, rules, answerer, historyVars>>

------------------------------------------------------------------------------
(* ResolvePermission, called by a gateway goroutine. *)

\* The lookup, which claims the entry; an answer to a request that is not pending
\* has no effect.
Accept(a, c, answer) ==
  /\ answerer[a] = NoAnswer
  /\ c \in pending
  /\ pending' = pending \ {c}
  /\ answerer' = [answerer EXCEPT ![a] = [to |-> c, answer |-> answer]]
  /\ accepted' = [accepted EXCEPT ![c] = @ + 1]
  /\ IF answer.allow
       THEN allowed' = allowed \cup {c} /\ opened' = opened \cup EscapedPath(c)
       ELSE UNCHANGED <<allowed, opened>>
  /\ kept' = IF answer.remember THEN kept \cup {KeyOf(c)} ELSE kept
  /\ UNCHANGED <<run, approvedPaths, call, eval, rules, chan, timer, early>>

\* Fault: the answer goes to whichever request is waiting.
DeliverToAny(a) ==
  /\ answerer[a] # NoAnswer
  /\ \E c \in Calls :
       /\ call[c] = "wait" \/ c = answerer[a].to
       /\ StopTimer(c)
       /\ Send(c, answerer[a].answer)
  /\ answerer' = [answerer EXCEPT ![a] = NoAnswer]
  /\ UNCHANGED <<runVars, call, eval, pending, rules, historyVars>>

\* Fault: deliver sends only if it is the one that removes the entry.
DeliverIfPending(a) ==
  /\ answerer[a] # NoAnswer
  /\ StopTimer(answerer[a].to)
  /\ IF answerer[a].to \in pending
       THEN Send(answerer[a].to, answerer[a].answer)
       ELSE UNCHANGED chan
  /\ pending' = pending \ {answerer[a].to}
  /\ answerer' = [answerer EXCEPT ![a] = NoAnswer]
  /\ UNCHANGED <<runVars, call, eval, rules, historyVars>>

\* The timer is stopped and the answer delivered; a timeout that was faster keeps
\* its place in the channel.
Deliver(a) ==
  /\ answerer[a] # NoAnswer
  /\ StopTimer(answerer[a].to)
  /\ Send(answerer[a].to, answerer[a].answer)
  /\ pending' = pending \ {answerer[a].to}
  /\ answerer' = [answerer EXCEPT ![a] = NoAnswer]
  /\ UNCHANGED <<runVars, call, eval, rules, historyVars>>

------------------------------------------------------------------------------
\* What a call's goroutine does without waiting for anybody but the select.
CallStep(c) ==
  \/ Evaluate(c) \/ CheckRule(c) \/ Register(c)
  \/ Receive(c) \/ GiveUp(c) \/ Approve(c)

Next ==
  \/ BeginRun \/ Interrupt \/ EndRun
  \/ \E c \in Calls : CallStep(c) \/ Finish(c) \/ Again(c) \/ Elapse(c) \/ TimeOutSend(c)
  \/ \E a \in Answerers : Deliver(a) \/ \E c \in Calls, answer \in Answers : Accept(a, c, answer)

Spec == Init /\ [][Next]_vars

\* Goroutines that can move do. The user need not answer, tools need not return, and
\* timers elapse only where a property says so.
Fairness ==
  /\ \A c \in Calls : WF_vars(CallStep(c)) /\ WF_vars(TimeOutSend(c))
  /\ \A a \in Answerers : WF_vars(Deliver(a))

FairSpec == Spec /\ Fairness

------------------------------------------------------------------------------
(* Properties. *)

\* What opens a path: an allow in this run, or a key that was to be remembered.
OpenPaths == opened \cup {Path[d] : d \in {e \in Calls : Path[e] # NoPath /\ PathKey[e] \in kept}}

\* A call executes only if the user allowed it this time; or if its path, when it leaves
\* the workspace, is open, and its command, when it is dangerous, has a key the user
\* remembered. An escaping call is asked about for its path alone: the remembered key of
\* that path lets a dangerous command run too. No timeout, late or double answer, or
\* earlier run lets anything through.
ToolsRunLicensed ==
  \A c \in Calls : call[c] = "execute" =>
    \/ c \in allowed
    \/ /\ Path[c] # NoPath => Path[c] \in OpenPaths
       /\ c \in Dangerous =>
            CommandKey[c] \in kept \/ (Path[c] # NoPath /\ PathKey[c] \in kept)

\* However many gateway goroutines answer a request at once, one answer is accepted.
OneAnswerPerRequest == \A c \in Calls : accepted[c] <= 1

\* A call that is over leaves no entry behind, and no armed timer unless the answer
\* that claimed the entry is about to stop it. The entry does stay for good if the
\* timer elapses between its start and the registration.
GateForgets ==
  \A c \in Calls : call[c] \in Over =>
    /\ c \in pending => c \in early
    /\ timer[c] = "armed" => Answering(c)

\* An accepted answer is lost only to the timeout it raced with or to the end of its
\* run: an allow is not turned into a refusal otherwise.
AllowsAreHonoured ==
  \A c \in allowed : call[c] = "refused" => timer[c] # "stopped"

\* If timers elapse, no call waits for the user for ever, whoever answers and
\* whatever is answered at the same time.
RequestsEnd ==
  (\A c \in Calls : WF_vars(Elapse(c))) =>
    \A c \in Calls : call[c] = "wait" ~> call[c] # "wait"

\* An interrupted run does not wait for the user, nor for the timeout.
InterruptEndsWaits ==
  \A c \in Calls : (call[c] = "wait" /\ run = "interrupted") ~> call[c] # "wait"

==============================================================================
