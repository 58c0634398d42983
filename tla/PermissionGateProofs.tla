------------------------- MODULE PermissionGateProofs -------------------------
(***************************************************************************)
(* Safety of PermissionGate for every set of calls and of answerers.       *)
(***************************************************************************)
EXTENDS PermissionGate, TLAPS

(***************************************************************************)
(* The inductive invariant.                                                *)
(***************************************************************************)

\* Nothing of a call is under way outside a run.
Idle == run = "none" => \A c \in Calls : call[c] \in {"new"} \cup Over

\* Before it waits, a call has no entry and nobody brings it an answer. Only the
\* timeout may have come before the registration.
Unasked ==
  \A c \in Calls :
    /\ call[c] \in {"new", "rule", "register"} =>
         c \notin pending /\ accepted[c] = 0 /\ ~Answering(c)
    /\ call[c] \in {"new", "rule"} => timer[c] = "off" /\ chan[c] = NoAnswer
    /\ call[c] = "register" =>
         /\ timer[c] \in {"armed", "sending", "spent"}
         /\ timer[c] # "armed" => c \in early
         /\ chan[c] \in {TimedOut, NoAnswer}

\* An entry is that of a call that waits and has no answer yet, unless the timeout came
\* before it.
Entries ==
  \A c \in pending :
    /\ accepted[c] = 0
    /\ timer[c] # "stopped"
    /\ call[c] # "wait" \/ chan[c] # NoAnswer \/ timer[c] = "sending" => c \in early

\* Whoever brings an answer, or has allowed a call, has claimed its only entry.
Claims ==
  \A c \in Calls :
    /\ accepted[c] \in {0, 1}
    /\ Answering(c) \/ c \in allowed => accepted[c] = 1

\* An armed timer is that of a request without an answer, whose entry is to be made, is
\* there, or is claimed by an answer on its way.
Armed ==
  \A c \in Calls : timer[c] = "armed" =>
    /\ chan[c] = NoAnswer
    /\ call[c] \in {"register", "wait", "failed"}
    /\ call[c] = "register" \/ (call[c] = "wait" /\ c \in pending) \/ Answering(c)

\* An answer on its way is the one the user gave to the call it names.
OnTheWay ==
  \A a \in Answerers : answerer[a] # NoAnswer =>
    LET c == answerer[a].to  answer == answerer[a].answer IN
    /\ c \in allowed => answer.allow
    /\ call[c] = "wait" /\ answer.allow => c \in allowed
    /\ call[c] = "wait" /\ answer.remember => KeyOf(c) \in kept

\* So is an answer in the channel, unless the timeout was first.
Delivered ==
  \A c \in Calls : chan[c] # NoAnswer =>
    /\ c \in allowed /\ timer[c] = "stopped" => chan[c].allow
    /\ call[c] = "wait" /\ chan[c].allow => c \in allowed
    /\ call[c] = "wait" /\ chan[c].remember => KeyOf(c) \in kept

\* A call is asked about for what its evaluation found: for a path that leaves the
\* workspace, or for a dangerous command whose path, if it leaves too, is open.
Evaluated ==
  \A c \in Calls :
    /\ eval[c] = "path" => Path[c] # NoPath
    /\ call[c] \in {"rule", "register", "wait", "approve"} =>
         \/ eval[c] = "path"
         \/ /\ eval[c] = "command" /\ c \in Dangerous
            /\ Path[c] # NoPath => Path[c] \in OpenPaths

\* Rules, approvals and approved paths come from the user.
Licences ==
  /\ rules \subseteq kept
  /\ \A c \in Calls : call[c] = "approve" => c \in allowed \/ KeyOf(c) \in kept
  /\ \A c \in allowed : call[c] \in {"wait", "approve"} /\ eval[c] = "path" => Path[c] \in opened
  /\ approvedPaths \subseteq OpenPaths

IInv ==
  /\ TypeOK /\ Idle /\ Unasked /\ Entries /\ Claims /\ Armed /\ OnTheWay /\ Delivered
  /\ Evaluated /\ Licences /\ ToolsRunLicensed /\ AllowsAreHonoured

(***************************************************************************)
(* Steps.                                                                  *)
(***************************************************************************)

\* The timeout is an answer that allows nothing; an answer on its way names its call and
\* says what it says; neither can be mistaken for no answer.
LEMMA Shapes ==
  /\ TimedOut \in Answers /\ ~TimedOut.allow /\ ~TimedOut.remember
  /\ NoAnswer \notin Answers /\ NoAnswer \notin Bringing
  /\ \A b \in Bringing : b.to \in Calls /\ b.answer \in Answers
  /\ \A c \in Calls, x \in Answers :
       LET b == [to |-> c, answer |-> x] IN b \in Bringing /\ b.to = c /\ b.answer = x
BY GateAssumption DEF TimedOut, Answers, Bringing

\* Every step keeps the types.
LEMMA TypeOKStep == IInv /\ [Next]_vars => TypeOK'
<1> SUFFICES ASSUME TypeOK, Evaluated, [Next]_vars PROVE TypeOK'
  BY DEF IInv
<1> USE Shapes DEF TypeOK, Places, Goto, Return, vars, runVars, gateVars, historyVars
<1>1. ASSUME BeginRun PROVE TypeOK'
  BY <1>1 DEF BeginRun, ResetPaths
<1>2. ASSUME Interrupt PROVE TypeOK'
  BY <1>2 DEF Interrupt
<1>3. ASSUME EndRun PROVE TypeOK'
  BY <1>3 DEF EndRun, ResetPaths, Over
<1>4. ASSUME NEW c \in Calls, Evaluate(c) PROVE TypeOK'
  BY <1>4 DEF Evaluate, Evaluation
<1>5. ASSUME NEW c \in Calls, CheckRule(c) PROVE TypeOK'
  BY <1>5 DEF CheckRule
<1>6. ASSUME NEW c \in Calls, Register(c) PROVE TypeOK'
  BY <1>6 DEF Register
<1>7. ASSUME NEW c \in Calls, Receive(c) PROVE TypeOK'
  <2>1. KeyOf(c) \in Keys
    BY DEF Keys, KeyOf
  <2>2. rules' \subseteq Keys
    BY <1>7, <2>1 DEF Receive
  <2>3. call' \in [Calls -> Places] /\ eval' \in [Calls -> {"safe", "path", "command"}]
    BY <1>7 DEF Receive
  <2>4. QED
    BY <1>7, <2>2, <2>3 DEF Receive
<1>8. ASSUME NEW c \in Calls, GiveUp(c) PROVE TypeOK'
  BY <1>8 DEF GiveUp, StopTimer
<1>9. ASSUME NEW c \in Calls, Approve(c) PROVE TypeOK'
  <2>1. EscapedPath(c) \subseteq Paths
    BY DEF Paths, EscapedPath, Evaluated
  <2>2. QED
    BY <1>9, <2>1 DEF Approve
<1>10. ASSUME NEW c \in Calls, Finish(c) PROVE TypeOK'
  BY <1>10 DEF Finish
<1>11. ASSUME NEW c \in Calls, Again(c) PROVE TypeOK'
  BY <1>11 DEF Again, Over
<1>12. ASSUME NEW c \in Calls, Elapse(c) PROVE TypeOK'
  BY <1>12 DEF Elapse
<1>13. ASSUME NEW c \in Calls, TimeOutSend(c) PROVE TypeOK'
  BY <1>13 DEF TimeOutSend, Send
<1>14. ASSUME NEW a \in Answerers, Deliver(a) PROVE TypeOK'
  BY <1>14 DEF Deliver, StopTimer, Send
<1>15. ASSUME NEW a \in Answerers, NEW c \in Calls, NEW answer \in Answers, Accept(a, c, answer) PROVE TypeOK'
  <2>1. EscapedPath(c) \subseteq Paths /\ KeyOf(c) \in Keys
    BY DEF Paths, Keys, EscapedPath, Evaluated, KeyOf
  <2>2. allowed' \subseteq Calls /\ opened' \subseteq Paths
    BY <1>15, <2>1 DEF Accept
  <2>3. kept' \subseteq Keys
    BY <1>15, <2>1 DEF Accept
  <2>4. answerer' \in [Answerers -> Bringing \cup {NoAnswer}]
    BY <1>15 DEF Accept
  <2>5. QED
    BY <1>15, <2>2, <2>3, <2>4 DEF Accept
<1>16. CASE UNCHANGED vars
  BY <1>16
<1>17. QED
  BY <1>1, <1>2, <1>3, <1>4, <1>5, <1>6, <1>7, <1>8, <1>9, <1>10, <1>11,
     <1>12, <1>13, <1>14, <1>15, <1>16 DEF Next, CallStep

\* Every step keeps calls within a run.
LEMMA IdleStep == IInv /\ [Next]_vars => Idle'
<1> SUFFICES ASSUME TypeOK, Idle, [Next]_vars PROVE Idle'
  BY DEF IInv
<1> USE Shapes DEF TypeOK, Idle, Places, Goto, Return, vars, runVars, gateVars, historyVars
<1>1. ASSUME BeginRun PROVE Idle'
  BY <1>1 DEF BeginRun, Over, ResetPaths
<1>2. ASSUME Interrupt PROVE Idle'
  BY <1>2 DEF Interrupt, Over
<1>3. ASSUME EndRun PROVE Idle'
  BY <1>3 DEF EndRun, Over, ResetPaths
<1>4. ASSUME NEW c \in Calls, Evaluate(c) PROVE Idle'
  BY <1>4 DEF Evaluate, Over
<1>5. ASSUME NEW c \in Calls, CheckRule(c) PROVE Idle'
  BY <1>5 DEF CheckRule, Over
<1>6. ASSUME NEW c \in Calls, Register(c) PROVE Idle'
  BY <1>6 DEF Register, Over
<1>7. ASSUME NEW c \in Calls, Receive(c) PROVE Idle'
  BY <1>7 DEF Receive, Over
<1>8. ASSUME NEW c \in Calls, GiveUp(c) PROVE Idle'
  BY <1>8 DEF GiveUp, Over, StopTimer
<1>9. ASSUME NEW c \in Calls, Approve(c) PROVE Idle'
  BY <1>9 DEF Approve, Over
<1>10. ASSUME NEW c \in Calls, Finish(c) PROVE Idle'
  BY <1>10 DEF Finish, Over
<1>11. ASSUME NEW c \in Calls, Again(c) PROVE Idle'
  BY <1>11 DEF Again, Over
<1>12. ASSUME NEW c \in Calls, Elapse(c) PROVE Idle'
  BY <1>12 DEF Elapse, Over
<1>13. ASSUME NEW c \in Calls, TimeOutSend(c) PROVE Idle'
  BY <1>13 DEF TimeOutSend, Over, Send
<1>14. ASSUME NEW a \in Answerers, Deliver(a) PROVE Idle'
  BY <1>14 DEF Deliver, Over, StopTimer, Send
<1>15. ASSUME NEW a \in Answerers, NEW c \in Calls, NEW answer \in Answers, Accept(a, c, answer) PROVE Idle'
  BY <1>15 DEF Accept, Over
<1>16. CASE UNCHANGED vars
  BY <1>16 DEF Over
<1>17. QED
  BY <1>1, <1>2, <1>3, <1>4, <1>5, <1>6, <1>7, <1>8, <1>9, <1>10, <1>11,
     <1>12, <1>13, <1>14, <1>15, <1>16 DEF Next, CallStep

\* Every step keeps what is not asked yet out of the gate.
LEMMA UnaskedStep == IInv /\ [Next]_vars => Unasked'
<1> SUFFICES ASSUME TypeOK, Unasked, Entries, Armed, [Next]_vars PROVE Unasked'
  BY DEF IInv
<1> USE Shapes DEF TypeOK, Unasked, Places, Goto, Return, vars, runVars, gateVars, historyVars
<1>1. ASSUME BeginRun PROVE Unasked'
  BY <1>1 DEF BeginRun, Answering, ResetPaths
<1>2. ASSUME Interrupt PROVE Unasked'
  BY <1>2 DEF Interrupt, Answering
<1>3. ASSUME EndRun PROVE Unasked'
  BY <1>3 DEF EndRun, Answering, ResetPaths, Over
<1>4. ASSUME NEW c \in Calls, Evaluate(c) PROVE Unasked'
  BY <1>4 DEF Evaluate, Answering
<1>5. ASSUME NEW c \in Calls, CheckRule(c) PROVE Unasked'
  BY <1>5 DEF CheckRule, Answering
<1>6. ASSUME NEW c \in Calls, Register(c) PROVE Unasked'
  BY <1>6 DEF Register, Answering
<1>7. ASSUME NEW c \in Calls, Receive(c) PROVE Unasked'
  BY <1>7 DEF Receive, Answering
<1>8. ASSUME NEW c \in Calls, GiveUp(c) PROVE Unasked'
  BY <1>8 DEF GiveUp, Answering, StopTimer
<1>9. ASSUME NEW c \in Calls, Approve(c) PROVE Unasked'
  BY <1>9 DEF Approve, Answering
<1>10. ASSUME NEW c \in Calls, Finish(c) PROVE Unasked'
  BY <1>10 DEF Finish, Answering
<1>11. ASSUME NEW c \in Calls, Again(c) PROVE Unasked'
  BY <1>11 DEF Again, Answering, Over
<1>12. ASSUME NEW c \in Calls, Elapse(c) PROVE Unasked'
  BY <1>12 DEF Elapse, Answering
<1>13. ASSUME NEW c \in Calls, TimeOutSend(c) PROVE Unasked'
  BY <1>13 DEF TimeOutSend, Answering, Send
<1>14. ASSUME NEW a \in Answerers, Deliver(a) PROVE Unasked'
  BY <1>14 DEF Deliver, Answering, StopTimer, Send
<1>15. ASSUME NEW a \in Answerers, NEW c \in Calls, NEW answer \in Answers, Accept(a, c, answer) PROVE Unasked'
  BY <1>15 DEF Accept, Answering
<1>16. CASE UNCHANGED vars
  BY <1>16 DEF Answering
<1>17. QED
  BY <1>1, <1>2, <1>3, <1>4, <1>5, <1>6, <1>7, <1>8, <1>9, <1>10, <1>11,
     <1>12, <1>13, <1>14, <1>15, <1>16 DEF Next, CallStep

\* Every step keeps the entries those of calls that wait.
LEMMA EntriesStep == IInv /\ [Next]_vars => Entries'
<1> SUFFICES ASSUME TypeOK, Unasked, Entries, Claims, Armed, [Next]_vars PROVE Entries'
  BY DEF IInv
<1> USE Shapes DEF TypeOK, Entries, Places, Goto, Return, vars, runVars, gateVars, historyVars
<1>1. ASSUME BeginRun PROVE Entries'
  BY <1>1 DEF BeginRun, Answering, ResetPaths
<1>2. ASSUME Interrupt PROVE Entries'
  BY <1>2 DEF Interrupt, Answering
<1>3. ASSUME EndRun PROVE Entries'
  BY <1>3 DEF EndRun, Answering, ResetPaths, Over
<1>4. ASSUME NEW c \in Calls, Evaluate(c) PROVE Entries'
  BY <1>4 DEF Evaluate, Answering
<1>5. ASSUME NEW c \in Calls, CheckRule(c) PROVE Entries'
  BY <1>5 DEF CheckRule, Answering
<1>6. ASSUME NEW c \in Calls, Register(c) PROVE Entries'
  <2>1. accepted[c] = 0 /\ timer[c] # "stopped" /\ (chan[c] # NoAnswer \/ timer[c] = "sending" => c \in early)
    BY <1>6 DEF Register, Unasked, Armed
  <2>2. QED
    BY <1>6, <2>1 DEF Register
<1>7. ASSUME NEW c \in Calls, Receive(c) PROVE Entries'
  BY <1>7 DEF Receive, Answering
<1>8. ASSUME NEW c \in Calls, GiveUp(c) PROVE Entries'
  BY <1>8 DEF GiveUp, Answering, StopTimer
<1>9. ASSUME NEW c \in Calls, Approve(c) PROVE Entries'
  BY <1>9 DEF Approve, Answering
<1>10. ASSUME NEW c \in Calls, Finish(c) PROVE Entries'
  BY <1>10 DEF Finish, Answering
<1>11. ASSUME NEW c \in Calls, Again(c) PROVE Entries'
  BY <1>11 DEF Again, Answering, Over
<1>12. ASSUME NEW c \in Calls, Elapse(c) PROVE Entries'
  BY <1>12 DEF Elapse, Answering
<1>13. ASSUME NEW c \in Calls, TimeOutSend(c) PROVE Entries'
  BY <1>13 DEF TimeOutSend, Answering, Send
<1>14. ASSUME NEW a \in Answerers, Deliver(a) PROVE Entries'
  BY <1>14 DEF Deliver, Answering, StopTimer, Send
<1>15. ASSUME NEW a \in Answerers, NEW c \in Calls, NEW answer \in Answers, Accept(a, c, answer) PROVE Entries'
  BY <1>15 DEF Accept, Answering
<1>16. CASE UNCHANGED vars
  BY <1>16 DEF Answering
<1>17. QED
  BY <1>1, <1>2, <1>3, <1>4, <1>5, <1>6, <1>7, <1>8, <1>9, <1>10, <1>11,
     <1>12, <1>13, <1>14, <1>15, <1>16 DEF Next, CallStep

\* Every step keeps an entry claimed at most once.
LEMMA ClaimsStep == IInv /\ [Next]_vars => Claims'
<1> SUFFICES ASSUME TypeOK, Unasked, Entries, Claims, [Next]_vars PROVE Claims'
  BY DEF IInv
<1> USE Shapes DEF TypeOK, Claims, Places, Goto, Return, vars, runVars, gateVars, historyVars
<1>1. ASSUME BeginRun PROVE Claims'
  BY <1>1 DEF BeginRun, Answering, ResetPaths
<1>2. ASSUME Interrupt PROVE Claims'
  BY <1>2 DEF Interrupt, Answering
<1>3. ASSUME EndRun PROVE Claims'
  BY <1>3 DEF EndRun, Answering, ResetPaths, Over
<1>4. ASSUME NEW c \in Calls, Evaluate(c) PROVE Claims'
  BY <1>4 DEF Evaluate, Answering
<1>5. ASSUME NEW c \in Calls, CheckRule(c) PROVE Claims'
  BY <1>5 DEF CheckRule, Answering
<1>6. ASSUME NEW c \in Calls, Register(c) PROVE Claims'
  BY <1>6 DEF Register, Answering
<1>7. ASSUME NEW c \in Calls, Receive(c) PROVE Claims'
  BY <1>7 DEF Receive, Answering
<1>8. ASSUME NEW c \in Calls, GiveUp(c) PROVE Claims'
  BY <1>8 DEF GiveUp, Answering, StopTimer
<1>9. ASSUME NEW c \in Calls, Approve(c) PROVE Claims'
  BY <1>9 DEF Approve, Answering
<1>10. ASSUME NEW c \in Calls, Finish(c) PROVE Claims'
  BY <1>10 DEF Finish, Answering
<1>11. ASSUME NEW c \in Calls, Again(c) PROVE Claims'
  BY <1>11 DEF Again, Answering, Over
<1>12. ASSUME NEW c \in Calls, Elapse(c) PROVE Claims'
  BY <1>12 DEF Elapse, Answering
<1>13. ASSUME NEW c \in Calls, TimeOutSend(c) PROVE Claims'
  BY <1>13 DEF TimeOutSend, Answering, Send
<1>14. ASSUME NEW a \in Answerers, Deliver(a) PROVE Claims'
  BY <1>14 DEF Deliver, Answering, StopTimer, Send
<1>15. ASSUME NEW a \in Answerers, NEW c \in Calls, NEW answer \in Answers, Accept(a, c, answer) PROVE Claims'
  <2>1. accepted[c] = 0
    BY <1>15 DEF Accept, Entries
  <2>2. accepted' = [accepted EXCEPT ![c] = 1]
    BY <1>15, <2>1 DEF Accept
  <2>3. ASSUME NEW d \in Calls, d # c, Answering(d)' \/ d \in allowed' PROVE accepted[d] = 1
    <3>1. Answering(d) \/ d \in allowed
      BY <1>15, <2>3 DEF Accept, Answering
    <3>2. QED
      BY <3>1
  <2>4. ASSUME NEW d \in Calls PROVE accepted'[d] \in {0, 1}
    BY <2>2
  <2>5. QED
    BY <2>2, <2>3, <2>4
<1>16. CASE UNCHANGED vars
  BY <1>16 DEF Answering
<1>17. QED
  BY <1>1, <1>2, <1>3, <1>4, <1>5, <1>6, <1>7, <1>8, <1>9, <1>10, <1>11,
     <1>12, <1>13, <1>14, <1>15, <1>16 DEF Next, CallStep

\* Every step keeps the armed timers where somebody will stop them.
LEMMA ArmedStep == IInv /\ [Next]_vars => Armed'
<1> SUFFICES ASSUME TypeOK, Unasked, Entries, Armed, [Next]_vars PROVE Armed'
  BY DEF IInv
<1> USE Shapes DEF TypeOK, Armed, Places, Goto, Return, vars, runVars, gateVars, historyVars
<1>1. ASSUME BeginRun PROVE Armed'
  BY <1>1 DEF BeginRun, Answering, ResetPaths
<1>2. ASSUME Interrupt PROVE Armed'
  BY <1>2 DEF Interrupt, Answering
<1>3. ASSUME EndRun PROVE Armed'
  BY <1>3 DEF EndRun, Answering, ResetPaths, Over
<1>4. ASSUME NEW c \in Calls, Evaluate(c) PROVE Armed'
  BY <1>4 DEF Evaluate, Answering
<1>5. ASSUME NEW c \in Calls, CheckRule(c) PROVE Armed'
  <2>1. call[c] = "rule" /\ chan[c] = NoAnswer /\ timer[c] = "off"
    BY <1>5 DEF CheckRule, Unasked
  <2>2. UNCHANGED <<chan, pending, answerer>>
    BY <1>5 DEF CheckRule
  <2>3. \A d \in Calls : d # c => call'[d] = call[d] /\ timer'[d] = timer[d]
    BY <1>5 DEF CheckRule
  <2>4. timer'[c] = "armed" => call'[c] = "register"
    BY <1>5, <2>1 DEF CheckRule
  <2>5. QED
    BY <2>1, <2>2, <2>3, <2>4 DEF Answering
<1>6. ASSUME NEW c \in Calls, Register(c) PROVE Armed'
  BY <1>6 DEF Register, Answering
<1>7. ASSUME NEW c \in Calls, Receive(c) PROVE Armed'
  BY <1>7 DEF Receive, Answering
<1>8. ASSUME NEW c \in Calls, GiveUp(c) PROVE Armed'
  BY <1>8 DEF GiveUp, Answering, StopTimer
<1>9. ASSUME NEW c \in Calls, Approve(c) PROVE Armed'
  BY <1>9 DEF Approve, Answering
<1>10. ASSUME NEW c \in Calls, Finish(c) PROVE Armed'
  BY <1>10 DEF Finish, Answering
<1>11. ASSUME NEW c \in Calls, Again(c) PROVE Armed'
  BY <1>11 DEF Again, Answering, Over
<1>12. ASSUME NEW c \in Calls, Elapse(c) PROVE Armed'
  BY <1>12 DEF Elapse, Answering
<1>13. ASSUME NEW c \in Calls, TimeOutSend(c) PROVE Armed'
  BY <1>13 DEF TimeOutSend, Answering, Send
<1>14. ASSUME NEW a \in Answerers, Deliver(a) PROVE Armed'
  BY <1>14 DEF Deliver, Answering, StopTimer, Send
<1>15. ASSUME NEW a \in Answerers, NEW c \in Calls, NEW answer \in Answers, Accept(a, c, answer) PROVE Armed'
  BY <1>15 DEF Accept, Answering
<1>16. CASE UNCHANGED vars
  BY <1>16 DEF Answering
<1>17. QED
  BY <1>1, <1>2, <1>3, <1>4, <1>5, <1>6, <1>7, <1>8, <1>9, <1>10, <1>11,
     <1>12, <1>13, <1>14, <1>15, <1>16 DEF Next, CallStep

\* Every step keeps the answers on their way true to what the user said.
LEMMA OnTheWayStep == IInv /\ [Next]_vars => OnTheWay'
<1> SUFFICES ASSUME TypeOK, Idle, Unasked, Entries, Claims, OnTheWay, [Next]_vars PROVE OnTheWay'
  BY DEF IInv
<1> USE Shapes DEF TypeOK, OnTheWay, KeyOf, Places, Goto, Return, vars, runVars, gateVars, historyVars
<1>1. ASSUME BeginRun PROVE OnTheWay'
  <2>1. \A c \in Calls : call[c] # "wait"
    BY <1>1 DEF BeginRun, Idle, Over
  <2>2. QED
    BY <1>1, <2>1 DEF BeginRun
<1>2. ASSUME Interrupt PROVE OnTheWay'
  BY <1>2 DEF Interrupt, Answering
<1>3. ASSUME EndRun PROVE OnTheWay'
  BY <1>3 DEF EndRun, Answering, ResetPaths, Over
<1>4. ASSUME NEW c \in Calls, Evaluate(c) PROVE OnTheWay'
  BY <1>4 DEF Evaluate, Answering
<1>5. ASSUME NEW c \in Calls, CheckRule(c) PROVE OnTheWay'
  BY <1>5 DEF CheckRule, Answering
<1>6. ASSUME NEW c \in Calls, Register(c) PROVE OnTheWay'
  <2>1. ~Answering(c)
    BY <1>6 DEF Register, Unasked
  <2>2. ASSUME NEW a \in Answerers, answerer[a] # NoAnswer PROVE answerer[a].to # c
    BY <2>1, <2>2 DEF Answering
  <2>3. ASSUME NEW d \in Calls, d # c PROVE call'[d] = call[d]
    BY <1>6, <2>3 DEF Register
  <2>4. QED
    BY <1>6, <2>2, <2>3 DEF Register
<1>7. ASSUME NEW c \in Calls, Receive(c) PROVE OnTheWay'
  BY <1>7 DEF Receive, Answering
<1>8. ASSUME NEW c \in Calls, GiveUp(c) PROVE OnTheWay'
  BY <1>8 DEF GiveUp, Answering, StopTimer
<1>9. ASSUME NEW c \in Calls, Approve(c) PROVE OnTheWay'
  BY <1>9 DEF Approve, Answering
<1>10. ASSUME NEW c \in Calls, Finish(c) PROVE OnTheWay'
  BY <1>10 DEF Finish, Answering
<1>11. ASSUME NEW c \in Calls, Again(c) PROVE OnTheWay'
  BY <1>11 DEF Again, Answering, Over
<1>12. ASSUME NEW c \in Calls, Elapse(c) PROVE OnTheWay'
  BY <1>12 DEF Elapse, Answering
<1>13. ASSUME NEW c \in Calls, TimeOutSend(c) PROVE OnTheWay'
  BY <1>13 DEF TimeOutSend, Answering, Send
<1>14. ASSUME NEW a \in Answerers, Deliver(a) PROVE OnTheWay'
  BY <1>14 DEF Deliver, Answering, StopTimer, Send
<1>15. ASSUME NEW a \in Answerers, NEW c \in Calls, NEW answer \in Answers, Accept(a, c, answer) PROVE OnTheWay'
  <2>1. ~Answering(c) /\ c \notin allowed
    BY <1>15 DEF Accept, Entries, Claims
  <2>2. answerer[a] = NoAnswer /\ c \in Calls
    BY <1>15 DEF Accept
  <2>3. answerer'[a] = [to |-> c, answer |-> answer]
    BY <1>15 DEF Accept
  <2>4. allowed' = IF answer.allow THEN allowed \cup {c} ELSE allowed
    BY <1>15 DEF Accept
  <2>5. kept \subseteq kept' /\ (answer.remember => KeyOf(c) \in kept')
    BY <1>15 DEF Accept
  <2>6. call' = call /\ eval' = eval
    BY <1>15 DEF Accept
  <2>7. ASSUME NEW b \in Answerers, b # a, answerer'[b] # NoAnswer
        PROVE  answerer'[b] = answerer[b] /\ answerer[b].to # c
    BY <1>15, <2>1, <2>7 DEF Accept, Answering
  <2>8. ASSUME NEW b \in Answerers, b # a, answerer'[b] # NoAnswer,
               NEW d, d = answerer'[b].to
        PROVE  /\ d \in allowed' => answerer'[b].answer.allow
               /\ call'[d] = "wait" /\ answerer'[b].answer.allow => d \in allowed'
               /\ call'[d] = "wait" /\ answerer'[b].answer.remember => KeyOf(d)' \in kept'
    BY <2>4, <2>5, <2>6, <2>7, <2>8
  <2>9. QED
    BY <2>1, <2>3, <2>4, <2>5, <2>6, <2>8
<1>16. CASE UNCHANGED vars
  BY <1>16 DEF Answering
<1>17. QED
  BY <1>1, <1>2, <1>3, <1>4, <1>5, <1>6, <1>7, <1>8, <1>9, <1>10, <1>11,
     <1>12, <1>13, <1>14, <1>15, <1>16 DEF Next, CallStep

\* Every step keeps the answers in the channels true to what the user said.
LEMMA DeliveredStep == IInv /\ [Next]_vars => Delivered'
<1> SUFFICES ASSUME TypeOK, Idle, Unasked, Entries, Armed, OnTheWay, Delivered, [Next]_vars PROVE Delivered'
  BY DEF IInv
<1> USE Shapes DEF TypeOK, Delivered, KeyOf, Places, Goto, Return, vars, runVars, gateVars, historyVars
<1>1. ASSUME BeginRun PROVE Delivered'
  <2>1. \A c \in Calls : call[c] # "wait"
    BY <1>1 DEF BeginRun, Idle, Over
  <2>2. QED
    BY <1>1, <2>1 DEF BeginRun
<1>2. ASSUME Interrupt PROVE Delivered'
  BY <1>2 DEF Interrupt, Answering
<1>3. ASSUME EndRun PROVE Delivered'
  BY <1>3 DEF EndRun, Answering, ResetPaths, Over
<1>4. ASSUME NEW c \in Calls, Evaluate(c) PROVE Delivered'
  BY <1>4 DEF Evaluate, Answering
<1>5. ASSUME NEW c \in Calls, CheckRule(c) PROVE Delivered'
  BY <1>5 DEF CheckRule, Answering
<1>6. ASSUME NEW c \in Calls, Register(c) PROVE Delivered'
  <2>1. chan[c] \in {TimedOut, NoAnswer}
    BY <1>6 DEF Register, Unasked
  <2>2. eval' = eval /\ \A d \in Calls : d # c => call'[d] = call[d]
    BY <1>6 DEF Register
  <2>3. QED
    BY <1>6, <2>1, <2>2 DEF Register
<1>7. ASSUME NEW c \in Calls, Receive(c) PROVE Delivered'
  BY <1>7 DEF Receive, Answering
<1>8. ASSUME NEW c \in Calls, GiveUp(c) PROVE Delivered'
  <2>1. UNCHANGED <<chan, allowed, kept>> /\ \A d \in Calls : d # c => eval'[d] = eval[d]
    BY <1>8 DEF GiveUp
  <2>2. \A d \in Calls : chan[d] # NoAnswer => timer'[d] = timer[d]
    BY <1>8 DEF GiveUp, StopTimer, Armed
  <2>3. \A d \in Calls : call'[d] = "wait" => call[d] = "wait" /\ d # c
    BY <1>8 DEF GiveUp
  <2>4. QED
    BY <2>1, <2>2, <2>3
<1>9. ASSUME NEW c \in Calls, Approve(c) PROVE Delivered'
  BY <1>9 DEF Approve, Answering
<1>10. ASSUME NEW c \in Calls, Finish(c) PROVE Delivered'
  BY <1>10 DEF Finish, Answering
<1>11. ASSUME NEW c \in Calls, Again(c) PROVE Delivered'
  BY <1>11 DEF Again, Answering, Over
<1>12. ASSUME NEW c \in Calls, Elapse(c) PROVE Delivered'
  BY <1>12 DEF Elapse, Answering
<1>13. ASSUME NEW c \in Calls, TimeOutSend(c) PROVE Delivered'
  BY <1>13 DEF TimeOutSend, Answering, Send
<1>14. ASSUME NEW a \in Answerers, Deliver(a) PROVE Delivered'
  <2> DEFINE c == answerer[a].to
  <2>1. answerer[a] # NoAnswer /\ c \in Calls
    BY <1>14 DEF Deliver
  <2>2. UNCHANGED <<call, eval, allowed, kept>>
    BY <1>14 DEF Deliver
  <2>3. \A d \in Calls : chan[d] # NoAnswer => chan'[d] = chan[d] /\ timer'[d] = timer[d]
    BY <1>14, <2>1 DEF Deliver, StopTimer, Send, Armed
  <2>4. \A d \in Calls : chan[d] = NoAnswer /\ chan'[d] # NoAnswer =>
           d = c /\ chan'[d] = answerer[a].answer
    BY <1>14, <2>1 DEF Deliver, Send
  <2>5. /\ c \in allowed => answerer[a].answer.allow
        /\ call[c] = "wait" /\ answerer[a].answer.allow => c \in allowed
        /\ call[c] = "wait" /\ answerer[a].answer.remember => KeyOf(c) \in kept
    BY <2>1 DEF OnTheWay
  <2> HIDE DEF c
  <2>6. QED
    BY <2>2, <2>3, <2>4, <2>5
<1>15. ASSUME NEW a \in Answerers, NEW c \in Calls, NEW answer \in Answers, Accept(a, c, answer) PROVE Delivered'
  <2>1. UNCHANGED <<call, eval, chan, timer>> /\ timer[c] # "stopped"
    BY <1>15 DEF Accept, Entries
  <2>2. allowed \subseteq allowed' /\ allowed' \subseteq allowed \cup {c} /\ kept \subseteq kept'
    BY <1>15 DEF Accept
  <2>3. QED
    BY <2>1, <2>2
<1>16. CASE UNCHANGED vars
  BY <1>16 DEF Answering
<1>17. QED
  BY <1>1, <1>2, <1>3, <1>4, <1>5, <1>6, <1>7, <1>8, <1>9, <1>10, <1>11,
     <1>12, <1>13, <1>14, <1>15, <1>16 DEF Next, CallStep

\* Every step keeps what a call is asked about true to its evaluation.
LEMMA EvaluatedStep == IInv /\ [Next]_vars => Evaluated'
<1> SUFFICES ASSUME TypeOK, Idle, Evaluated, Licences, [Next]_vars PROVE Evaluated'
  BY DEF IInv
<1> DEFINE Asking == {"rule", "register", "wait", "approve"}
<1> USE Shapes DEF TypeOK, Evaluated, Places, Goto, Return, vars, runVars, gateVars, historyVars
<1>1. ASSUME BeginRun PROVE Evaluated'
  <2>1. eval' = eval /\ \A c \in Calls : call'[c] \notin Asking
    BY <1>1 DEF BeginRun, Idle, Over
  <2>2. QED
    BY <2>1
<1>2. ASSUME Interrupt PROVE Evaluated'
  BY <1>2 DEF Interrupt, OpenPaths
<1>3. ASSUME EndRun PROVE Evaluated'
  <2>1. eval' = eval /\ \A c \in Calls : call'[c] \notin Asking
    BY <1>3 DEF EndRun, Idle, Over
  <2>2. QED
    BY <2>1
<1>4. ASSUME NEW c \in Calls, Evaluate(c) PROVE Evaluated'
  <2>1. UNCHANGED <<opened, kept>>
    BY <1>4 DEF Evaluate
  <2>2. \A d \in Calls : d # c => call'[d] = call[d] /\ eval'[d] = eval[d]
    BY <1>4 DEF Evaluate
  <2>3. eval'[c] = Evaluation(c) /\ (call'[c] # "execute" => Evaluation(c) # "safe")
    BY <1>4 DEF Evaluate, Evaluation
  <2>4. /\ Evaluation(c) = "path" => Path[c] # NoPath
        /\ Evaluation(c) = "command" => c \in Dangerous /\ (Path[c] # NoPath => Path[c] \in OpenPaths)
        /\ Evaluation(c) \in {"safe", "path", "command"}
    BY DEF Evaluation, Licences
  <2>5. QED
    BY <2>1, <2>2, <2>3, <2>4 DEF OpenPaths
<1>5. ASSUME NEW c \in Calls, CheckRule(c) PROVE Evaluated'
  BY <1>5 DEF CheckRule, OpenPaths
<1>6. ASSUME NEW c \in Calls, Register(c) PROVE Evaluated'
  BY <1>6 DEF Register, OpenPaths
<1>7. ASSUME NEW c \in Calls, Receive(c) PROVE Evaluated'
  BY <1>7 DEF Receive, OpenPaths
<1>8. ASSUME NEW c \in Calls, GiveUp(c) PROVE Evaluated'
  BY <1>8 DEF GiveUp, OpenPaths
<1>9. ASSUME NEW c \in Calls, Approve(c) PROVE Evaluated'
  BY <1>9 DEF Approve, OpenPaths
<1>10. ASSUME NEW c \in Calls, Finish(c) PROVE Evaluated'
  BY <1>10 DEF Finish, OpenPaths
<1>11. ASSUME NEW c \in Calls, Again(c) PROVE Evaluated'
  BY <1>11 DEF Again, OpenPaths, Over
<1>12. ASSUME NEW c \in Calls, Elapse(c) PROVE Evaluated'
  BY <1>12 DEF Elapse, OpenPaths
<1>13. ASSUME NEW c \in Calls, TimeOutSend(c) PROVE Evaluated'
  BY <1>13 DEF TimeOutSend, OpenPaths
<1>14. ASSUME NEW a \in Answerers, Deliver(a) PROVE Evaluated'
  BY <1>14 DEF Deliver, OpenPaths
<1>15. ASSUME NEW a \in Answerers, NEW c \in Calls, NEW answer \in Answers, Accept(a, c, answer) PROVE Evaluated'
  <2>1. UNCHANGED <<call, eval>> /\ opened \subseteq opened' /\ kept \subseteq kept'
    BY <1>15 DEF Accept
  <2>2. OpenPaths \subseteq OpenPaths'
    BY <2>1 DEF OpenPaths
  <2>3. QED
    BY <2>1, <2>2
<1>16. CASE UNCHANGED vars
  BY <1>16 DEF OpenPaths
<1>17. QED
  BY <1>1, <1>2, <1>3, <1>4, <1>5, <1>6, <1>7, <1>8, <1>9, <1>10, <1>11,
     <1>12, <1>13, <1>14, <1>15, <1>16 DEF Next, CallStep

\* Every step keeps rules and approvals licensed by the user.
LEMMA LicencesStep == IInv /\ [Next]_vars => Licences'
<1> SUFFICES ASSUME TypeOK, Idle, Unasked, Claims, Delivered, Evaluated, Licences, [Next]_vars PROVE Licences'
  BY DEF IInv
<1> USE Shapes DEF TypeOK, Licences, KeyOf, Places, Goto, Return, vars, runVars, gateVars, historyVars
<1>1. ASSUME BeginRun PROVE Licences'
  <2>1. \A c \in Calls : call[c] \notin {"wait", "approve"}
    BY <1>1 DEF BeginRun, Idle, Over
  <2>2. QED
    BY <1>1, <2>1 DEF BeginRun, ResetPaths, OpenPaths
<1>2. ASSUME Interrupt PROVE Licences'
  BY <1>2 DEF Interrupt, OpenPaths
<1>3. ASSUME EndRun PROVE Licences'
  BY <1>3 DEF EndRun, OpenPaths, ResetPaths, Over
<1>4. ASSUME NEW c \in Calls, Evaluate(c) PROVE Licences'
  BY <1>4 DEF Evaluate, OpenPaths
<1>5. ASSUME NEW c \in Calls, CheckRule(c) PROVE Licences'
  <2>1. c \notin allowed
    BY <1>5 DEF CheckRule, Unasked, Claims
  <2>2. QED
    BY <1>5, <2>1 DEF CheckRule, OpenPaths
<1>6. ASSUME NEW c \in Calls, Register(c) PROVE Licences'
  <2>1. c \notin allowed
    BY <1>6 DEF Register, Unasked, Claims
  <2>2. QED
    BY <1>6, <2>1 DEF Register, OpenPaths
<1>7. ASSUME NEW c \in Calls, Receive(c) PROVE Licences'
  <2>1. chan[c] # NoAnswer /\ call[c] = "wait"
    BY <1>7 DEF Receive
  <2>2. UNCHANGED <<allowed, opened, kept, approvedPaths>>
    BY <1>7 DEF Receive
  <2>3. rules' \subseteq kept
    BY <1>7, <2>1 DEF Receive, Delivered
  <2>4. call'[c] = "approve" => c \in allowed /\ eval'[c] = eval[c]
    BY <1>7, <2>1 DEF Receive, Delivered
  <2>5. call'[c] # "wait" /\ \A d \in Calls : d # c => call'[d] = call[d] /\ eval'[d] = eval[d]
    BY <1>7 DEF Receive
  <2>6. QED
    BY <2>1, <2>2, <2>3, <2>4, <2>5 DEF OpenPaths
<1>8. ASSUME NEW c \in Calls, GiveUp(c) PROVE Licences'
  BY <1>8 DEF GiveUp, OpenPaths, StopTimer
<1>9. ASSUME NEW c \in Calls, Approve(c) PROVE Licences'
  <2>1. UNCHANGED <<eval, rules, allowed, opened, kept>> /\ OpenPaths' = OpenPaths
    BY <1>9 DEF Approve, OpenPaths
  <2>2. call'[c] = "execute" /\ \A d \in Calls : d # c => call'[d] = call[d]
    BY <1>9 DEF Approve
  <2>3. EscapedPath(c) \subseteq OpenPaths
    BY <1>9 DEF Approve, EscapedPath, Evaluated, OpenPaths
  <2>4. approvedPaths' \subseteq OpenPaths'
    BY <1>9, <2>1, <2>3 DEF Approve
  <2>5. QED
    BY <2>1, <2>2, <2>4
<1>10. ASSUME NEW c \in Calls, Finish(c) PROVE Licences'
  BY <1>10 DEF Finish, OpenPaths
<1>11. ASSUME NEW c \in Calls, Again(c) PROVE Licences'
  BY <1>11 DEF Again, OpenPaths, Over
<1>12. ASSUME NEW c \in Calls, Elapse(c) PROVE Licences'
  BY <1>12 DEF Elapse, OpenPaths
<1>13. ASSUME NEW c \in Calls, TimeOutSend(c) PROVE Licences'
  BY <1>13 DEF TimeOutSend, OpenPaths, Send
<1>14. ASSUME NEW a \in Answerers, Deliver(a) PROVE Licences'
  BY <1>14 DEF Deliver, OpenPaths, StopTimer, Send
<1>15. ASSUME NEW a \in Answerers, NEW c \in Calls, NEW answer \in Answers, Accept(a, c, answer) PROVE Licences'
  <2>1. UNCHANGED <<call, eval, rules, approvedPaths>> /\ opened \subseteq opened' /\ kept \subseteq kept'
    BY <1>15 DEF Accept
  <2>2. OpenPaths \subseteq OpenPaths'
    BY <2>1 DEF OpenPaths
  <2>3. allowed' \subseteq allowed \cup {c}
    BY <1>15 DEF Accept
  <2>4. c \in allowed' /\ c \notin allowed /\ eval[c] = "path" => Path[c] \in opened'
    BY <1>15 DEF Accept, EscapedPath
  <2>5. allowed \subseteq allowed'
    BY <1>15 DEF Accept
  <2>6. QED
    BY <2>1, <2>2, <2>3, <2>4, <2>5
<1>16. CASE UNCHANGED vars
  BY <1>16 DEF OpenPaths
<1>17. QED
  BY <1>1, <1>2, <1>3, <1>4, <1>5, <1>6, <1>7, <1>8, <1>9, <1>10, <1>11,
     <1>12, <1>13, <1>14, <1>15, <1>16 DEF Next, CallStep

\* Every step lets only licensed calls execute.
LEMMA ToolsRunLicensedStep == IInv /\ [Next]_vars => ToolsRunLicensed'
<1> SUFFICES ASSUME TypeOK, Idle, Evaluated, Licences, ToolsRunLicensed, [Next]_vars PROVE ToolsRunLicensed'
  BY DEF IInv
<1> USE Shapes DEF TypeOK, ToolsRunLicensed, OpenPaths, Places, Goto, Return, vars, runVars, gateVars, historyVars
<1>1. ASSUME BeginRun PROVE ToolsRunLicensed'
  <2>1. \A c \in Calls : call'[c] # "execute"
    BY <1>1 DEF BeginRun, Idle, Over
  <2>2. QED
    BY <2>1
<1>2. ASSUME Interrupt PROVE ToolsRunLicensed'
  BY <1>2 DEF Interrupt
<1>3. ASSUME EndRun PROVE ToolsRunLicensed'
  BY <1>3 DEF EndRun, ResetPaths, Over
<1>4. ASSUME NEW c \in Calls, Evaluate(c) PROVE ToolsRunLicensed'
  <2>1. UNCHANGED <<allowed, opened, kept>>
    BY <1>4 DEF Evaluate
  <2>2. \A d \in Calls : d # c => call'[d] = call[d]
    BY <1>4 DEF Evaluate
  <2>3. call'[c] = "execute" =>
          c \notin Dangerous /\ (Path[c] = NoPath \/ Path[c] \in OpenPaths)
    BY <1>4 DEF Evaluate, Evaluation, Licences
  <2>4. QED
    BY <2>1, <2>2, <2>3
<1>5. ASSUME NEW c \in Calls, CheckRule(c) PROVE ToolsRunLicensed'
  BY <1>5 DEF CheckRule
<1>6. ASSUME NEW c \in Calls, Register(c) PROVE ToolsRunLicensed'
  BY <1>6 DEF Register
<1>7. ASSUME NEW c \in Calls, Receive(c) PROVE ToolsRunLicensed'
  BY <1>7 DEF Receive
<1>8. ASSUME NEW c \in Calls, GiveUp(c) PROVE ToolsRunLicensed'
  BY <1>8 DEF GiveUp, StopTimer
<1>9. ASSUME NEW c \in Calls, Approve(c) PROVE ToolsRunLicensed'
  <2>1. UNCHANGED <<allowed, opened, kept>>
    BY <1>9 DEF Approve
  <2>2. \A d \in Calls : d # c => call'[d] = call[d]
    BY <1>9 DEF Approve
  <2>3. c \in allowed \/ KeyOf(c) \in kept
    BY <1>9 DEF Approve, Licences
  <2>4. CASE eval[c] = "path"
    BY <2>1, <2>2, <2>3, <2>4 DEF KeyOf, Evaluated
  <2>5. CASE eval[c] # "path"
    <3>1. c \in Dangerous /\ (Path[c] # NoPath => Path[c] \in OpenPaths)
      BY <1>9, <2>5 DEF Approve, Evaluated
    <3>2. QED
      BY <2>1, <2>2, <2>3, <2>5, <3>1 DEF KeyOf
  <2>6. QED
    BY <2>4, <2>5
<1>10. ASSUME NEW c \in Calls, Finish(c) PROVE ToolsRunLicensed'
  BY <1>10 DEF Finish
<1>11. ASSUME NEW c \in Calls, Again(c) PROVE ToolsRunLicensed'
  BY <1>11 DEF Again, Over
<1>12. ASSUME NEW c \in Calls, Elapse(c) PROVE ToolsRunLicensed'
  BY <1>12 DEF Elapse
<1>13. ASSUME NEW c \in Calls, TimeOutSend(c) PROVE ToolsRunLicensed'
  BY <1>13 DEF TimeOutSend, Send
<1>14. ASSUME NEW a \in Answerers, Deliver(a) PROVE ToolsRunLicensed'
  BY <1>14 DEF Deliver, StopTimer, Send
<1>15. ASSUME NEW a \in Answerers, NEW c \in Calls, NEW answer \in Answers, Accept(a, c, answer) PROVE ToolsRunLicensed'
  BY <1>15 DEF Accept
<1>16. CASE UNCHANGED vars
  BY <1>16
<1>17. QED
  BY <1>1, <1>2, <1>3, <1>4, <1>5, <1>6, <1>7, <1>8, <1>9, <1>10, <1>11,
     <1>12, <1>13, <1>14, <1>15, <1>16 DEF Next, CallStep

\* Every step keeps allowed calls from being refused, but for the timeout.
LEMMA AllowsAreHonouredStep == IInv /\ [Next]_vars => AllowsAreHonoured'
<1> SUFFICES ASSUME TypeOK, Entries, Armed, Delivered, AllowsAreHonoured, [Next]_vars PROVE AllowsAreHonoured'
  BY DEF IInv
<1> USE Shapes DEF TypeOK, AllowsAreHonoured, Places, Goto, Return, vars, runVars, gateVars, historyVars
<1>1. ASSUME BeginRun PROVE AllowsAreHonoured'
  BY <1>1 DEF BeginRun, ResetPaths
<1>2. ASSUME Interrupt PROVE AllowsAreHonoured'
  BY <1>2 DEF Interrupt
<1>3. ASSUME EndRun PROVE AllowsAreHonoured'
  BY <1>3 DEF EndRun, ResetPaths, Over
<1>4. ASSUME NEW c \in Calls, Evaluate(c) PROVE AllowsAreHonoured'
  BY <1>4 DEF Evaluate
<1>5. ASSUME NEW c \in Calls, CheckRule(c) PROVE AllowsAreHonoured'
  BY <1>5 DEF CheckRule
<1>6. ASSUME NEW c \in Calls, Register(c) PROVE AllowsAreHonoured'
  BY <1>6 DEF Register
<1>7. ASSUME NEW c \in Calls, Receive(c) PROVE AllowsAreHonoured'
  <2>1. chan[c] # NoAnswer /\ call[c] = "wait"
    BY <1>7 DEF Receive
  <2>2. UNCHANGED <<allowed, timer>>
    BY <1>7 DEF Receive
  <2>3. call'[c] = "refused" => ~chan[c].allow
    BY <1>7 DEF Receive
  <2>4. \A d \in Calls : d # c => call'[d] = call[d]
    BY <1>7 DEF Receive
  <2>5. QED
    BY <2>1, <2>2, <2>3, <2>4 DEF Delivered
<1>8. ASSUME NEW c \in Calls, GiveUp(c) PROVE AllowsAreHonoured'
  BY <1>8 DEF GiveUp, StopTimer
<1>9. ASSUME NEW c \in Calls, Approve(c) PROVE AllowsAreHonoured'
  BY <1>9 DEF Approve
<1>10. ASSUME NEW c \in Calls, Finish(c) PROVE AllowsAreHonoured'
  BY <1>10 DEF Finish
<1>11. ASSUME NEW c \in Calls, Again(c) PROVE AllowsAreHonoured'
  BY <1>11 DEF Again, Over
<1>12. ASSUME NEW c \in Calls, Elapse(c) PROVE AllowsAreHonoured'
  BY <1>12 DEF Elapse
<1>13. ASSUME NEW c \in Calls, TimeOutSend(c) PROVE AllowsAreHonoured'
  BY <1>13 DEF TimeOutSend, Send
<1>14. ASSUME NEW a \in Answerers, Deliver(a) PROVE AllowsAreHonoured'
  <2>1. UNCHANGED <<call, allowed>>
    BY <1>14 DEF Deliver
  <2>2. \A d \in Calls : call[d] = "refused" => timer'[d] = timer[d]
    BY <1>14 DEF Deliver, StopTimer, Armed
  <2>3. QED
    BY <2>1, <2>2
<1>15. ASSUME NEW a \in Answerers, NEW c \in Calls, NEW answer \in Answers, Accept(a, c, answer) PROVE AllowsAreHonoured'
  <2>1. UNCHANGED <<call, timer>> /\ timer[c] # "stopped"
    BY <1>15 DEF Accept, Entries
  <2>2. allowed' \subseteq allowed \cup {c}
    BY <1>15 DEF Accept
  <2>3. QED
    BY <2>1, <2>2
<1>16. CASE UNCHANGED vars
  BY <1>16
<1>17. QED
  BY <1>1, <1>2, <1>3, <1>4, <1>5, <1>6, <1>7, <1>8, <1>9, <1>10, <1>11,
     <1>12, <1>13, <1>14, <1>15, <1>16 DEF Next, CallStep

(***************************************************************************)
(* The theorems.                                                           *)
(***************************************************************************)

\* The initial states satisfy the invariant: nothing has been asked.
LEMMA Initially == Init => IInv
BY GateAssumption
   DEF Init, IInv, TypeOK, Places, Over, Idle, Unasked, Entries, Claims, Armed, Answering,
       OnTheWay, Delivered, Evaluated, Licences, OpenPaths, ToolsRunLicensed, AllowsAreHonoured

\* The inductive invariant holds in every reachable state.
THEOREM Inductive == Spec => []IInv
<1>1. Init => IInv
  BY Initially
<1>2. IInv /\ [Next]_vars => IInv'
  BY TypeOKStep, IdleStep, UnaskedStep, EntriesStep, ClaimsStep, ArmedStep, OnTheWayStep,
     DeliveredStep, EvaluatedStep, LicencesStep, ToolsRunLicensedStep, AllowsAreHonouredStep DEF IInv
<1>3. QED
  BY <1>1, <1>2, PTL DEF Spec

\* Every variable keeps its type.
THEOREM TypeCorrect == Spec => []TypeOK
<1>1. IInv => TypeOK
  BY DEF IInv
<1>2. QED
  BY <1>1, Inductive, PTL

\* For any number of calls, answerers and runs, whatever timeouts and answers do: a tool
\* call executes only with the user's licence for it, or for its path and its command
\* (executeOneTool, EvaluatePermission).
THEOREM Licensing == Spec => []ToolsRunLicensed
<1>1. IInv => ToolsRunLicensed
  BY DEF IInv
<1>2. QED
  BY <1>1, Inductive, PTL

\* ResolvePermission accepts one answer per request, however many race.
THEOREM OneAnswer == Spec => []OneAnswerPerRequest
<1>1. ASSUME IInv, NEW c \in Calls PROVE accepted[c] <= 1
  <2>1. accepted[c] \in {0, 1}
    BY <1>1 DEF IInv, Claims
  <2>2. QED
    BY <2>1
<1>2. IInv => OneAnswerPerRequest
  BY <1>1 DEF OneAnswerPerRequest
<1>3. QED
  BY <1>2, Inductive, PTL

\* RequestPermission leaves neither an entry nor an armed timer behind.
THEOREM Forgetting == Spec => []GateForgets
<1>1. ASSUME IInv, NEW c \in Calls, call[c] \in Over PROVE c \in pending => c \in early
  BY <1>1 DEF IInv, Entries, Over
<1>2. ASSUME IInv, NEW c \in Calls, call[c] \in Over, timer[c] = "armed" PROVE Answering(c)
  <2>1. call[c] = "failed"
    BY <1>2 DEF IInv, Armed, Over
  <2>2. QED
    BY <1>2, <2>1 DEF IInv, Armed
<1>3. IInv => GateForgets
  BY <1>1, <1>2 DEF GateForgets
<1>4. QED
  BY <1>3, Inductive, PTL

\* An accepted allow is honoured, unless it lost the race with the timeout or its run.
THEOREM Honouring == Spec => []AllowsAreHonoured
<1>1. IInv => AllowsAreHonoured
  BY DEF IInv
<1>2. QED
  BY <1>1, Inductive, PTL

==============================================================================
