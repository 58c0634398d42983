--------------------------- MODULE SubagentTools ---------------------------
(***************************************************************************)
(* The tools by which a model uses sub-agents (tools/subagent.go), over    *)
(* SubagentManager: one call of parallel_subagents, whose goroutines call  *)
(* Spawn for its tasks and leave what it returned in a slice that the tool *)
(* polls without a lock; the other runs are delegate_subagent's.           *)
(*                                                                         *)
(* A section of the slice has two fields, the run's info and the text; the *)
(* goroutine stores them unsynchronised, so the tool may see one of them   *)
(* without the other.                                                      *)
(***************************************************************************)
EXTENDS SubagentManager

CONSTANT Tasks      \* the runs parallel_subagents asks for

ASSUME ToolsAssumption == Tasks \subseteq Runs \ Background

VARIABLES
    tool,       \* where parallel_subagents is
    section,    \* Tasks -> the fields stored of its result
    reply       \* Tasks -> the status that was told to the model

toolVars == <<tool, section, reply>>
allVars == <<vars, toolVars>>

ToolTypeOK ==
    /\ tool \in {"idle", "poll", "answered", "expired", "cancelled"}
    /\ section \in [Tasks -> SUBSET {"info", "text"}]
    /\ reply \in [Tasks -> Statuses \cup {"untold", "blank", "failed"}]

ToolInit ==
    /\ Init
    /\ tool = "idle"
    /\ section = [t \in Tasks |-> {}]
    /\ reply = [t \in Tasks |-> "untold"]

-----------------------------------------------------------------------------
\* The manager's steps, the calls of abort_subagent and of agent.subagent.abort
\* among them; a task's Spawn is called once its tool has started.
Manager ==
    /\ Next
    /\ tool = "idle" => \A t \in Tasks : spawn'[t] = spawn[t]
    /\ UNCHANGED toolVars

\* What is told of a run whose Spawn has returned; delegate_subagent waits for
\* that, whatever becomes of its context.
Told(r) == IF spawn[r] = "failed" THEN "failed"
           ELSE IF r \in Background THEN "started"
           ELSE answer[r]

-----------------------------------------------------------------------------
(* parallel_subagents *)

Parallel ==
    /\ tool = "idle"
    /\ tool' = "poll"
    /\ UNCHANGED <<vars, section, reply>>

\* A goroutine stores one more field; a run that failed to spawn has no info.
Store(t) ==
    /\ \/ /\ spawn[t] = "returned"
          /\ \E field \in {"info", "text"} \ section[t] :
                section' = [section EXCEPT ![t] = @ \cup {field}]
       \/ /\ spawn[t] = "failed" /\ section[t] = {}
          /\ section' = [section EXCEPT ![t] = {"text"}]
    /\ UNCHANGED <<vars, tool, reply>>

\* The text, with nothing in the place of what is not stored yet.
Assembled ==
    [t \in Tasks |-> IF "text" \in section[t] THEN Told(t) ELSE "blank"]

\* Fault: one result is taken for all of them.
AnswerAtFirst ==
    /\ tool = "poll" /\ \E t \in Tasks : "info" \in section[t]
    /\ tool' = "answered"
    /\ reply' = Assembled
    /\ UNCHANGED <<vars, section>>

Answer ==
    /\ tool = "poll" /\ \A t \in Tasks : "info" \in section[t]
    /\ tool' = "answered"
    /\ reply' = Assembled
    /\ UNCHANGED <<vars, section>>

\* The deadline, the longest timeout of a task counted from the start of the
\* loop, ends the loop with what there is.
Expire ==
    /\ tool = "poll"
    /\ tool' = "expired"
    /\ reply' = Assembled
    /\ UNCHANGED <<vars, section>>

\* The call's context is done: its tool timeout, or the turn was cancelled.
\* The runs go on.
Cancel ==
    /\ tool = "poll"
    /\ tool' = "cancelled"
    /\ UNCHANGED <<vars, section, reply>>

-----------------------------------------------------------------------------
ToolNext ==
    \/ Manager
    \/ Parallel
    \/ \E t \in Tasks : Store(t)
    \/ Answer
    \/ Expire
    \/ Cancel

ToolSpec == ToolInit /\ [][ToolNext]_allVars

-----------------------------------------------------------------------------
\* What the model is told of a run it waited for is how the run ended, unless
\* the run's own timeout elapsed while its runner had yet to stop: neither Abort
\* nor Close makes a call return early, or with a run that is still pending.
RepliesTellTheEnd ==
    /\ \A r \in Runs \ Tasks : spawn[r] = "returned" =>
          Told(r) \in Final \cup {"started"} \/ r \in overdue
    /\ \A t \in Tasks :
          /\ reply[t] # "pending"
          /\ reply[t] = "running" => t \in overdue

\* parallel_subagents leaves a section empty only when its deadline has passed,
\* or when it catches that section's goroutine between its two stores.
SectionsAreWhole ==
    tool = "answered" =>
        \A t \in Tasks : reply[t] = "blank" => "info" \in section[t]

\* What a tool tells the model of its sub-agents is true, and said of all of them.
RepliesAreTrue == ToolTypeOK /\ RepliesTellTheEnd /\ SectionsAreWhole

=============================================================================
