---------------------------- MODULE Conversation -----------------------------
(***************************************************************************)
(* One session's conversation in memory (agents/session/session.go), as    *)
(* the runs of its agent extend, compact and persist it                    *)
(* (agents/dispatcher.go, agents/executor/executor.go), a manual           *)
(* compaction rewrites it (gateway/handler_prompt.go), and a restart reads *)
(* it back from the messages and session_digests tables                    *)
(* (sessionruntime/hydrate.go).                                            *)
(*                                                                         *)
(* Runs follow one another; each step of a run between two accesses to the *)
(* session or the store is one action. The manual compaction is a second   *)
(* goroutine. The clock advances with every answer of the provider and     *)
(* stands still between other steps. Writes to the store succeed, unless   *)
(* the context they are made under has been cancelled.                     *)
(***************************************************************************)
EXTENDS Compaction

CONSTANTS
  MaxRuns,      \* prompts
  MaxTurns,     \* Config.MaxTurns, the provider calls of a run
  MaxCalls,     \* tool calls of one answer
  MaxManual,    \* manual compactions
  MaxRestarts

ConversationAssumption ==
  /\ MaxRuns \in Nat /\ MaxTurns \in Nat \ {0} /\ MaxCalls \in Nat
  /\ MaxManual \in Nat /\ MaxRestarts \in Nat

VARIABLES
  mem,        \* Session.messages
  loaded,     \* the session has a runtime
  disk,       \* the messages table, by timestamp
  digests,    \* the session_digests table, by sequence
  now,        \* milliseconds
  pc,         \* where the run is
  run, turn,  \* the prompt's number, the provider call's
  before,     \* turnsBefore
  result,     \* of the automatic compaction in progress
  manual,     \* the manual compaction: where it is, its result
  \* history
  spent,      \* manual compactions and restarts so far
  compacted,  \* runs during which the conversation was rewritten
  owed,       \* questions and answers of the runs that reached the end of hook 2
  made,       \* messages of the run in progress
  dropped     \* messages a halved fold left out of its summary

runVars == <<pc, run, turn, before>>
store == <<disk, digests>>
history == <<spent, compacted, owed, made, dropped>>
vars == <<mem, loaded, store, now, runVars, result, manual, history>>

NoResult == [success |-> FALSE]
Away == [at |-> "away", result |-> NoResult]

TypeOK ==
  /\ \A i \in DOMAIN mem : mem[i].role \in {"user", "assistant", "tool", "digest"}
  /\ loaded \in BOOLEAN /\ (~loaded => mem = <<>> /\ pc = "idle")
  /\ \A i \in DOMAIN disk : disk[i].role # "tool"
  /\ \A i, j \in DOMAIN disk : i # j => disk[i].id # disk[j].id
  /\ \A i, j \in DOMAIN digests : i # j => digests[i].id # digests[j].id
  /\ now \in Nat /\ run \in 0..MaxRuns /\ turn \in 0..MaxTurns /\ before \in Nat
  /\ pc \in {"idle", "asked", "assemble", "compact", "digest", "call", "persist"}
  /\ manual.at \in {"away", "summarise", "digest"}
  /\ spent \in [manual : 0..MaxManual, restart : 0..MaxRestarts]

Init ==
  /\ mem = <<>> /\ loaded = FALSE /\ disk = <<>> /\ digests = <<>> /\ now = 1
  /\ pc = "idle" /\ run = 0 /\ turn = 0 /\ before = 0
  /\ result = NoResult /\ manual = Away
  /\ spent = [manual |-> 0, restart |-> 0]
  /\ compacted = {} /\ owed = {} /\ made = {} /\ dropped = {}

-----------------------------------------------------------------------------
(* A run                                                                   *)

\* GetOrCreateEntry builds the runtime, which hydrates.
Load ==
  /\ ~loaded
  /\ loaded' = TRUE /\ mem' = Hydrated(disk, digests)
  /\ UNCHANGED <<store, now, runVars, result, manual, history>>

Extend(msgs) ==
  /\ mem' = mem \o msgs
  /\ made' = made \cup Keys(msgs)

\* Agent.Run takes the prompt and appends it.
Ask ==
  /\ loaded /\ pc = "idle" /\ run < MaxRuns
  /\ run' = run + 1 /\ pc' = "asked"
  /\ mem' = mem \o <<UserMessage(run + 1, now)>>
  /\ made' = Keys(<<UserMessage(run + 1, now)>>)
  /\ UNCHANGED <<loaded, store, now, turn, before, result, manual, spent, compacted, owed,
                 dropped>>

\* Hook 1, then turnsBefore.
PersistQuestion ==
  /\ pc = "asked"
  /\ disk' = SaveRow(disk, UserMessage(run, now))
  /\ before' = Len(mem)
  /\ pc' = "assemble"
  /\ UNCHANGED <<mem, loaded, digests, now, run, turn, result, manual, history>>

\* The next provider call of the run, if it has one left: the conversation goes as
\* it is, or is over budget and first compacted, for as long as a summary takes.
Assemble ==
  /\ pc = "assemble"
  /\ \/ turn = MaxTurns /\ pc' = "persist" /\ UNCHANGED <<turn, result>>
     \/ /\ turn < MaxTurns /\ turn' = turn + 1
        /\ \/ pc' = "call" /\ UNCHANGED result
           \/ pc' = "compact" /\ result' \in {c \in Compactions(mem) : c.success}
  /\ UNCHANGED <<mem, loaded, store, now, run, before, manual, history>>

\* A successful one replaces the conversation.
CompactAuto ==
  /\ pc = "compact"
  /\ mem' = result.messages /\ pc' = "digest"
  /\ compacted' = IF mem' = mem THEN compacted ELSE compacted \cup {run}
  /\ dropped' = dropped \cup result.dropped
  /\ UNCHANGED <<loaded, store, now, run, turn, before, result, manual, spent, owed, made>>

DigestRow(id, c) == [id |-> id, ts |-> now, of |-> c.of, first |-> c.first]

\* Save of a digest row: an id that is there already is written over, and sorts last.
SaveDigest(d) ==
  LET same == {i \in DOMAIN digests : digests[i].id = d.id}
  IN Append(IF same = {} THEN digests ELSE RemoveAt(digests, Min(same)), d)

\* PersistCompaction; the id of an automatic digest is its boundary's.
PersistDigest ==
  /\ pc = "digest"
  /\ digests' = SaveDigest(DigestRow(<<"auto", result.first.id, 0>>, result))
  /\ result' = NoResult /\ pc' = "call"
  /\ UNCHANGED <<mem, loaded, disk, now, run, turn, before, manual, history>>

\* A final answer.
Answer ==
  /\ pc = "call"
  /\ now' = now + 1
  /\ Extend(<<AssistantMessage(run, turn, 0, now + 1)>>)
  /\ pc' = "persist"
  /\ UNCHANGED <<loaded, store, run, turn, before, result, manual, spent, compacted, owed,
                 dropped>>

\* What else changes when a manual compaction's result replaces the conversation.
ManualReplaces ==
  /\ manual' = [manual EXCEPT !.at = "digest"]
  /\ dropped' = dropped \cup manual.result.dropped
  /\ compacted' = IF pc = "idle" THEN compacted ELSE compacted \cup {run}

\* An answer with tool calls: the assistant message, then its results, once all the
\* tools have answered. A manual compaction may replace the slice in between two appends.
CallTools(n) ==
  /\ pc = "call"
  /\ now' = now + 1
  /\ LET asked == AssistantMessage(run, turn, n, now + 1)
         answers == [c \in 1..n |-> ToolMessage(run, turn, c, now + 1)]
     IN /\ \/ mem' = mem \o <<asked>> \o answers /\ UNCHANGED <<manual, compacted, dropped>>
           \/ /\ manual.at = "summarise" /\ manual.result.success
              /\ \E i \in 1..n : mem' = manual.result.messages \o SubSeq(answers, i, n)
              /\ ManualReplaces
        /\ made' = made \cup Keys(<<asked>> \o answers)
  /\ pc' = "assemble"
  /\ UNCHANGED <<loaded, store, run, turn, before, result, spent, owed>>

\* The provider fails; the run ends with an error, its context still live.
CallFails ==
  /\ pc = "call"
  /\ pc' = "persist"
  /\ UNCHANGED <<mem, loaded, store, now, run, turn, before, result, manual, history>>

\* The run's locals go with it.
EndRun == pc' = "idle" /\ turn' = 0 /\ before' = 0 /\ made' = {}

\* The run's context is cancelled. A compaction in progress still replaces the
\* conversation; what the stream had sent is kept, calls without results included;
\* and nothing is written any more, the digest included.
Cancelled ==
  /\ pc \in {"assemble", "digest", "call"}
  /\ now' = now + 1 /\ result' = NoResult
  /\ \/ pc = "call" /\ \E n \in 0..MaxCalls : mem' = mem \o <<AssistantMessage(run, turn, n, now + 1)>>
     \/ UNCHANGED mem
  /\ EndRun
  /\ UNCHANGED <<loaded, store, run, manual, spent, compacted, owed, dropped>>

\* The row of message i: it has the index in its id, and rows are milliseconds apart.
RowOf(i) == [mem[i] EXCEPT !.id = <<"row", run, i>>, !.ts = now + i - before - 1]

\* The messages table with the assistant messages from turnsBefore on, summaries among
\* them, one after the other.
AnswersSaved ==
  LET saved[n \in 0..Len(mem)] ==
        IF n <= before THEN disk
        ELSE IF mem[n].role \in {"assistant", "digest"} THEN SaveRow(saved[n - 1], RowOf(n))
        ELSE saved[n - 1]
  IN saved[Len(mem)]

\* Hook 2, and the sealing write, whose id no row has. The next prompt may come
\* within the milliseconds given to the rows.
PersistAnswers ==
  /\ pc = "persist"
  /\ disk' = AnswersSaved
  /\ owed' = owed \cup {k \in made : k[1] # "tool"}
  /\ now' \in {now, now + Len(mem)}
  /\ EndRun
  /\ UNCHANGED <<mem, loaded, digests, run, result, manual, spent, compacted, dropped>>

-----------------------------------------------------------------------------
(* Manual compaction, eviction, restart                                    *)

\* handleCompactContext: if no run is in progress, a goroutine takes a snapshot.
StartManual ==
  /\ loaded /\ pc = "idle" /\ manual.at = "away" /\ spent.manual < MaxManual
  /\ spent' = [spent EXCEPT !.manual = @ + 1]
  /\ \E c \in Compactions(mem) :
       manual' = [at |-> "summarise", result |-> c]
  /\ UNCHANGED <<mem, loaded, store, now, runVars, result, compacted, owed, made, dropped>>

\* runManualCompact: up to ninety seconds later the session is replaced.
ReplaceManual ==
  /\ manual.at = "summarise" /\ loaded
  /\ IF manual.result.success
     THEN mem' = manual.result.messages /\ ManualReplaces
     ELSE manual' = Away /\ UNCHANGED <<mem, dropped, compacted>>
  /\ UNCHANGED <<loaded, store, now, runVars, result, spent, owed, made>>

\* Its digest has an id of its own, and is not written once the ninety seconds are over.
PersistManual ==
  /\ manual.at = "digest"
  /\ \/ digests' = SaveDigest(DigestRow(<<"manual", spent.manual, 0>>, manual.result))
     \/ UNCHANGED digests
  /\ manual' = Away
  /\ UNCHANGED <<mem, loaded, disk, now, runVars, result, history>>

\* The process is killed, at any point.
Restart ==
  /\ loaded /\ spent.restart < MaxRestarts
  /\ spent' = [spent EXCEPT !.restart = @ + 1]
  /\ loaded' = FALSE /\ mem' = <<>> /\ EndRun
  /\ result' = NoResult /\ manual' = Away
  /\ now' = now + 1
  /\ UNCHANGED <<store, run, compacted, owed, dropped>>

Next ==
  \/ Load \/ Ask \/ PersistQuestion \/ Assemble \/ CompactAuto \/ PersistDigest
  \/ Answer \/ (\E n \in 1..MaxCalls : CallTools(n)) \/ CallFails \/ Cancelled
  \/ PersistAnswers
  \/ StartManual \/ ReplaceManual \/ PersistManual \/ Restart

Spec == Init /\ [][Next]_vars

-----------------------------------------------------------------------------
(* Properties                                                              *)

\* A compaction never leaves a tool result without the call it answers right before
\* it: a provider refuses the conversation otherwise, and every later one with it.
\* Calls an abort left unanswered are anywhere in an automatic one's conversation; a
\* manual one's must not end with one, or its tail is cut short in the wrong place.
CutShort(msgs) == msgs # <<>> /\ Unanswered(msgs, 0, Len(msgs))
CompactionKeepsPairs ==
  /\ pc = "compact" /\ PairsIntact(result.from) => PairsIntact(result.messages)
  /\ LET c == manual.result
     IN c # NoResult /\ PairsIntact(c.from) /\ ~ CutShort(c.from) => PairsIntact(c.messages)

\* A compaction of a conversation that begins with its digests keeps each of them,
\* and has every other message in its summary or in its tail, unless a halved fold
\* left it out. Digests stand elsewhere only when hook 2 has given one a row.
DigestsOf(msgs) == {msgs[i] : i \in {j \in DOMAIN msgs : msgs[j].role = "digest"}}
DigestsLead(msgs) ==
  \A i, j \in DOMAIN msgs : i < j /\ msgs[j].role = "digest" => msgs[i].role = "digest"
Forgets(c) ==
  \/ ~ DigestsOf(c.from) \subseteq DigestsOf(c.messages)
  \/ ~ Keys(c.from) \subseteq Keys(c.messages) \cup c.of \cup c.dropped
CompactionForgetsNothing ==
  \A c \in {result, manual.result} \ {NoResult} : DigestsLead(c.from) => ~ Forgets(c)

\* Once a run has passed hook 2, its question and each of its rounds have a row of
\* their own, however many rounds and runs follow, unless the conversation was
\* rewritten while it ran.
RunsPersist == {k \in owed : k[2] \notin compacted} \subseteq Keys(disk)

==============================================================================
