----------------------------- MODULE Compaction ------------------------------
(***************************************************************************)
(* What one compaction makes of a conversation (agents/ctxengine/          *)
(* compact.go), what of it a digest row keeps (agents/agent_context.go)    *)
(* and what a restart reads back (sessionruntime/hydrate.go).              *)
(*                                                                         *)
(* A message is a record: role; id, the column a row or a digest finds it  *)
(* by; run and turn, which say where it came from; calls, the number of    *)
(* tool calls of an assistant or the number of the call a tool message     *)
(* answers; ts, its timestamp; and of, the messages a digest stands for.   *)
(* Texts and token counts are left out: that a conversation is over budget *)
(* and how often a fold must be halved to fit are inputs.                  *)
(* Positions are those of TLA+, one more than the slice's.                 *)
(***************************************************************************)
EXTENDS Naturals, Sequences, SequencesExt

CONSTANTS
  RecentKeep,   \* messages kept verbatim
  NoId          \* the empty id

CompactionAssumption == RecentKeep \in Nat \ {0}

\* What tells two messages apart, whatever id they carry.
KeyOf(m) == <<m.role, m.run, m.turn, IF m.role = "tool" THEN m.calls ELSE 0>>
Keys(msgs) == {KeyOf(msgs[i]) : i \in {j \in DOMAIN msgs : msgs[j].role # "digest"}}

UserMessage(r, ts) ==
  [role |-> "user", id |-> <<"user", r, 0>>, run |-> r, turn |-> 0, calls |-> 0, ts |-> ts, of |-> {}]
AssistantMessage(r, k, n, ts) ==
  [role |-> "assistant", id |-> <<"run", r, 0>>, run |-> r, turn |-> k, calls |-> n, ts |-> ts, of |-> {}]
ToolMessage(r, k, c, ts) ==
  [role |-> "tool", id |-> NoId, run |-> r, turn |-> k, calls |-> c, ts |-> ts, of |-> {}]
DigestMessage(id, ts, folded) ==
  [role |-> "digest", id |-> id, run |-> 0, turn |-> 0, calls |-> 0, ts |-> ts, of |-> folded]

\* Message j answers a call of assistant message i.
Answers(msgs, j, i) ==
  /\ msgs[i].role = "assistant" /\ msgs[j].role = "tool"
  /\ msgs[i].run = msgs[j].run /\ msgs[i].turn = msgs[j].turn
  /\ msgs[j].calls \in 1..msgs[i].calls

\* pairAwareGroupSize: an assistant and the results right behind it are a group, and
\* message e and the next are in the same one.
Together(msgs, kept, e) ==
  \E i \in (kept+1)..e : \A k \in (i+1)..(e+1) : Answers(msgs, k, i)

\* partitionFold keeps prior digests, wherever they are.
KeptDigests(msgs) ==
  LET kept[n \in 0..Len(msgs)] ==
        IF n = 0 THEN <<>>
        ELSE IF msgs[n].role = "digest" THEN Append(kept[n - 1], msgs[n])
        ELSE kept[n - 1]
  IN kept[Len(msgs)]

\* tailStart: the number of messages before the verbatim tail.
TailStart(msgs) == IF Len(msgs) > RecentKeep THEN Len(msgs) - RecentKeep ELSE 0

\* The start of a tail moved back to the call its first message answers.
MoveBack(msgs, start) ==
  LET callers == {i \in 1..start : Answers(msgs, start + 1, i)}
  IN IF start < Len(msgs) /\ callers # {} THEN Max(callers) - 1 ELSE start

\* Trailing assistants with a call nobody in the span answers are cut off.
Unanswered(msgs, start, i) ==
  /\ msgs[i].role = "assistant"
  /\ \E c \in 1..msgs[i].calls :
       ~ \E j \in (start+1)..Len(msgs) : Answers(msgs, j, i) /\ msgs[j].calls = c
TailEnd(msgs, start) ==
  Min({e \in start..Len(msgs) : \A i \in (e+1)..Len(msgs) : Unanswered(msgs, start, i)})

\* alignTailBoundary is adopted only when it makes the tail longer.
Align(msgs, start) ==
  LET back == MoveBack(msgs, start)
      aligned == TailEnd(msgs, back) - back
  IN IF start < Len(msgs) /\ aligned > Len(msgs) - start THEN Len(msgs) - aligned ELSE start

\* The fold goes from the kept digests to the tail, and to the end of a group.
FoldEnd(msgs, kept, start) ==
  Min({e \in start..Len(msgs) : e = Len(msgs) \/ ~ Together(msgs, kept, e)})

\* Fault: a prior digest is folded with the rest.
PartitionNothing(msgs) == [kept |-> 0, start |-> Align(msgs, TailStart(msgs))]

Partition(msgs) == [kept |-> Len(KeptDigests(msgs)), start |-> Align(msgs, TailStart(msgs))]

Tail2(msgs, start) == SubSeq(msgs, start + 1, Len(msgs))

\* firstKeptBoundary of a tail of the given length.
Boundary(msgs, tail) ==
  IF tail = 0 \/ msgs = <<>> THEN [id |-> NoId, ts |-> 0]
  ELSE [id |-> msgs[Len(msgs) - tail + 1].id, ts |-> msgs[Len(msgs) - tail + 1].ts]

\* The outcomes of Compact: not a success, the conversation as it is, or a summary
\* in place of the fold. Halving re-summarises the first half of the fold only.
Unchanged(msgs, tail) ==
  [success |-> TRUE, from |-> msgs, messages |-> msgs, of |-> {}, dropped |-> {},
   first |-> Boundary(msgs, tail)]
Failure(msgs) ==
  [Unchanged(msgs, 0) EXCEPT !.success = FALSE]
Summary(msgs, p, fold, n) ==
  [success |-> TRUE, from |-> msgs,
   messages |-> SubSeq(KeptDigests(msgs), 1, p.kept)
                \o <<DigestMessage(NoId, 0, Keys(SubSeq(fold, 1, n)))>> \o Tail2(msgs, p.start),
   of |-> Keys(SubSeq(fold, 1, n)),
   dropped |-> Keys(fold) \ Keys(SubSeq(fold, 1, n)),
   first |-> Boundary(msgs, Len(msgs) - p.start)]

\* The lengths the re-compact loop can leave.
Halvings(n) == {m \in 1..n : \E h \in 0..n : m = n \div (2^h)}

Compactions(msgs) ==
  LET p == Partition(msgs)
      fold == SubSeq(msgs, p.kept + 1, FoldEnd(msgs, p.kept, p.start))
  IN IF p.start >= Len(msgs) THEN {Failure(msgs)}
     ELSE IF p.start <= p.kept THEN {Unchanged(msgs, Len(msgs))}
     ELSE {Failure(msgs)} \cup {Summary(msgs, p, fold, n) : n \in Halvings(Len(fold))}

-----------------------------------------------------------------------------
(* Rows and their replay.                                                  *)

\* Upsert by primary key; a new row sorts by its timestamp, ties by insertion.
SaveRow(disk, row) ==
  IF \E i \in DOMAIN disk : disk[i].id = row.id
  THEN [i \in DOMAIN disk |-> IF disk[i].id = row.id THEN row ELSE disk[i]]
  ELSE LET n == Cardinality({i \in DOMAIN disk : disk[i].ts <= row.ts})
       IN InsertAt(disk, n + 1, row)

\* recordToMessages: an assistant row carries the results of its calls with it.
Replayed(row) ==
  <<row>>
  \o (IF row.role # "assistant" THEN <<>>
      ELSE [c \in 1..row.calls |-> ToolMessage(row.run, row.turn, c, row.ts)])

\* splitAtBoundary: the first message with the id, or not older than it.
Split(msgs, first) ==
  LET hits == {i \in DOMAIN msgs : \/ first.id # NoId /\ msgs[i].id = first.id
                                   \/ first.ts > 0 /\ msgs[i].ts >= first.ts}
  IN IF hits = {} THEN msgs ELSE SubSeq(msgs, Min(hits), Len(msgs))

\* hydrateSession: every digest, then the rows from the last one's boundary on.
Hydrated(disk, digests) ==
  LET history == FlattenSeq([i \in DOMAIN disk |-> Replayed(disk[i])])
      tail == IF digests = <<>> THEN history ELSE Split(history, digests[Len(digests)].first)
  IN [i \in DOMAIN digests |-> DigestMessage(digests[i].id, digests[i].ts, digests[i].of)] \o tail

-----------------------------------------------------------------------------
(* What a provider accepts.                                                *)

\* Each tool message directly follows, other results aside, the assistant message
\* with its call.
PairsIntact(msgs) ==
  \A j \in DOMAIN msgs : msgs[j].role = "tool" =>
    \E i \in 1..(j-1) : \A k \in (i+1)..j : Answers(msgs, k, i)
==============================================================================
