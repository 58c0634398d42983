---------------------------- MODULE EventBus ----------------------------
(***************************************************************************)
(* The event bus of a session's agent (agents/event/event.go) and the      *)
(* subscriptions of one turn: the artifact hook (agents/artifact_hook.go), *)
(* the event ledger and the reply the loop collects                        *)
(* (sessionruntime/loop.go).  What the ledger does with an event is        *)
(* EventLedger.tla; here it takes events when it likes, if at all.         *)
(*                                                                         *)
(* Emit holds the bus's read lock, so emitters run side by side: the run   *)
(* goroutine and the artifact hook, which emits what it finds in a turn's  *)
(* text when it sees the turn's end.                                       *)
(***************************************************************************)
EXTENDS Naturals, Sequences, SequencesExt, FiniteSets

CONSTANTS None,
          BusCap,       \* event.Subscription: capacity of a channel (64, 128)
          MaxTexts,     \* bound: text deltas of a turn
          MaxTurns      \* bound: turns

ASSUME ConstantsAssumption ==
    BusCap \in Nat \ {0} /\ MaxTexts \in Nat /\ MaxTurns \in Nat

VARIABLES
    subs,        \* Bus.subs, in order of subscription
    chan,        \* Subscription.ch
    emitting,    \* the Emit in progress of each emitter
    run,         \* the turn the loop executes
    hook,        \* the artifact hook
    overflowed,  \* history: the subscription was full when an event came
    heard        \* history: what the ledger took from its channel

vars == <<subs, chan, emitting, overflowed, run, hook, heard>>

Emitters == {"run", "hook"}
Subscribers == {"artifact", "ledger", "reply"}
Kinds == {"text", "turn_end", "agent_end", "artifact"}
Event == [by : Emitters, kind : Kinds, turn : 1 .. MaxTurns, n : Nat]
NoEmit == [ev |-> None, todo |-> <<>>, at |-> "idle"]

Init ==
    /\ subs = <<"artifact", "ledger">>
    /\ chan = [s \in Subscribers |-> <<>>] /\ overflowed = {}
    /\ emitting = [e \in Emitters |-> NoEmit]
    /\ run = [at |-> "idle", turn |-> 0, texts |-> 0, reply |-> <<>>]
    /\ hook = [text |-> FALSE, found |-> 0, turn |-> 1]
    /\ heard = <<>>

-----------------------------------------------------------------------------
(* The bus.                                                                *)

\* Subscribe and Unsubscribe take the write lock: no Emit is in progress.
Unlocked == \A e \in Emitters : emitting[e].at = "idle"

EmitStart(e, kind, turn, n) ==
    /\ emitting[e].at = "idle"
    /\ emitting' = [emitting EXCEPT ![e] =
         [ev |-> [by |-> e, kind |-> kind, turn |-> turn, n |-> n], todo |-> subs, at |-> "try"]]

\* The emitter is done with the first subscription of its list.
Served(e) == IF Len(emitting[e].todo) = 1 THEN NoEmit
             ELSE [emitting[e] EXCEPT !.todo = Tail(@), !.at = "try"]

Full(s) == Len(chan[s]) = BusCap

\* Fault: a full channel is taken for one that has room for the event already in it.
EmitTryEarly(e) ==
    /\ emitting[e].at = "try"
    /\ LET s == Head(emitting[e].todo) IN
       IF Len(chan[s]) >= BusCap - 1
       THEN emitting' = [emitting EXCEPT ![e].at = "drop"] /\ UNCHANGED chan
       ELSE /\ chan' = [chan EXCEPT ![s] = Append(@, emitting[e].ev)]
            /\ emitting' = [emitting EXCEPT ![e] = Served(e)]
    /\ UNCHANGED <<subs, overflowed, run, hook, heard>>

\* Fault: Emit waits for a full subscriber.
EmitTryBlocking(e) ==
    /\ emitting[e].at = "try" /\ ~Full(Head(emitting[e].todo))
    /\ chan' = [chan EXCEPT ![Head(emitting[e].todo)] = Append(@, emitting[e].ev)]
    /\ emitting' = [emitting EXCEPT ![e] = Served(e)]
    /\ UNCHANGED <<subs, overflowed, run, hook, heard>>

\* A send that does not wait: it succeeds when there is room.
EmitTry(e) ==
    /\ emitting[e].at = "try"
    /\ LET s == Head(emitting[e].todo) IN
       IF Full(s)
       THEN /\ emitting' = [emitting EXCEPT ![e].at = "drop"]
            /\ overflowed' = overflowed \cup {s} /\ UNCHANGED chan
       ELSE /\ chan' = [chan EXCEPT ![s] = Append(@, emitting[e].ev)]
            /\ emitting' = [emitting EXCEPT ![e] = Served(e)] /\ UNCHANGED overflowed
    /\ UNCHANGED <<subs, run, hook, heard>>

EmitDrop(e) ==
    /\ emitting[e].at = "drop"
    /\ LET s == Head(emitting[e].todo) IN
       chan' = [chan EXCEPT ![s] = IF @ = <<>> THEN @ ELSE Tail(@)]
    /\ emitting' = [emitting EXCEPT ![e].at = "retry"]
    /\ UNCHANGED <<subs, overflowed, run, hook, heard>>

\* Still full: another emitter took the place, and the new event is dropped.
EmitRetry(e) ==
    /\ emitting[e].at = "retry"
    /\ LET s == Head(emitting[e].todo) IN
       chan' = [chan EXCEPT ![s] = IF Full(s) THEN @ ELSE Append(@, emitting[e].ev)]
    /\ emitting' = [emitting EXCEPT ![e] = Served(e)]
    /\ UNCHANGED <<subs, overflowed, run, hook, heard>>

-----------------------------------------------------------------------------
(* The run goroutine: one turn of Loop.executeTurn around Agent.Run.       *)

TurnStart ==
    /\ run.at = "idle" /\ run.turn < MaxTurns /\ Unlocked
    /\ subs' = Append(subs, "reply") /\ chan' = [chan EXCEPT !["reply"] = <<>>]
    /\ run' = [at |-> "texts", turn |-> run.turn + 1, texts |-> 0, reply |-> <<>>]
    /\ UNCHANGED <<emitting, overflowed, hook, heard>>

Says(kind, next) ==
    /\ EmitStart("run", kind, run.turn, run.texts)
    /\ run' = [run EXCEPT !.at = next, !.texts = @ + 1]
    /\ UNCHANGED <<subs, chan, overflowed, hook, heard>>

TextDelta == run.at = "texts" /\ run.texts < MaxTexts /\ Says("text", "texts")
TurnEnd == run.at = "texts" /\ run.texts > 0 /\ Says("turn_end", "ending")
AgentEnd == run.at = "ending" /\ Says("agent_end", "settled")

\* The loop drains its subscription after the run, without waiting.
DrainReply ==
    /\ run.at = "settled" /\ emitting["run"].at = "idle"
    /\ run' = [run EXCEPT !.at = "drained",
                 !.reply = SelectSeq(chan["reply"], LAMBDA ev : ev.kind = "text" /\ ev.turn = run.turn)]
    /\ chan' = [chan EXCEPT !["reply"] = <<>>]
    /\ UNCHANGED <<subs, emitting, overflowed, hook, heard>>

Unsubscribe ==
    /\ run.at = "drained" /\ Unlocked
    /\ subs' = SelectSeq(subs, LAMBDA s : s # "reply")
    /\ chan' = [chan EXCEPT !["reply"] = <<>>]
    /\ run' = [run EXCEPT !.at = "idle"]
    /\ UNCHANGED <<emitting, overflowed, hook, heard>>

-----------------------------------------------------------------------------
(* The artifact hook: it emits on the bus it reads from.                   *)

HookTake ==
    /\ chan["artifact"] # <<>> /\ hook.found = 0 /\ emitting["hook"].at = "idle"
    /\ LET ev == Head(chan["artifact"]) IN
       \E f \in IF ev.kind = "turn_end" /\ hook.text THEN {0, 1} ELSE {0} :
         hook' = [text |-> (ev.kind = "text") \/ (hook.text /\ ev.kind # "turn_end"),
                  found |-> f, turn |-> ev.turn]
    /\ chan' = [chan EXCEPT !["artifact"] = Tail(@)]
    /\ UNCHANGED <<subs, emitting, overflowed, run, heard>>

HookEmit ==
    /\ hook.found > 0
    /\ EmitStart("hook", "artifact", hook.turn, 0)
    /\ hook' = [hook EXCEPT !.found = @ - 1]
    /\ UNCHANGED <<subs, chan, overflowed, run, heard>>

-----------------------------------------------------------------------------
(* The ledger's goroutine receives.                                        *)
Publish ==
    /\ chan["ledger"] # <<>>
    /\ heard' = Append(heard, Head(chan["ledger"]))
    /\ chan' = [chan EXCEPT !["ledger"] = Tail(@)]
    /\ UNCHANGED <<subs, emitting, overflowed, run, hook>>

-----------------------------------------------------------------------------
EmitSteps(e) == EmitTry(e) \/ EmitDrop(e) \/ EmitRetry(e)
RunSteps == TextDelta \/ TurnEnd \/ AgentEnd \/ DrainReply \/ Unsubscribe
HookSteps == HookTake \/ HookEmit

Next == (\E e \in Emitters : EmitSteps(e)) \/ TurnStart \/ RunSteps \/ HookSteps \/ Publish

Spec == Init /\ [][Next]_vars

\* The scheduler runs the emitters.  A provider that never finishes is left out:
\* a turn's text comes to an end.  No subscriber need ever receive.
Fairness == (\A e \in Emitters : WF_vars(EmitSteps(e))) /\ WF_vars(RunSteps)

FairSpec == Spec /\ Fairness

-----------------------------------------------------------------------------
(* Every variable has its type and no channel outgrows its capacity.       *)
TypeOK ==
    /\ subs \in {<<"artifact", "ledger">>, <<"artifact", "ledger", "reply">>}
    /\ \A s \in Subscribers : Len(chan[s]) <= BusCap /\ \A i \in DOMAIN chan[s] : chan[s][i] \in Event
    /\ \A e \in Emitters : emitting[e].at \in {"idle", "try", "drop", "retry"}
    /\ run.at \in {"idle", "texts", "ending", "settled", "drained"} /\ run.turn \in 0 .. MaxTurns
    /\ hook.found \in 0 .. 1 /\ overflowed \subseteq Subscribers

(* A subscriber that never found its channel full has, with what it took   *)
(* and what waits for it, every event of the bus: only an overflow loses   *)
(* events (event.go:328-349).                                              *)
LossOnlyWhenFull ==
    "ledger" \notin overflowed =>
      LET all == heard \o chan["ledger"]
          mine == SelectSeq(all, LAMBDA ev : ev.by = "run" /\ ev.turn = run.turn)
          due == run.texts - (IF emitting["run"].at # "idle" /\ Contains(emitting["run"].todo, "ledger") THEN 1 ELSE 0)
      IN [i \in DOMAIN mine |-> mine[i].n] = [i \in 1 .. due |-> i - 1]

(* Turns end whatever the subscribers and the connections do: no step of   *)
(* an emitter waits for a subscriber (event.go:4-5, "to keep the agent     *)
(* loop non-blocking").                                                    *)
TurnsEnd == run.at # "idle" ~> run.at = "idle"

=============================================================================
