------------------------------ MODULE Sessions -------------------------------
(***************************************************************************)
(* The gateway's index of sessions (gateway/sessionmgr.go): who may submit *)
(* to which runtime, and what becomes of a runtime that is stopped,        *)
(* evicted or removed while requests still hold it (sessionruntime/        *)
(* session.go, sessionruntime/loop.go).                                    *)
(*                                                                         *)
(* Every operation of the index runs under its mutex and is one action. A  *)
(* request takes an entry under the mutex and uses the entry's runtime     *)
(* after it; in between, anything happens. A runtime is numbered by the    *)
(* order it was built in; its loop is reduced to what the index sees of    *)
(* it: requests parked, one popped, one registered as the active run. The  *)
(* loop has a lock of its own: what an operation reads of it may be over   *)
(* by the time the operation aborts it.                                    *)
(***************************************************************************)
EXTENDS Naturals, Sequences, FiniteSets, SequencesExt

CONSTANTS
  Sessions,
  Clients,       \* requests being handled at once
  MaxSessions,   \* WithMaxSessions, the cap on entries
  MaxRuntimes,   \* bound on the runtimes ever built
  MaxPrompts,    \* bound on the prompts ever accepted
  Absent         \* what the map has for a session without an entry

SessionsAssumption ==
  /\ IsFiniteSet(Sessions) /\ IsFiniteSet(Clients)
  /\ MaxSessions \in Nat \ {0} /\ MaxRuntimes \in Nat /\ MaxPrompts \in Nat
  /\ Absent \notin Nat

VARIABLES
  lru,         \* idleOrder, most recent first
  entry,       \* byID: the entry's runtime, Bare without one, Absent
  stalled,     \* entries whose stop window is open
  expired,     \* entries whose idle time is over
  owner,       \* the sessions of the runtimes, in the order they were built
  phase,       \* of each runtime: open; cancelled, once the entry let go of it;
               \* closing, once Loop.Close has run; closed
  parked,      \* Loop.steerQueue and followUpQueue
  popped,      \* the request popped and not registered yet
  active,      \* Loop.activeRun
  cut,         \* runs whose context is cancelled
  held,        \* what each request does, and the entry it has taken
  prompts,     \* history: prompts accepted so far
  interrupted  \* history: prompts a stop, a steer or a removal has ended

index == <<lru, entry, stalled, expired>>
runtimes == <<owner, phase, parked, popped, active, cut>>
vars == <<index, runtimes, held, prompts, interrupted>>

Bare == 0
Nobody == 0
Idle == [op |-> "idle"]

Known == {s \in Sessions : entry[s] # Absent}
\* Of an index x, see below.
KnownIn(x) == {s \in Sessions : x.entry[s] # Absent}
Built == 1..Len(owner)
HasRuntime(s) == s \in Known /\ entry[s] # Bare
Pending(k) == parked[k] \cup ({popped[k], active[k]} \ {Nobody})
Runs(s) == HasRuntime(s) /\ active[entry[s]] # Nobody

TypeOK ==
  /\ lru \in Seq(Sessions) /\ IsInjective(lru)
  /\ entry \in [Sessions -> {Absent} \cup 0..MaxRuntimes]
  /\ stalled \subseteq Known /\ expired \subseteq Known
  /\ owner \in Seq(Sessions) /\ Len(owner) <= MaxRuntimes
  /\ phase \in [Built -> {"open", "cancelled", "closing", "closed"}]
  /\ parked \in [Built -> SUBSET (1..MaxPrompts)]
  /\ popped \in [Built -> 0..MaxPrompts] /\ active \in [Built -> 0..MaxPrompts]
  /\ cut \subseteq 1..MaxPrompts
  /\ \A c \in Clients : held[c].op \in {"idle", "prompt", "steer"}
  /\ prompts \in 0..MaxPrompts /\ interrupted \subseteq 1..MaxPrompts

Init ==
  /\ lru = <<>> /\ entry = [s \in Sessions |-> Absent] /\ stalled = {} /\ expired = {}
  /\ owner = <<>> /\ phase = <<>> /\ parked = <<>> /\ popped = <<>> /\ active = <<>>
  /\ cut = {} /\ held = [c \in Clients |-> Idle]
  /\ prompts = 0 /\ interrupted = {}

-----------------------------------------------------------------------------
(* Parts of the operations. An index is a record here, so that an          *)
(* operation can reap, evict, create and roll back in one step.            *)

Index == [lru |-> lru, entry |-> entry, stalled |-> stalled, expired |-> expired, let |-> {}]

\* The sessions of "gone" are taken off the map; their runtimes are let go of.
Drop(x, gone, rest) ==
  [lru |-> rest,
   entry |-> [s \in Sessions |-> IF s \in gone THEN Absent ELSE x.entry[s]],
   stalled |-> x.stalled \ gone, expired |-> x.expired \ gone,
   let |-> x.let \cup ({x.entry[s] : s \in gone} \ {Absent, Bare})]

\* container/list Remove: the list has a session once.
Without(list, s) ==
  IF s \in ToSet(list) THEN RemoveAt(list, CHOOSE i \in DOMAIN list : list[i] = s) ELSE list

\* Fault: the list element stays behind.
DetachEntryOnly(x, s) == Drop(x, {s}, x.lru)

\* Takes an entry off the map and the list.
Detach(x, s) == Drop(x, {s}, Without(x.lru, s))

\* reapIdleLocked: from the back, up to the first entry that runs or is not expired.
Reap(x) ==
  LET Spared(s) == Runs(s) \/ s \notin x.expired
      After(n) == {x.lru[i] : i \in n + 1..Len(x.lru)}
  IN {Drop(x, After(n), SubSeq(x.lru, 1, n)) :
        n \in {m \in 0..Len(x.lru) : /\ \A s \in After(m) : ~Spared(s)
                                     /\ m # 0 => Spared(x.lru[m])}}

\* Fault: the oldest entry goes, whatever it does.
EvictOldest(x) ==
  IF Cardinality(KnownIn(x)) < MaxSessions THEN {x} ELSE {Detach(x, x.lru[Len(x.lru)])}

\* evictLRULocked: the oldest entry that does not run; no outcome when all do.
Evict(x) ==
  LET idle == {i \in DOMAIN x.lru : ~Runs(x.lru[i])}
  IN IF Cardinality(KnownIn(x)) < MaxSessions THEN {x}
     ELSE {Detach(x, x.lru[i]) : i \in {n \in idle : \A j \in idle : j <= n}}

\* createEntryLocked: the indexes with room for a new entry, and the entry in it.
Full == Cardinality(Known) >= MaxSessions
Created(s) ==
  {[x EXCEPT !.lru = <<s>> \o @, !.entry[s] = Bare] :
     x \in UNION {Evict(y) : y \in IF Full THEN Reap(Index) ELSE {Index}}}

\* touchLRU and lastTouchedMs.
Touched(x, s) ==
  [x EXCEPT !.lru = <<s>> \o Without(@, s), !.expired = @ \ {s}]

Enter(s) == IF s \in Known THEN {Touched(Index, s)} ELSE Created(s)

\* The index becomes x.
Becomes(x) ==
  /\ lru' = x.lru /\ entry' = x.entry /\ stalled' = x.stalled /\ expired' = x.expired

\* Runtimes let go of are aborted, which drops what is parked and cancels the active
\* run, one that was registered since the entry was looked at included, and their
\* Close is triggered. Of the runtimes up to n, those not built before are new.
LetGo(let, n) ==
  \E late \in SUBSET {k \in let : popped[k] # Nobody} :
    /\ phase' = [k \in 1..n |-> IF k \notin Built THEN "open"
                                ELSE IF k \in let THEN "cancelled" ELSE phase[k]]
    /\ parked' = [k \in 1..n |-> IF k \in Built \ let THEN parked[k] ELSE {}]
    /\ popped' = [k \in 1..n |-> IF k \in Built \ late THEN popped[k] ELSE Nobody]
    /\ active' = [k \in 1..n |-> IF k \in late THEN popped[k]
                                 ELSE IF k \in Built THEN active[k] ELSE Nobody]
    /\ cut' = cut \cup ({active'[k] : k \in let} \ {Nobody})

Abort(let) == LetGo(let, Len(owner)) /\ UNCHANGED owner

\* attachSessionRuntimeLocked: a new runtime, while those of "let" go.
Attach(x, s) ==
  /\ Len(owner) < MaxRuntimes
  /\ Becomes([x EXCEPT !.entry[s] = Len(owner) + 1])
  /\ owner' = Append(owner, s) /\ LetGo(x.let, Len(owner) + 1)

\* Its failure rolls the entry back.
AttachFails(x, s) == Becomes(Detach(x, s)) /\ Abort(x.let)

-----------------------------------------------------------------------------
(* Requests                                                                *)

\* GetOrCreateEntry for a prompt, from a client, a schedule or an IM peer.
GetOrCreateEntry(c, s) ==
  /\ held[c] = Idle /\ s \notin stalled
  /\ \E x \in Enter(s) :
       \/ /\ x.entry[s] # Bare
          /\ Becomes(x) /\ Abort(x.let)
          /\ held' = [held EXCEPT ![c] = [op |-> "prompt", runtime |-> x.entry[s]]]
       \/ /\ x.entry[s] = Bare
          /\ Attach(x, s)
          /\ held' = [held EXCEPT ![c] = [op |-> "prompt", runtime |-> Len(owner) + 1]]
       \/ x.entry[s] = Bare /\ AttachFails(x, s) /\ UNCHANGED held
  /\ UNCHANGED <<prompts, interrupted>>

\* EnsureEntry for a subscription, which only needs the entry to exist.
Subscribe(s) ==
  /\ s \notin stalled
  /\ \E x \in Enter(s) : Becomes(x) /\ Abort(x.let)
  /\ UNCHANGED <<held, prompts, interrupted>>

\* EnsureEntry for a steer, which goes on only if the entry has a runtime.
EnsureEntry(c, s) ==
  /\ held[c] = Idle /\ s \notin stalled
  /\ \E x \in Enter(s) :
       /\ Becomes(x) /\ Abort(x.let)
       /\ IF x.entry[s] = Bare THEN UNCHANGED held
          ELSE held' = [held EXCEPT ![c] = [op |-> "steer", runtime |-> x.entry[s]]]
  /\ UNCHANGED <<prompts, interrupted>>

\* Loop.Submit or Loop.Steer on the runtime taken earlier. A closed loop refuses; an
\* abandoned one does not. A steer cancels the active run.
Admit(c) ==
  LET k == held[c].runtime
  IN /\ held[c] # Idle
     /\ held' = [held EXCEPT ![c] = Idle]
     /\ IF phase[k] \in {"closing", "closed"}
        THEN UNCHANGED <<runtimes, prompts, interrupted>>
        ELSE /\ prompts < MaxPrompts
             /\ prompts' = prompts + 1
             /\ parked' = [parked EXCEPT ![k] = @ \cup {prompts + 1}]
             /\ IF held[c].op = "steer"
                THEN /\ cut' = cut \cup ({active[k]} \ {Nobody})
                     /\ interrupted' = interrupted \cup ({active[k]} \ {Nobody})
                ELSE UNCHANGED <<cut, interrupted>>
             /\ UNCHANGED <<owner, phase, popped, active>>
  /\ UNCHANGED index

\* SessionManager.Stop, with the id of the active run; any other is refused. The
\* schedules' Abort is the same without the window.
Stop(s) ==
  /\ Runs(s)
  /\ parked' = [parked EXCEPT ![entry[s]] = {}]
  /\ cut' = cut \cup {active[entry[s]]}
  /\ stalled' \in {stalled, stalled \cup {s}}
  /\ interrupted' = interrupted \cup Pending(entry[s])
  /\ UNCHANGED <<lru, entry, expired, owner, phase, popped, active, held, prompts>>

WindowEnds(s) ==
  /\ s \in stalled /\ stalled' = stalled \ {s}
  /\ UNCHANGED <<lru, entry, expired, runtimes, held, prompts, interrupted>>

\* Fault: the runtime's Close is never triggered.
RemoveEntryOnly(s) ==
  /\ s \in Known
  /\ Becomes(Detach(Index, s))
  /\ interrupted' = IF HasRuntime(s) THEN interrupted \cup Pending(entry[s]) ELSE interrupted
  /\ UNCHANGED <<runtimes, held, prompts>>

\* Remove, when a session is deleted: whatever it runs.
RemoveSession(s) ==
  /\ s \in Known
  /\ Becomes(Detach(Index, s)) /\ Abort(Detach(Index, s).let)
  /\ interrupted' = IF HasRuntime(s) THEN interrupted \cup Pending(entry[s]) ELSE interrupted
  /\ UNCHANGED <<held, prompts>>

\* A day without a request for it, or for any entry less recent.
GrowsOld(s) ==
  /\ s \in Known \ expired
  /\ expired' = expired \cup {lru[i] : i \in {j \in DOMAIN lru : \E h \in 1..j : lru[h] = s}}
  /\ UNCHANGED <<lru, entry, stalled, runtimes, held, prompts, interrupted>>

-----------------------------------------------------------------------------
(* A runtime's loop, and the goroutine that closes it                      *)

Pop(k) ==
  /\ popped[k] = Nobody /\ active[k] = Nobody /\ phase[k] # "closed"
  /\ \E p \in parked[k] :
       popped' = [popped EXCEPT ![k] = p] /\ parked' = [parked EXCEPT ![k] = @ \ {p}]
  /\ UNCHANGED <<index, owner, phase, active, cut, held, prompts, interrupted>>

\* Fault: the run's context does not descend from the loop's.
RegisterRootless(k) ==
  /\ popped[k] # Nobody
  /\ active' = [active EXCEPT ![k] = popped[k]] /\ popped' = [popped EXCEPT ![k] = Nobody]
  /\ UNCHANGED <<index, owner, phase, parked, cut, held, prompts, interrupted>>

\* executeTurn registers; the loop's context may be cancelled by then.
Register(k) ==
  /\ popped[k] # Nobody
  /\ active' = [active EXCEPT ![k] = popped[k]] /\ popped' = [popped EXCEPT ![k] = Nobody]
  /\ cut' = IF phase[k] = "closing" THEN cut \cup {popped[k]} ELSE cut
  /\ UNCHANGED <<index, owner, phase, parked, held, prompts, interrupted>>

EndTurn(k) ==
  /\ active[k] # Nobody
  /\ active' = [active EXCEPT ![k] = Nobody]
  /\ cut' = cut \ {active[k]} /\ interrupted' = interrupted \ {active[k]}
  /\ UNCHANGED <<index, owner, phase, parked, popped, held, prompts>>

\* SessionRuntime.Close, down to the part of Loop.Close before it waits.
Close(k) ==
  /\ phase[k] = "cancelled"
  /\ phase' = [phase EXCEPT ![k] = "closing"] /\ parked' = [parked EXCEPT ![k] = {}]
  /\ cut' = cut \cup ({active[k]} \ {Nobody})
  /\ UNCHANGED <<index, owner, popped, active, held, prompts, interrupted>>

\* The loop's goroutine ends.
Exit(k) ==
  /\ phase[k] = "closing" /\ parked[k] = {} /\ popped[k] = Nobody /\ active[k] = Nobody
  /\ phase' = [phase EXCEPT ![k] = "closed"]
  /\ UNCHANGED <<index, owner, parked, popped, active, cut, held, prompts, interrupted>>

Next ==
  \/ \E c \in Clients : Admit(c) \/ \E s \in Sessions : GetOrCreateEntry(c, s) \/ EnsureEntry(c, s)
  \/ \E s \in Sessions : Subscribe(s) \/ Stop(s) \/ WindowEnds(s) \/ RemoveSession(s) \/ GrowsOld(s)
  \/ \E k \in Built : Pop(k) \/ Register(k) \/ EndTurn(k) \/ Close(k) \/ Exit(k)

Spec == Init /\ [][Next]_vars

\* The goroutines of a runtime run; a turn ends once its context is cancelled, which
\* every call it makes observes. One that is not cancelled may go on for ever.
EndCutTurn(k) == active[k] \in cut /\ EndTurn(k)
Live(k) == k \in Built /\ (Pop(k) \/ Register(k) \/ EndCutTurn(k) \/ Close(k) \/ Exit(k))
Fairness == \A k \in 1..MaxRuntimes : WF_vars(Live(k))
FairSpec == Spec /\ Fairness

-----------------------------------------------------------------------------
(* Properties                                                              *)

\* The list orders exactly the entries of the map, each once, through failed builds,
\* evictions and removals, and they never exceed the cap. Reaping and evicting look
\* up the entry of every element and would panic without one.
IndexAgrees == ToSet(lru) = Known /\ Cardinality(Known) <= MaxSessions

\* A runtime is open exactly as long as an entry holds it: two never serve one
\* session, none is built and forgotten, and an entry never holds one that has begun
\* to close.
OpenMeansOwned ==
  \A k \in Built : phase[k] = "open" <=> entry[owner[k]] = k

\* The manager's map, list and runtimes agree.
SessionsAreOwned == TypeOK /\ IndexAgrees /\ OpenMeansOwned

\* Making room never ends a run its entry can see: a registered run of an open
\* runtime is cancelled, and its runtime let go of, only by a stop, a steer or a
\* removal of its own session.
RunsAreSpared ==
  \A k \in Built :
    phase[k] = "open" /\ active[k] # Nobody /\ active[k] \notin interrupted' =>
      phase'[k] = "open" /\ (active[k] \in cut' => active[k] \in cut)
OthersRunsAreSpared == [][RunsAreSpared]_vars

\* Once an entry has let go of it, a runtime closes, whatever requests still hold it.
LetGoCloses == \A k \in 1..MaxRuntimes :
  (k \in Built /\ phase[k] = "cancelled") ~> (k \in Built /\ phase[k] = "closed")
=============================================================================
