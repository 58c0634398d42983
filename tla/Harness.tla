------------------------------ MODULE Harness ------------------------------
(***************************************************************************)
(* The harness layer (internal/harness): the process-wide registry, the    *)
(* plugin manager that fills it, the selection of one harness for a        *)
(* session, and the attempts run through RunAttemptWithLifecycle.          *)
(*                                                                         *)
(* Load and Unload take the manager's lock and the registry's lock one     *)
(* after the other, never together, and call plugin code in between, so    *)
(* each is a sequence of steps of a worker.  A harness is a record of what *)
(* selection reads of it; ids are numbers because ties break on their      *)
(* order.                                                                  *)
(***************************************************************************)
EXTENDS Naturals, Functions

CONSTANTS
    Plugins,    \* ids of plugins
    NoPlugin,   \* the empty plugin id
    Embedded,   \* id of the in-process harness
    NoId,       \* the empty harness id
    BuiltIns,   \* harnesses the program registers by itself at startup
    Builds,     \* harnesses the factories of the plugins can return
    Contexts,   \* what a session asks of selection
    Sessions,
    Workers,    \* goroutines that call Load and Unload
    Slots,      \* attempts in flight at once
    MaxGen,     \* bound on the resets of a session
    None        \* nothing bound, no work

Harnesses == BuiltIns \cup Builds
Ids == {h.id : h \in Harnesses}

IdsAreNumbers == Ids \subseteq Nat /\ Embedded \in Nat /\ NoId \notin Nat
PluginsAreNamed == NoPlugin \notin Plugins
BoundIsNumber == MaxGen \in Nat

VARIABLES
    registry,   \* registry.byID: a function from the ids registered
    loaded,     \* Manager.loaded: a function from the plugins loaded
    work,       \* per worker: the step of the Load or Unload it is in
    bound,      \* per session: the harness selected, the context, the reason
    gen,        \* lifecycle.gen: per session
    attempt,    \* per slot: the attempt running or ended there
    overtaken   \* slots whose session was reset while their attempt ran

vars == <<registry, loaded, work, bound, gen, attempt, overtaken>>

Idle == [pc |-> "idle"]
NoAttempt == [pc |-> "idle"]

Without(f, k) == Restrict(f, (DOMAIN f) \ {k})

Init ==
    /\ registry \in {[i \in {h.id : h \in S} |-> CHOOSE h \in S : h.id = i] :
                        S \in SUBSET BuiltIns}
    /\ loaded = <<>>
    /\ work = [w \in Workers |-> Idle]
    /\ bound = [s \in Sessions |-> None]
    /\ gen = [s \in Sessions |-> 0]
    /\ attempt = [a \in Slots |-> NoAttempt]
    /\ overtaken = {}

-----------------------------------------------------------------------------
(* Loading and unloading plugins *)

\* Register: the declared capabilities are implemented, and the plugin id the
\* harness reports, if any, is its owner's.
Registrable(h, owner) ==
    /\ h.verified
    /\ h.declares \in {NoPlugin, owner}

\* Load, up to Register: the factory and OnLoad.  Either may fail, and the
\* call ends there.  What the hooks of a plugin do is its own.
LoadStart(w, p, h) ==
    /\ work[w] = Idle
    /\ h.plugin = p
    /\ work' = [work EXCEPT ![w] = [pc |-> "register", plugin |-> p, harness |-> h]]
    /\ UNCHANGED <<registry, loaded, bound, gen, attempt, overtaken>>

\* Register replaces any entry with the harness's id.  When it fails Load
\* returns its error; OnUnload does not run.
LoadRegister(w) ==
    /\ work[w].pc = "register"
    /\ LET h == work[w].harness IN
       IF Registrable(h, work[w].plugin)
         THEN /\ registry' = [i \in (DOMAIN registry) \cup {h.id} |->
                                IF i = h.id THEN h ELSE registry[i]]
              /\ work' = [work EXCEPT ![w].pc = "record"]
         ELSE /\ work' = [work EXCEPT ![w] = Idle]
              /\ UNCHANGED registry
    /\ UNCHANGED <<loaded, bound, gen, attempt, overtaken>>

LoadRecord(w) ==
    /\ work[w].pc = "record"
    /\ loaded' = [p \in (DOMAIN loaded) \cup {work[w].plugin} |->
                    IF p = work[w].plugin THEN work[w].harness ELSE loaded[p]]
    /\ work' = [work EXCEPT ![w] = Idle]
    /\ UNCHANGED <<registry, bound, gen, attempt, overtaken>>

\* Unload: the entry is deleted under the manager's lock, ...
UnloadTake(w, p) ==
    /\ work[w] = Idle
    /\ p \in DOMAIN loaded
    /\ loaded' = Without(loaded, p)
    /\ work' = [work EXCEPT ![w] =
                  [pc |-> "unregister", plugin |-> p, harness |-> loaded[p]]]
    /\ UNCHANGED <<registry, bound, gen, attempt, overtaken>>

\* Fault: the id leaves the registry only when the entry is the harness taken.
UnloadRegistryIfSame(w) ==
    /\ work[w].pc = "unregister"
    /\ registry' = IF work[w].harness \in Range(registry)
                     THEN Without(registry, work[w].harness.id) ELSE registry
    /\ work' = [work EXCEPT ![w] = Idle]
    /\ UNCHANGED <<loaded, bound, gen, attempt, overtaken>>

\* ... then, after OnUnload, the harness's id leaves the registry, whoever holds it by then.
UnloadRegistry(w) ==
    /\ work[w].pc = "unregister"
    /\ registry' = Without(registry, work[w].harness.id)
    /\ work' = [work EXCEPT ![w] = Idle]
    /\ UNCHANGED <<loaded, bound, gen, attempt, overtaken>>

-----------------------------------------------------------------------------
(* Selection *)

Registered(i) == i \in DOMAIN registry

\* Capabilities.MissingHostCapabilities: a superset test.
Hosts(h, verbs) == verbs \subseteq h.hosts

\* Supports together with the allowlist of AutoSelection: the embedded harness
\* needs a runner, and answers for the providers it lists.
Supports(h, c) ==
    /\ h.id = Embedded => h.healthy
    /\ c.provider \in h.providers

\* The filters of Rank.
Eligible(h, c) ==
    /\ h.healthy
    /\ Hosts(h, c.verbs)
    /\ c.delegate = NoPlugin \/ c.delegate \in h.delegates
    /\ Supports(h, c)

\* The order of Rank: priority first, the lower id on a tie.
Beats(h, g) ==
    \/ h.priority > g.priority
    \/ h.priority = g.priority /\ h.id < g.id

Rank(c) == {h \in Range(registry) : Eligible(h, c)}

Best(c) == CHOOSE h \in Rank(c) : \A g \in Rank(c) \ {h} : Beats(h, g)

Decision(h, c, reason) == [harness |-> h, context |-> c, reason |-> reason]

EmbeddedHealthy == Registered(Embedded) /\ registry[Embedded].healthy

\* What ranking decides, and the reason it gives.
AutoDecision(c) ==
    LET h == IF Rank(c) # {} THEN Best(c) ELSE registry[Embedded]
    IN  Decision(h, c,
          IF c.default # NoId THEN "default_plugin_unavailable"
          ELSE IF h.id = Embedded THEN "auto_embedded_fallback"
          ELSE "auto_plugin")

\* SelectHarness.  An explicit id must be registered.  A default id is taken
\* when registered.  A requested runtime is taken when it supports the
\* context, without the other filters of Rank, and gives way to a healthy
\* embedded harness otherwise.  Ranking decides the rest: with no rank and no
\* embedded harness it has no decision, and the code dereferences a nil one.
SelectHarness(c) ==
    CASE c.explicit # NoId ->
            IF Registered(c.explicit)
              THEN {Decision(registry[c.explicit], c, "forced_plugin")}
              ELSE {}
      [] c.explicit = NoId /\ c.default # NoId /\ Registered(c.default) ->
            {Decision(registry[c.default], c, "forced_default_plugin")}
      [] OTHER ->
            IF /\ c.requested # NoId /\ Registered(c.requested)
               /\ Supports(registry[c.requested], c)
              THEN {Decision(registry[c.requested], c, "auto_plugin")}
            ELSE IF c.requested # NoId /\ EmbeddedHealthy
              THEN {Decision(registry[Embedded], c,
                      IF Registered(c.requested) THEN "implicit_plugin_unsupported"
                                                 ELSE "implicit_plugin_unavailable")}
            ELSE IF Rank(c) # {} \/ Registered(Embedded)
              THEN {AutoDecision(c)}
            ELSE {}

\* AgentFactory.resolveHarnessFor: a new runtime of the session binds one.
Select(s, c) ==
    /\ \E d \in SelectHarness(c) : bound' = [bound EXCEPT ![s] = d]
    /\ \A a \in Slots : attempt[a].pc = "running" => attempt[a].session # s
    /\ UNCHANGED <<registry, loaded, work, gen, attempt, overtaken>>

-----------------------------------------------------------------------------
(* Attempts *)

\* RunAttemptWithLifecycle, up to the harness's own code: the host check, then
\* the generation the attempt belongs to.
Start(a, s) ==
    /\ attempt[a].pc # "running"
    /\ bound[s] # None
    /\ attempt' = [attempt EXCEPT ![a] =
         IF Hosts(bound[s].harness, bound[s].context.verbs)
           THEN [pc |-> "running", session |-> s, gen |-> gen[s]]
           ELSE [pc |-> "refused", session |-> s, bound |-> bound[s]]]
    /\ overtaken' = overtaken \ {a}
    /\ UNCHANGED <<registry, loaded, work, bound, gen>>

\* normalizeResult and statusFor: a panic is contained as an error, an error
\* overrides the status the harness reported, a blank status is filled in.
StatusFor(outcome) ==
    CASE outcome = "done"     -> "ok"
      [] outcome = "deadline" -> "timeout"
      [] outcome = "canceled" -> "aborted"
      [] outcome \in {"failed", "panicked"} -> "error"

Outcomes == {"done", "deadline", "canceled", "failed", "panicked"}

Finish(a, outcome) ==
    /\ attempt[a].pc = "running"
    /\ attempt' = [attempt EXCEPT ![a] =
         [pc |-> "ended", session |-> @.session, status |-> StatusFor(outcome),
          superseded |-> gen[@.session] # @.gen]]
    /\ UNCHANGED <<registry, loaded, work, bound, gen, overtaken>>

\* Reset of the embedded harness: the generation advances whether or not a
\* Reset hook is configured.
Bumped(s, h) == gen[s] + 1

\* ResetAll walks the registrations.  Only the embedded harness keeps
\* generations; one harness failing does not stop the others.
ResetAll(s) ==
    /\ Registered(Embedded)
    /\ gen[s] < MaxGen
    /\ gen' = [gen EXCEPT ![s] = Bumped(s, registry[Embedded])]
    /\ overtaken' = overtaken \cup
         {a \in Slots : attempt[a].pc = "running" /\ attempt[a].session = s}
    /\ UNCHANGED <<registry, loaded, work, bound, attempt>>

-----------------------------------------------------------------------------
Next ==
    \/ \E w \in Workers, p \in Plugins, h \in Builds : LoadStart(w, p, h)
    \/ \E w \in Workers : LoadRegister(w)
    \/ \E w \in Workers : LoadRecord(w)
    \/ \E w \in Workers, p \in Plugins : UnloadTake(w, p)
    \/ \E w \in Workers : UnloadRegistry(w)
    \/ \E s \in Sessions, c \in Contexts : Select(s, c)
    \/ \E a \in Slots, s \in Sessions : Start(a, s)
    \/ \E a \in Slots, outcome \in Outcomes : Finish(a, outcome)
    \/ \E s \in Sessions : ResetAll(s)

Spec == Init /\ [][Next]_vars

-----------------------------------------------------------------------------
\* What every registration satisfies: it is filed under its own id, and its
\* declarations were verified.
TypeOK ==
    /\ \A i \in DOMAIN registry :
         /\ registry[i] \in Harnesses
         /\ registry[i].id = i /\ registry[i].verified
         /\ registry[i].declares \in {NoPlugin, registry[i].plugin}
    /\ DOMAIN loaded \subseteq Plugins
    /\ \A p \in DOMAIN loaded : loaded[p] \in Builds /\ loaded[p].plugin = p
    /\ gen \in [Sessions -> 0..MaxGen]
    /\ overtaken \subseteq Slots

\* The plugin whose harness is registered has it loaded, or a Load or Unload
\* of it is under way: no order of the steps of two calls leaves a harness
\* behind that no Unload will take away again.  It is stated for plugins that
\* keep to one harness id of their own.
OneIdEach ==
    \A h, g \in Harnesses : h.plugin = g.plugin <=> h.id = g.id

NothingLeftBehind ==
    OneIdEach =>
      \A i \in DOMAIN registry :
        LET p == registry[i].plugin IN
        \/ p = NoPlugin
        \/ p \in DOMAIN loaded
        \/ \E w \in Workers : work[w] # Idle /\ work[w].plugin = p

\* An attempt is refused for want of a host facility only when its harness was
\* pinned, requested or the embedded fallback: what ranking picks can host it.
RankedIsNotRefused ==
    \A a \in Slots : attempt[a].pc = "refused" =>
      LET b == attempt[a].bound IN
      \/ {b.context.explicit, b.context.default, b.context.requested} # {NoId}
      \/ b.harness.id = Embedded

\* An attempt whose session was reset while it ran says so when it ends.
ResetIsReported ==
    \A a \in overtaken : attempt[a].pc = "ended" => attempt[a].superseded

=============================================================================
