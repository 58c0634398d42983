------------------------------ MODULE MCSurface ------------------------------
(***************************************************************************)
(* Small instances of McpRegistry (the servers that give an agent tools),  *)
(* of McpLauncher (how such a server is installed and started), of         *)
(* ToolSurface (which tools an agent is offered: a skill of the global     *)
(* directory that a project hides, and one server) and of Harness (which   *)
(* harness runs the attempt: the built-in one, id 1, and two plugins with  *)
(* one harness id each, the first in two versions; one more build of each  *)
(* does not register).  A behaviour is one of the four: `part` says which. *)
(***************************************************************************)
EXTENDS McpRegistry, TLC

CONSTANTS
    MaxResolves,
    r1, r2, Sessions, MaxScans, MaxPending,
    p1, p2, NoPlugin, NoId, Workers, Slots, MaxGen

MCOnDisk == (r1 :> {1}) @@ (r2 :> {})

Plug(i, p, d, ok, hosts, prio) ==
    [id |-> i, plugin |-> p, declares |-> d, verified |-> ok,
     healthy |-> TRUE, hosts |-> hosts, delegates |-> {p1},
     providers |-> {"x", "y"}, priority |-> prio, hook |-> FALSE]
MCBuiltIns == {Plug(1, NoPlugin, NoPlugin, TRUE, {"run"}, 1)}
MCBuilds == {Plug(2, p1, p1, TRUE, {"run", "compact"}, 2),
             Plug(2, p1, NoPlugin, TRUE, {"run"}, 2),
             Plug(2, p1, p1, FALSE, {"run"}, 2),
             Plug(3, p2, p1, TRUE, {"run"}, 2),
             Plug(3, p2, NoPlugin, TRUE, {"run"}, 2)}
Choice(e, d, r, verbs, p) ==
    [explicit |-> e, default |-> d, requested |-> r, provider |-> "x",
     verbs |-> verbs, delegate |-> p]
MCContexts == {Choice(NoId, NoId, NoId, {"run"}, NoPlugin),
               Choice(NoId, NoId, NoId, {"run", "compact"}, NoPlugin),
               Choice(NoId, NoId, NoId, {"run"}, p2),
               Choice(3, NoId, NoId, {"compact"}, NoPlugin),
               Choice(NoId, 2, NoId, {"run"}, NoPlugin),
               Choice(NoId, NoId, 3, {"compact"}, NoPlugin)}

VARIABLES
    spec, stage, res, package, disk, resolves,
    off, scans, up, tools, built, queued, scoped, pending, refresh, fresh,
    registry, loaded, work, bound, gen, attempt, overtaken,
    part

L == INSTANCE McpLauncher WITH Args <- {"-y", "pkg", "tool"}, Flags <- {"-y"}
U == INSTANCE ToolSurface
       WITH Skills <- {1}, Servers <- {3}, Roots <- {r1, r2}, OnDisk <- MCOnDisk, Global <- {1}
H == INSTANCE Harness
       WITH Plugins <- {p1, p2}, Embedded <- 1, BuiltIns <- MCBuiltIns, Builds <- MCBuilds,
            Contexts <- MCContexts, Sessions <- {"s"}

ASSUME PartsAssumption ==
    /\ L!LauncherAssumption
    /\ U!IdsAreNumbers /\ U!DisksAreSkills /\ U!BoundIsNumber /\ U!NoneIsNothing
    /\ H!IdsAreNumbers /\ H!PluginsAreNamed /\ H!BoundIsNumber

launcherVars == <<spec, stage, res, package, disk, resolves>>
surfaceVars == <<off, scans, up, tools, built, queued, scoped, pending, refresh, fresh>>
harnessVars == <<registry, loaded, work, bound, gen, attempt, overtaken>>

\* The parts that do not move stand in one of their initial states.
MCInit ==
    /\ part \in {"registry", "launcher", "surface", "harness"}
    /\ Init /\ L!Init /\ U!Init /\ H!Init
    /\ part # "registry" => book = [s \in Servers |-> "none"]
    /\ part # "surface" => off = {} /\ scans = <<U!Scan(r1)>>
    /\ part # "harness" => DOMAIN registry = {}
MCNext ==
    \/ part = "registry" /\ Next /\ UNCHANGED <<launcherVars, surfaceVars, harnessVars, part>>
    \/ part = "launcher" /\ L!Next /\ UNCHANGED <<vars, surfaceVars, harnessVars, part>>
    \/ part = "surface" /\ U!Next /\ UNCHANGED <<vars, launcherVars, harnessVars, part>>
    \/ part = "harness" /\ H!Next /\ UNCHANGED <<vars, launcherVars, surfaceVars, part>>
MCSpec == MCInit /\ [][MCNext]_<<vars, launcherVars, surfaceVars, harnessVars, part>>

(* What a server is started with is installed and is what its user wrote,  *)
(* and the agents are offered the tools that there are, once a refresh has *)
(* ended, whatever changed while it ran (McpLauncher ReadyIsInstalled,     *)
(* StartsTheNpxServer, ToolSurface RefreshIsEnough).                       *)
ToolsAreOffered ==
    /\ L!TypeOK /\ L!ReadyIsInstalled /\ L!StartsTheNpxServer
    /\ U!TypeOK /\ U!RefreshIsEnough

(* No trace is left of an unloaded plugin, no ranked harness is refused    *)
(* and each reset is reported (Harness NothingLeftBehind,                  *)
(* RankedIsNotRefused, ResetIsReported).                                   *)
HarnessIsSelected ==
    H!TypeOK /\ H!NothingLeftBehind /\ H!RankedIsNotRefused /\ H!ResetIsReported
==============================================================================
