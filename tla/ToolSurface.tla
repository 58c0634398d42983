---------------------------- MODULE ToolSurface ----------------------------
(***************************************************************************)
(* The tools an agent is offered: the skill registry and its plugin, the   *)
(* MCP plugin, and the one tool registry all sessions share.               *)
(*                                                                         *)
(* A skill or server change is followed by RefreshAllTools, which holds    *)
(* the session manager's lock and, for each built session, unregisters and *)
(* registers both plugins in whatever Agent.Tools() returns: the shared    *)
(* registry, or the scoped copy of a skill turn while one runs.  Built-in  *)
(* tools are never unregistered and are left out.                          *)
(*                                                                         *)
(* A tool's name is the id of its skill or server (a number: skills are    *)
(* registered in id order).  A registry maps a name to the scan its skill  *)
(* entry comes from, 0 for an MCP tool.                                    *)
(***************************************************************************)
EXTENDS Naturals, Sequences, Functions

CONSTANTS
    Skills,     \* ids of skills
    Servers,    \* ids of MCP servers, each with one tool
    Roots,      \* workspace roots
    OnDisk,     \* per root: the skills a scan finds (project and global)
    Global,     \* the skills main knows: those of the global directory
    Sessions,
    MaxScans,   \* bound on the scans of a process
    MaxPending, \* bound on the refreshes that wait
    None

IdsAreNumbers == Skills \subseteq Nat /\ Servers \subseteq Nat /\ Skills \cap Servers = {}
DisksAreSkills == OnDisk \in [Roots -> SUBSET Skills] /\ Global \subseteq Skills
BoundIsNumber == MaxPending \in Nat

\* What RefreshAllTools is about: the sessions left, the step and the registry it changes.
Refreshes == [rest : SUBSET Sessions, target : Sessions \cup {"shared", None},
              step : {"next", "skills_out", "skills_in", "mcp_out", "mcp_in"}]
NoneIsNothing == None \notin Refreshes

VARIABLES
    off,        \* main's skill_state: the skills the user switched off
    scans,      \* the SkillRegistry of each scan: what it found, what is on
    up,         \* the MCP servers connected
    tools,      \* the shared tool registry
    built,      \* sessions with an agent
    queued,     \* per session: the tool names of a skill turn not started
    scoped,     \* per session: runSkillTools while a skill turn runs
    pending,    \* refreshes waiting for the session manager's lock
    refresh,    \* the refresh that holds it
    fresh       \* whether the shared registry was refreshed since a change

vars == <<off, scans, up, tools, built, queued, scoped, pending, refresh, fresh>>

Empty == [n \in {} |-> 0]

\* A scan enables everything it finds.
Scan(r) == [found |-> OnDisk[r], on |-> OnDisk[r]]

Init ==
    /\ off \in SUBSET Global
    /\ \E r \in Roots : scans = <<Scan(r)>>
    /\ up = {}
    /\ tools = Empty
    /\ built = {}
    /\ queued = [s \in Sessions |-> None]
    /\ scoped = [s \in Sessions |-> None]
    /\ pending = 0
    /\ refresh = None
    /\ fresh = "no"

Current == scans[Len(scans)]

-----------------------------------------------------------------------------
(* Registering plugins *)

Extended(reg, names, scan) ==
    [n \in (DOMAIN reg) \cup names |-> IF n \in DOMAIN reg THEN reg[n] ELSE scan]

\* Fault: the plugin keeps the registry of the first scan.
PluginSkillsFirst == [on |-> scans[1].on, scan |-> 1]

\* The registry SetBootstrapResult gave the skill plugin.
PluginSkills == [on |-> Current.on, scan |-> Len(scans)]

\* SkillPlugin.Register: one tool per enabled skill in id order, up to the
\* first name already taken.
WithSkills(reg) ==
    LET p == PluginSkills IN
    Extended(reg, {k \in p.on : \A j \in p.on \cap (DOMAIN reg) : k < j}, p.scan)

\* McpPlugin.Register: one tool per tool of a connected server, in no order,
\* up to the first name already taken.
WithServers(reg) ==
    IF up \cap (DOMAIN reg) = {}
      THEN {Extended(reg, up, 0)}
      ELSE {Extended(reg, S, 0) : S \in SUBSET (up \ DOMAIN reg)}

\* UnregisterByPlugin.
Minus(reg, owned) == Restrict(reg, (DOMAIN reg) \ owned)

\* Every AgentFactory.Build registers the plugins, in the shared registry.
Surfaces == WithServers(WithSkills(tools))

\* GetOrCreateEntry under the lock: a session without an agent gets one.
Ensure(s) ==
    /\ refresh = None
    /\ built' = built \cup {s}
    /\ IF s \in built THEN UNCHANGED tools ELSE tools' \in Surfaces

Build(s) ==
    /\ s \notin built
    /\ Ensure(s)
    /\ UNCHANGED <<off, scans, up, queued, scoped, pending, refresh, fresh>>

\* Eviction of a session without an active run: its queued turn is dropped,
\* the shared registry keeps the tools.
Evict(s) ==
    /\ s \in built /\ refresh = None /\ scoped[s] = None
    /\ built' = built \ {s}
    /\ queued' = [queued EXCEPT ![s] = None]
    /\ UNCHANGED <<off, scans, up, tools, scoped, pending, refresh, fresh>>

-----------------------------------------------------------------------------
(* Changes *)

\* refreshToolsIfNeeded: the caller waits for the lock.
Changed == pending < MaxPending /\ pending' = pending + 1 /\ fresh' = "no"

\* SkillManager.setEnabled writes its own database, then asks the agent; an
\* id the agent does not know is an error and changes nothing there.
SetEnabled(k, on) ==
    /\ off' = IF on THEN off \ {k} ELSE off \cup {k}
    /\ IF k \in Current.found
         THEN /\ scans' = [scans EXCEPT ![Len(scans)].on =
                             IF on THEN @ \cup {k} ELSE @ \ {k}]
              /\ Changed
         ELSE UNCHANGED <<scans, pending, fresh>>
    /\ UNCHANGED <<up, tools, built, queued, scoped, refresh>>

\* pushBootstrap (at startup and whenever the watched directory changes):
\* handleBootstrapSkills sets the flags of the skills main knows, ignores
\* unknown ids, and refreshes no tools.
PushFlags ==
    /\ scans' = [scans EXCEPT ![Len(scans)].on = (@ \ (off \cap Global)) \cup
                   {k \in Global \cap Current.found : k \notin off}]
    /\ fresh' = "no"
    /\ UNCHANGED <<off, up, tools, built, queued, scoped, pending, refresh>>

\* set_workspace: the skills are scanned again and the plugin, the handler and
\* its runner get the new registry.
SetWorkspace(r) ==
    /\ Len(scans) < MaxScans
    /\ scans' = Append(scans, Scan(r))
    /\ Changed
    /\ UNCHANGED <<off, up, tools, built, queued, scoped, refresh>>

\* OnMcpConnectionChanged and OnMcpToolsChanged.
ServerChanges(v) ==
    /\ up' = IF v \in up THEN up \ {v} ELSE up \cup {v}
    /\ Changed
    /\ UNCHANGED <<off, scans, tools, built, queued, scoped, refresh>>

-----------------------------------------------------------------------------
(* RefreshAllTools *)

RefreshBegin ==
    /\ pending > 0 /\ refresh = None
    /\ pending' = pending - 1
    /\ refresh' = [rest |-> built, step |-> "next", target |-> None]
    /\ fresh' = "maybe"
    /\ UNCHANGED <<off, scans, up, tools, built, queued, scoped>>

\* The next session of the index, in no order: Agent.Tools() is read once.
RefreshSession(s) ==
    /\ refresh # None /\ refresh.step = "next" /\ s \in refresh.rest
    /\ refresh' = [rest |-> refresh.rest \ {s}, step |-> "skills_out",
                   target |-> IF scoped[s] = None THEN "shared" ELSE s]
    /\ UNCHANGED <<off, scans, up, tools, built, queued, scoped, pending, fresh>>

\* One step of one session: it changes the shared registry, the scoped one of
\* a skill turn, or one whose turn has ended meanwhile, which nobody reads.
Step(from, to, After(_)) ==
    /\ refresh # None /\ refresh.step = from
    /\ refresh' = [refresh EXCEPT !.step = to]
    /\ LET t == refresh.target IN
       IF t = "shared"
         THEN tools' \in After(tools) /\ UNCHANGED scoped
       ELSE IF scoped[t] # None
         THEN (\E r \in After(scoped[t]) : scoped' = [scoped EXCEPT ![t] = r])
              /\ UNCHANGED tools
       ELSE UNCHANGED <<tools, scoped>>
    /\ UNCHANGED <<off, scans, up, built, queued, pending>>

SkillsOut ==
    /\ Step("skills_out", "skills_in", LAMBDA reg : {Minus(reg, Skills)})
    /\ UNCHANGED fresh
SkillsIn ==
    /\ Step("skills_in", "mcp_out", LAMBDA reg : {WithSkills(reg)})
    /\ UNCHANGED fresh
McpOut ==
    /\ Step("mcp_out", "mcp_in", LAMBDA reg : {Minus(reg, Servers)})
    /\ UNCHANGED fresh
McpIn ==
    /\ Step("mcp_in", "next", LAMBDA reg : WithServers(reg))
    /\ fresh' = IF fresh = "maybe" /\ refresh.target = "shared" THEN "yes" ELSE fresh

RefreshEnd ==
    /\ refresh # None /\ refresh.step = "next" /\ refresh.rest = {}
    /\ refresh' = None
    /\ UNCHANGED <<off, scans, up, tools, built, queued, scoped, pending, fresh>>

-----------------------------------------------------------------------------
(* Skill turns *)

\* handleInvokeSkillUser: the skill is enabled, the session exists or is
\* built, and the turn is queued with the names of the tools of that moment.
Invoke(s, k) ==
    /\ k \in Current.on
    /\ queued[s] = None
    /\ Ensure(s)
    /\ queued' = [queued EXCEPT ![s] = DOMAIN tools]
    /\ UNCHANGED <<off, scans, up, scoped, pending, refresh, fresh>>

\* RunSkillSession: the scoped registry is a copy of the entries so named.
StartTurn(s) ==
    /\ queued[s] # None /\ scoped[s] = None
    /\ scoped' = [scoped EXCEPT ![s] = Restrict(tools, (DOMAIN tools) \cap queued[s])]
    /\ queued' = [queued EXCEPT ![s] = None]
    /\ UNCHANGED <<off, scans, up, tools, built, pending, refresh, fresh>>

EndTurn(s) ==
    /\ scoped[s] # None
    /\ scoped' = [scoped EXCEPT ![s] = None]
    /\ UNCHANGED <<off, scans, up, tools, built, queued, pending, refresh, fresh>>

-----------------------------------------------------------------------------
Next ==
    \/ \E s \in Sessions : Build(s)
    \/ \E s \in Sessions : Evict(s)
    \/ \E k \in Skills, on \in BOOLEAN : SetEnabled(k, on)
    \/ PushFlags
    \/ \E r \in Roots : SetWorkspace(r)
    \/ \E v \in Servers : ServerChanges(v)
    \/ RefreshBegin
    \/ \E s \in Sessions : RefreshSession(s)
    \/ SkillsOut
    \/ SkillsIn
    \/ McpOut
    \/ McpIn
    \/ RefreshEnd
    \/ \E s \in Sessions, k \in Skills : Invoke(s, k)
    \/ \E s \in Sessions : StartTurn(s)
    \/ \E s \in Sessions : EndTurn(s)

Spec == Init /\ [][Next]_vars

-----------------------------------------------------------------------------
\* What a registry can hold: skill entries of a scan that found the skill, and
\* tools of servers.
Registry(reg) ==
    /\ (DOMAIN reg) \subseteq Skills \cup Servers
    /\ \A n \in DOMAIN reg :
         IF n \in Servers THEN reg[n] = 0
         ELSE reg[n] \in 1..Len(scans) /\ n \in scans[reg[n]].found

TypeOK ==
    /\ off \subseteq Skills /\ up \subseteq Servers /\ built \subseteq Sessions
    /\ \A i \in 1..Len(scans) : scans[i].on \subseteq scans[i].found
    /\ Registry(tools)
    /\ \A s \in Sessions : scoped[s] # None => Registry(scoped[s]) /\ s \in built
    /\ \A s \in Sessions : queued[s] # None => s \in built
    /\ pending \in 0..MaxPending /\ refresh \in Refreshes \cup {None}
    /\ fresh \in {"no", "maybe", "yes"}

Wanted == Extended(Extended(Empty, Current.on, Len(scans)), up, 0)

\* Once a refresh has gone through a session that is not in a skill turn, and
\* no change came after it began, the shared registry holds one tool per
\* enabled skill of the latest scan and per connected server, whatever other
\* refreshes, agent builds and skill turns came in between.
RefreshIsEnough ==
    fresh = "yes" /\ refresh = None /\ pending = 0 => tools = Wanted

=============================================================================
