--------------------------- MODULE McpRegistry ---------------------------
(***************************************************************************)
(* The MCP server registry of the agent, the resolver that prepares a      *)
(* server's launch line, the background connects, the tool surface the     *)
(* agents see, and the desktop's book of servers that drives them          *)
(* (mcp/registry.go, registry_resolve.go, launcher.go, tools/mcp.go,       *)
(* gateway/handler_mcp.go, main/libs/mcpManager.ts).                       *)
(*                                                                         *)
(* A connect is a goroutine: it reads the entry under the registry's lock, *)
(* waits for the resolver, dials, and takes the lock again to attach its   *)
(* client to whatever entry is there by then.  Operations of the desktop   *)
(* come one at a time over one connection, connects run beside them.       *)
(***************************************************************************)
EXTENDS Naturals, FiniteSets

CONSTANTS Servers,      \* server ids
          Conns,        \* connects of the run; a connect's client has its name
          None,         \* no client, no resolver task
          MaxSpecs,     \* bound: specifications registered or edited
          MaxRestarts   \* bound: restarts of the agent process

ASSUME ConstantsAssumption ==
    /\ None \notin Conns
    /\ MaxSpecs \in Nat \ {0}
    /\ MaxRestarts \in Nat

VARIABLES
    book,      \* what the desktop's store says of a server
    booted,    \* McpManager.bootstrapped
    specs,     \* specifications so far: the newest fingerprint
    restarts,
    op,        \* the desktop's request in service
    agent,     \* "up", "wedged" (the registry's lock is never given back), "crashed"
    entries,   \* Registry.servers
    inFlight,  \* ResolverManager.inFlight: the connect that started the task
    tasks,     \* the resolve task a connect started
    conns,     \* the connect goroutines
    clients,   \* the client a connect built
    surface    \* servers whose tools are registered with the agents

vars == <<book, booted, specs, restarts, op, agent, entries, inFlight, tasks,
          conns, clients, surface>>

Missing == [there |-> FALSE]
NoTask  == [state |-> "none"]
Idle    == [kind |-> "idle"]

Entry(spec, enabled) ==
    [there |-> TRUE, spec |-> spec, enabled |-> enabled, connected |-> FALSE,
     failed |-> FALSE, ready |-> 0, client |-> None]

Registered(s) == entries[s].there
Connected == {s \in Servers : Registered(s) /\ entries[s].connected}

\* A connect that has not been started; it is started at most once.
Fresh == {c \in Conns : conns[c].pc = "free"}
InFlight(c) == conns[c].pc \notin {"free", "done"}
At(c, pc) == agent = "up" /\ conns[c].pc = pc
Moved(c, pc) == [conns EXCEPT ![c].pc = pc]

\* go r.connectServer(id): the goroutine exists, it has read nothing yet.
Spawned(c, s) == [conns EXCEPT ![c] = [pc |-> "start", server |-> s, spec |-> 0,
                                       awaits |-> None, ready |-> FALSE]]

-----------------------------------------------------------------------------
Init ==
    /\ book \in [Servers -> {"none", "on", "off"}]
    /\ booted = FALSE
    /\ specs = 1
    /\ restarts = 0
    /\ op = Idle
    /\ agent = "up"
    /\ entries = [s \in Servers |-> Missing]
    /\ inFlight = [s \in Servers |-> None]
    /\ tasks = [c \in Conns |-> NoTask]
    /\ conns = [c \in Conns |-> [pc |-> "free"]]
    /\ clients = [c \in Conns |-> [state |-> "none"]]
    /\ surface = {}

-----------------------------------------------------------------------------
(* The desktop's McpManager and the registry's handlers.  A request holds  *)
(* the connection until its handler returns, so the next one waits.        *)

desktopVars == <<book, booted, specs, restarts>>
Asks == agent = "up" /\ op = Idle

\* Connects started for the servers of S, one each.
Launch(S) ==
    \E start \in [S -> Fresh] :
        /\ \A s, t \in S : s # t => start[s] # start[t]
        /\ conns' = [c \in Conns |->
               IF \E s \in S : start[s] = c
                   THEN Spawned(c, CHOOSE s \in S : start[s] = c)[c]
                   ELSE conns[c]]

\* bootstrap(): once per life of the desktop, every booked server is
\* registered.  A repeated call returns at once.
Bootstrap ==
    /\ Asks /\ ~booted
    /\ booted' = TRUE
    /\ entries' = [s \in Servers |-> IF book[s] = "none" THEN entries[s]
                                     ELSE Entry(specs, book[s] = "on")]
    /\ Launch({s \in Servers : book[s] = "on"})
    /\ UNCHANGED <<book, specs, restarts, op, agent, inFlight, tasks, clients, surface>>

\* createServer and Register: the entry is there before the connect runs.
Register(s, enabled) ==
    /\ Asks /\ booted /\ book[s] = "none" /\ specs < MaxSpecs
    /\ specs' = specs + 1
    /\ book' = [book EXCEPT ![s] = IF enabled THEN "on" ELSE "off"]
    /\ entries' = [entries EXCEPT ![s] = Entry(specs', enabled)]
    /\ Launch(IF enabled THEN {s} ELSE {})
    /\ UNCHANGED <<booted, restarts, op, agent, inFlight, tasks, clients, surface>>

\* Fault: the status of the old client is kept while the new one is dialled.
UpdateKeepsStatus(s, flag) ==
    /\ Asks /\ booted /\ book[s] # "none" /\ specs < MaxSpecs
    /\ specs' = specs + 1
    /\ book' = [book EXCEPT ![s] = IF flag = "absent" THEN @ ELSE flag]
    /\ IF Registered(s)
       THEN /\ entries' = [entries EXCEPT ![s].spec = specs', ![s].enabled = flag = "on"]
            /\ op' = [kind |-> "close", server |-> s, client |-> entries[s].client,
                      enabled |-> flag = "on"]
       ELSE UNCHANGED <<entries, op>>
    /\ UNCHANGED <<booted, restarts, agent, inFlight, tasks, conns, clients, surface>>

\* updateServer and Update.  The patch's enabled flag is taken as it is: one
\* the desktop left out reads as off, although its own book keeps the old flag.
\* The old client stays in the entry, and is closed after the unlock.
Update(s, flag) ==
    /\ Asks /\ booted /\ book[s] # "none" /\ specs < MaxSpecs
    /\ specs' = specs + 1
    /\ book' = [book EXCEPT ![s] = IF flag = "absent" THEN @ ELSE flag]
    /\ IF Registered(s)
       THEN /\ entries' = [entries EXCEPT ![s] =
                   [Entry(specs', flag = "on") EXCEPT !.client = entries[s].client]]
            /\ op' = [kind |-> "close", server |-> s, client |-> entries[s].client,
                      enabled |-> flag = "on"]
       ELSE UNCHANGED <<entries, op>>
    /\ UNCHANGED <<booted, restarts, agent, inFlight, tasks, conns, clients, surface>>

Closed(c) == IF c \in Conns THEN [clients EXCEPT ![c].state = "closed"] ELSE clients

\* The rest of Update: the old client is closed, an enabled server reconnects,
\* a disabled one is announced.
CloseOld ==
    /\ agent = "up" /\ op.kind = "close"
    /\ clients' = Closed(op.client)
    /\ IF op.enabled
       THEN Launch({op.server}) /\ op' = Idle
       ELSE conns' = conns /\ op' = [kind |-> "announce"]
    /\ UNCHANGED <<desktopVars, agent, entries, inFlight, tasks, surface>>

\* SetEnabled(true), or a click on retry.
Connect(s) ==
    /\ Registered(s)
    /\ Launch({s})
    /\ UNCHANGED <<op, agent, clients>>

\* SetEnabled(false): the client is closed and forgotten under the lock.
Disconnect(s) ==
    /\ Registered(s)
    /\ clients' = Closed(entries[s].client)
    /\ op' = [kind |-> "announce"]
    /\ UNCHANGED <<agent, conns>>

\* SetEnabled of a server the registry does not hold returns its error with the
\* lock still taken: no operation of the registry ever runs again.
Wedge(s) ==
    /\ ~Registered(s)
    /\ agent' = "wedged"
    /\ UNCHANGED <<op, conns, clients>>

SetEnabled(s, flag) ==
    /\ Asks /\ booted /\ book[s] # "none"
    /\ book' = [book EXCEPT ![s] = flag]
    /\ entries' = IF ~Registered(s) THEN entries
                  ELSE IF flag = "on" THEN [entries EXCEPT ![s].enabled = TRUE]
                  ELSE [entries EXCEPT ![s] = [Entry(@.spec, FALSE) EXCEPT !.failed = entries[s].failed]]
    /\ \/ flag = "on" /\ Connect(s)
       \/ flag = "off" /\ Disconnect(s)
       \/ Wedge(s)
    /\ UNCHANGED <<booted, specs, restarts, inFlight, tasks, surface>>

RetryResolution(s) ==
    /\ Asks /\ Registered(s) /\ entries[s].enabled
    /\ Connect(s)
    /\ UNCHANGED <<desktopVars, entries, inFlight, tasks, surface>>

\* deleteServer and Unregister.
Unregister(s) ==
    /\ Asks /\ booted /\ book[s] # "none"
    /\ book' = [book EXCEPT ![s] = "none"]
    /\ IF Registered(s)
       THEN /\ clients' = Closed(entries[s].client)
            /\ entries' = [entries EXCEPT ![s] = Missing]
            /\ op' = [kind |-> "announce"]
       ELSE UNCHANGED <<clients, entries, op>>
    /\ UNCHANGED <<booted, specs, restarts, agent, inFlight, tasks, conns, surface>>

\* OnConnectionChanged: the agents' MCP tools are dropped and registered again
\* from the servers that are connected now.
Announce ==
    /\ agent = "up" /\ op.kind = "announce"
    /\ surface' = Connected
    /\ op' = Idle
    /\ UNCHANGED <<desktopVars, agent, entries, inFlight, tasks, conns, clients>>

-----------------------------------------------------------------------------
(* connectServer.                                                          *)

rest == <<desktopVars, op, agent>>

\* The entry is read under the lock: a server that is gone or disabled ends it.
ReadSpec(c) ==
    LET s == conns[c].server IN
    /\ At(c, "start")
    /\ conns' = IF Registered(s) /\ entries[s].enabled
                    THEN [conns EXCEPT ![c].pc = "connecting", ![c].spec = entries[s].spec]
                    ELSE Moved(c, "done")
    /\ UNCHANGED <<rest, entries, inFlight, tasks, clients, surface>>

\* "connecting" is announced, and a cached ready resolution of this very
\* specification is looked up.
Lookup(c) ==
    LET s == conns[c].server IN
    /\ At(c, "connecting")
    /\ surface' = Connected
    /\ conns' = IF Registered(s) /\ entries[s].ready = conns[c].spec
                    THEN [conns EXCEPT ![c].pc = "dial", ![c].ready = TRUE]
                    ELSE Moved(c, "load")
    /\ UNCHANGED <<rest, entries, inFlight, tasks, clients>>

\* attachSubscriber: a task that is done answers at once, another adds the
\* caller to its subscribers.
Subscribe(c, t) ==
    /\ conns' = [conns EXCEPT ![c].awaits = t,
                     ![c].pc = IF tasks[t].state = "done" THEN "resolved" ELSE "await",
                     ![c].ready = tasks[t].state = "done" /\ tasks[t].ready]
    /\ tasks' = IF tasks[t].state = "done" THEN tasks
                ELSE [tasks EXCEPT ![t].subscribers = @ \cup {c}]

\* Resolve: a task in flight for the server is shared.
ResolveLoad(c) ==
    LET t == inFlight[conns[c].server] IN
    /\ At(c, "load")
    /\ IF t = None THEN conns' = Moved(c, "store") /\ UNCHANGED tasks ELSE Subscribe(c, t)
    /\ UNCHANGED <<rest, entries, inFlight, clients, surface>>

\* LoadOrStore decides who starts the task.
ResolveStore(c) ==
    LET s == conns[c].server IN
    /\ At(c, "store")
    /\ IF inFlight[s] = None
       THEN /\ inFlight' = [inFlight EXCEPT ![s] = c]
            /\ tasks' = [tasks EXCEPT ![c] = [state |-> "running", subscribers |-> {c}]]
            /\ conns' = [conns EXCEPT ![c].pc = "await", ![c].awaits = c]
       ELSE conns' = Moved(c, "reload") /\ UNCHANGED <<inFlight, tasks>>
    /\ UNCHANGED <<rest, entries, clients, surface>>

\* The loser of that race loads the winner's task once more: if the task has
\* left the map meanwhile, the assertion on the missing value panics.
ResolveReload(c) ==
    LET t == inFlight[conns[c].server] IN
    /\ At(c, "reload")
    /\ IF t = None
       THEN agent' = "crashed" /\ UNCHANGED <<conns, tasks>>
       ELSE Subscribe(c, t) /\ UNCHANGED agent
    /\ UNCHANGED <<desktopVars, op, entries, inFlight, clients, surface>>

\* The resolver's own goroutine: it ends within the 60 s bound, ready, failed
\* or cancelled, and hands every subscriber the one result.
TaskEnds(t) ==
    /\ agent # "crashed" /\ tasks[t].state = "running"
    /\ \E ok \in BOOLEAN :
        /\ tasks' = [tasks EXCEPT ![t] = [state |-> "done", ready |-> ok]]
        /\ conns' = [c \in Conns |-> IF c \in tasks[t].subscribers
                         THEN [conns[c] EXCEPT !.pc = "resolved", !.ready = ok] ELSE conns[c]]
    /\ UNCHANGED <<rest, entries, inFlight, clients, surface>>

TaskLeaves(t) ==
    /\ agent # "crashed" /\ tasks[t].state = "done" /\ inFlight[conns[t].server] = t
    /\ inFlight' = [inFlight EXCEPT ![conns[t].server] = None]
    /\ UNCHANGED <<rest, entries, tasks, conns, clients, surface>>

\* recordResolution: the result lands on the entry of the moment, under the
\* fingerprint of the task that produced it.
Record(c) ==
    LET s == conns[c].server IN
    /\ At(c, "resolved")
    /\ conns' = Moved(c, "dial")
    /\ entries' = IF ~Registered(s) THEN entries
                  ELSE IF conns[c].ready
                      THEN [entries EXCEPT ![s].ready = conns[conns[c].awaits].spec]
                      ELSE [entries EXCEPT ![s].ready = 0, ![s].failed = TRUE]
    /\ UNCHANGED <<rest, inFlight, tasks, clients, surface>>

\* The launch line is the resolved one, of the task's specification, or the
\* connect's own when the resolver gave none.
LaunchLine(c) == IF conns[c].ready /\ conns[c].awaits # None
                     THEN conns[conns[c].awaits].spec ELSE conns[c].spec

\* Connect, Initialize and ListTools on a new client.  The server may refuse
\* any of them, and the client is then closed.
Handshake(c) ==
    /\ At(c, "dial")
    /\ \/ /\ clients' = [clients EXCEPT ![c] = [state |-> "open", spec |-> LaunchLine(c)]]
          /\ conns' = Moved(c, "attach")
       \/ /\ clients' = [clients EXCEPT ![c] = [state |-> "closed", spec |-> LaunchLine(c)]]
          /\ conns' = Moved(c, "fail")
    /\ UNCHANGED <<rest, entries, inFlight, tasks, surface>>

\* The client is attached to the entry that is there now, whatever it is.
Attach(c) ==
    LET s == conns[c].server IN
    /\ At(c, "attach")
    /\ entries' = IF ~Registered(s) THEN entries
                  ELSE [entries EXCEPT ![s] = [@ EXCEPT !.client = c, !.connected = TRUE,
                                                        !.failed = FALSE]]
    /\ conns' = Moved(c, "notify")
    /\ UNCHANGED <<rest, inFlight, tasks, clients, surface>>

RecordConnectionError(c) ==
    LET s == conns[c].server IN
    /\ At(c, "fail")
    /\ entries' = IF ~Registered(s) THEN entries
                  ELSE [entries EXCEPT ![s] = [@ EXCEPT !.connected = FALSE, !.failed = TRUE]]
    /\ conns' = Moved(c, "notify")
    /\ UNCHANGED <<rest, inFlight, tasks, clients, surface>>

Notify(c) ==
    /\ At(c, "notify")
    /\ surface' = Connected
    /\ conns' = Moved(c, "done")
    /\ UNCHANGED <<rest, entries, inFlight, tasks, clients>>

-----------------------------------------------------------------------------
\* A server's process dies on its own; nothing watches for it.
ServerDies(c) ==
    /\ clients[c].state = "open" /\ ~InFlight(c)
    /\ clients' = [clients EXCEPT ![c].state = "dead"]
    /\ UNCHANGED <<rest, entries, inFlight, tasks, conns, surface>>

\* CallTool finds the connection broken and reconnects before its one retry.
CallTool(s) ==
    /\ agent = "up" /\ s \in Connected /\ clients[entries[s].client].state = "dead"
    /\ Launch({s})
    /\ UNCHANGED <<rest, entries, inFlight, tasks, clients, surface>>

\* restartGoSubprocess: the agent starts with an empty registry.  bootstrap()
\* is called again, and returns at once.
Restart ==
    /\ booted /\ restarts < MaxRestarts
    /\ restarts' = restarts + 1
    /\ agent' = "up"
    /\ op' = Idle
    /\ entries' = [s \in Servers |-> Missing]
    /\ inFlight' = [s \in Servers |-> None]
    /\ tasks' = [c \in Conns |-> NoTask]
    /\ conns' = [c \in Conns |-> IF InFlight(c) THEN [pc |-> "done"] ELSE conns[c]]
    /\ clients' = [c \in Conns |-> [state |-> "none"]]
    /\ surface' = {}
    /\ UNCHANGED <<book, booted, specs>>

-----------------------------------------------------------------------------
DesktopStep(s) ==
    \/ \E enabled \in BOOLEAN : Register(s, enabled)
    \/ \E flag \in {"on", "off", "absent"} : Update(s, flag)
    \/ \E flag \in {"on", "off"} : SetEnabled(s, flag)
    \/ RetryResolution(s)
    \/ Unregister(s)

ConnectStep(c) ==
    \/ ReadSpec(c) \/ Lookup(c) \/ ResolveLoad(c) \/ ResolveStore(c) \/ ResolveReload(c)
    \/ Record(c) \/ Handshake(c) \/ Attach(c) \/ RecordConnectionError(c) \/ Notify(c)

ResolverStep(t) == TaskEnds(t) \/ TaskLeaves(t)

Next ==
    \/ Bootstrap \/ CloseOld \/ Announce \/ Restart
    \/ \E s \in Servers : DesktopStep(s) \/ CallTool(s)
    \/ \E c \in Conns : ConnectStep(c) \/ ResolverStep(c) \/ ServerDies(c)

Spec == Init /\ [][Next]_vars

-----------------------------------------------------------------------------
Pcs == {"free", "start", "connecting", "load", "store", "reload", "await", "resolved",
        "dial", "attach", "fail", "notify", "done"}

\* Every variable keeps its kind, and an entry names a client that was built.
TypeOK ==
    /\ book \in [Servers -> {"none", "on", "off"}]
    /\ booted \in BOOLEAN
    /\ specs \in 1..MaxSpecs /\ restarts \in 0..MaxRestarts
    /\ op.kind \in {"idle", "close", "announce"}
    /\ agent \in {"up", "wedged", "crashed"}
    /\ inFlight \in [Servers -> Conns \cup {None}]
    /\ surface \subseteq Servers
    /\ \A c \in Conns :
        /\ conns[c].pc \in Pcs
        /\ clients[c].state \in {"none", "open", "closed", "dead"}
        /\ tasks[c].state \in {"none", "running", "done"}
    /\ \A s \in Servers : Registered(s) =>
        /\ entries[s].spec \in 1..specs /\ entries[s].ready \in 0..specs
        /\ entries[s].client # None => clients[entries[s].client].state # "none"

\* A tool call is never sent over a client the registry has closed itself,
\* although Update closes the old client only after it has let go of the lock
\* and leaves it in the entry, and a connect attaches to whatever entry it finds
\* (registry.go Update, liveClient; registry_resolve.go connectServer).
ConnectedIsOpen ==
    \A s \in Connected : clients[entries[s].client].state \in {"open", "dead"}

\* An enabled server is connected, shows an error, or someone is still working
\* on it: no interleaving of connects, edits and toggles leaves it silently
\* unconnected (registry.go "the entry itself stays so the user can retry").
EnabledIsServed ==
    agent = "up" =>
        \A s \in Servers : Registered(s) /\ entries[s].enabled =>
            \/ entries[s].connected \/ entries[s].failed
            \/ op.kind = "close" /\ op.server = s
            \/ \E c \in Conns : InFlight(c) /\ conns[c].server = s

\* Once no connect and no request is under way, the agents are offered the
\* tools of exactly the connected servers: every change of a status is followed
\* by a refresh, and a refresh that reads an old status is followed by another
\* (handler_mcp.go OnMcpConnectionChanged, tools/mcp.go "re-run when a server
\* connects or disconnects so the tool surface matches live state").
SurfaceFollows ==
    agent = "up" /\ op = Idle /\ (\A c \in Conns : ~InFlight(c)) => surface = Connected

\* Two resolver goroutines never install for the same server at once, although
\* connects for one server overlap (launcher.go "second callers do not trigger
\* a second install").
OneInstall ==
    \A t, u \in Conns :
        tasks[t].state = "running" /\ tasks[u].state = "running"
            /\ conns[t].server = conns[u].server => t = u

\* A connect that waits for a resolver task is on the list of a task that is
\* still to end, the connects that subscribe while it is ending included: with
\* the 60 s bound on a task no subscriber waits for ever (launcher.go
\* attachSubscriber "so a late subscriber never hangs").
NoSubscriberHangs ==
    \A c \in Conns : conns[c].pc = "await" =>
        LET t == conns[c].awaits IN tasks[t].state = "running" /\ c \in tasks[t].subscribers

\* Servers that are on are served, over one open client and after one install
\* each, the agents are offered their tools, and nobody waits in vain.
ServersAreServed ==
    /\ TypeOK
    /\ ConnectedIsOpen /\ EnabledIsServed /\ SurfaceFollows
    /\ OneInstall /\ NoSubscriberHangs

=============================================================================
