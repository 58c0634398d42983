# Formal models of darvin-cowork

darvin-cowork is a desktop AI assistant in three processes: a Vue renderer
(`src/src/renderer`), the Electron main process (`src/src/main`) and a Go agent
(`src/src/darvin-agent`). The main process starts the agent and talks JSON-RPC 2.0 to it over a
WebSocket; the agent keeps conversations in SQLite, calls language models, and runs tools. Nearly
all of the program's own concurrency is in the agent, and that is what these TLA+ modules are
about.

The modules are written from the source. `PROJECT.json` maps each definition to the lines it stands
for, lists the runs and their mutants, the hazards of the code, the disagreements found between the
code and what it says of itself, and the theorems.

    tlc -workers 2 -config MCRunLoop.cfg MCRunLoop       one run
    tlapm RunLoopProofs.tla                              one module of proofs

Paths below are relative to `src/src/darvin-agent/internal` unless they begin with `src/`.

## 1. The system

| Component | State | Operations | What makes it correct | Module |
|---|---|---|---|---|
| **Session loop** `sessionruntime/loop.go` | two queues (steers, follow-ups), the active run, the ids of the turn, `closed`; a capacity-1 `wake` channel; a context | `Submit`, `SubmitSkill`, `Steer`, `Stop`, `Abort`, `Close`, one run goroutine | no accepted turn is lost or run twice; one at a time, steers first; a cancellation strikes the turn it was meant for; after `Close` nothing runs | `RunLoop` implements `TurnService` |
| **Turn attempt** `runtime/harness.go`, `agents/dispatcher.go`, `queue.go`, `controller.go`, `agent*.go` | the agent's prompt channel, running flag, message list | admit, dequeue, converse, persist | a turn answers its own prompt; a cancelled turn ends | `RunLoop`, `Conversation` |
| **Scheduled tasks** `scheduledtask/` | tables `schedules`, `schedule_runs`, the last row of a schedule, the tick goroutine | tick, trigger, reconcile, create, toggle, delete, run now, abort, stop | one turn per fire time; rows tell the truth and are closed; disabling is justified; fire times are those the body names | `ScheduleEngine`, `NextFire` |
| **Session manager** `gateway/sessionmgr.go` | map and least-recently-used list of entries, cap, stop windows | create, submit, steer, stop, remove, reap, evict | one open runtime per session; a busy session is never evicted; what is let go of closes | `Sessions` |
| **Sub-agents** `subagent/manager.go`, `tools/subagent.go` | runs with status, cancel function, `aborted`, waiters; table `subagent_runs` | `Spawn`, `Wait`, `Abort`, `Close`, one goroutine per run; the tools' waiting | `Spawn` and `Close` return; after `Close` nothing runs; rows and replies tell the end | `SubagentManager`, `SubagentTools` |
| **Permission gate, tool calls** `agents/perm`, `agents/executor` | pending requests, remembered rules, approved paths, parallel tool goroutines | ask, answer, time out, cancel, remember | an answer reaches the request it names; no tool runs without a licence | `PermissionGate` |
| **Sandbox, file tools** `tools/` | one sandbox for all sessions; files and a symbol index without a common lock | resolve, search, edit, move, index | what is opened is licensed; the index is stale only for a reason; a failed call changed nothing, unless the disk failed its write | `Sandbox`, `FileTools` |
| **Workspaces, agents, sessions** `agents/store`, `gateway/handler_*.go` | six tables, the active ids | create, delete, activate, bind, write; each a row of statements; IM messages beside them | defaults agree; active ids exist unless asked for without a row; the deleted leave no rows of the four tables | `Catalog` |
| **Context engine, persistence** `agents/ctxengine`, `sessionruntime/hydrate.go` | messages in memory, rows, digests | compact (automatic, manual), persist, hydrate | a call keeps its result; nothing is forgotten; every run has its rows | `Compaction`, `Conversation` |
| **IM channels** `im/` | connectors by id, a copy of each row, sockets and tokens | reload, create, update, enable, delete, poll, reply | connectors follow rows; a Send reports its own acknowledgement; tokens outlive requests | `ImChannels`, `WecomSocket`, `QqGateway` |
| **MCP** `mcp/`, `src/src/main/libs/mcpManager.ts` | a client and a transport per server, pending ids, registry, resolver tasks | connect, call, install, update, restart | a call returns its own answer, or a request the server made under the same id; nobody waits in vain; enabled servers are served | `McpClient`, `McpSse`, `McpRegistry`, `McpLauncher` |
| **Tool surface, skills** `tools/registry.go`, `skills/` | one shared registry, scoped copies of skill turns | refresh, invoke a skill, switch on and off | after a refresh the registry offers what there is | `ToolSurface` |
| **Harness registry** `harness/` | harnesses by id, plugins loaded, bindings, attempts | load, unload, select, attempt, reset | nothing is left of an unloaded plugin; a ranked harness can run | `Harness` |
| **Event bus, ledger** `agents/event`, `gateway/eventledger.go` | bounded channels, connections by session | subscribe, emit, forward, write | only an overflow loses events; a subscribed connection has no gap; emitters never wait | `EventBus`, `EventLedger` |
| **LLM clients** `llm/` | a stream reader per call | post, retry, parse, drain | shown text and run calls are those sent; a cut answer is not a whole one | `TokenStream`, `ThinkingSplitter` |

Not modelled: the gateway's JSON-RPC plumbing, database, memory, configuration and logging (each a
wrapper around one statement or file), the Electron main process except for the book of MCP servers
and the fact that the agent process may exit and is started again, and the renderer.

### How they interact

A prompt arrives as a JSON-RPC request, an IM message or a scheduled task. The session manager finds
or creates the session's runtime and calls `Loop.Submit` (or `Steer`), which parks the request under
`Loop.mu` and signals `wake`. The loop's one goroutine pops it, registers it as the active run, and
drives one attempt through the harness into the agent: `Agent.Prompt` puts the message in the
agent's channel, `Agent.Run` takes it out and converses over a stream reader, publishing events on
the bus, which the ledger forwards to connections and the loop drains for the reply sink (the IM
connectors). Tools run in parallel inside the conversation, come from the shared tool registry that
skills and MCP servers fill, may ask the permission gate, and may spawn sub-agents, whose manager
runs them on the same kind of agent. The schedule engine calls the session manager from its own
goroutine and later asks it which run is in flight. Cancellation goes through contexts: `Stop`,
`Abort` and `Steer` cancel the run's context, `Close` the loop's.

### What is hard

* Locks are released between capturing something and acting on it: a turn and its cancellation, a
  parked request and its signal, a pending request and its answer, a connect and its attachment, an
  evicted runtime and its `Close`.
* Channels of bounded size drop or collapse what is sent: `wake`, the bus, the inbound frames.
* Several writes to the store make one operation (a trigger, a delete, a default mark), and a
  failure, a stop or a crash may come between any two.
* Answers come late, after a timeout, a reconnection, a cancellation or for the call before.
* Copies of state go stale: `turnsBefore`, the manager's copy of a channel's row, the sandbox's
  approved paths, the tools a session was given, the symbol index.
* Nothing bounds the time a language model takes: the HTTP client has no timeout.

`PROJECT.json` lists these at their lines under "hazards", with the properties that would show each
going wrong, or the reason there is none.

## 2. How the project is laid out

A module per component; an `MC` module and a `.cfg` per run; proofs in `...Proofs`. A component's
module has its state, `Init`, one action per operation or locked section, `Next`, `Spec`, and its
properties with the code behaviour they are about. Definitions marked "Fault" are plausible bugs of
the mapped code, and take the place of the definition after them when a property is tested: TLC
must then find the property violated.

An `MC` module often holds small instances of several components that ask the same kind of question.
Such a module extends the first of them, instantiates the others, and has a variable `part`: a
behaviour is a behaviour of the component that `part` names while the variables of the others stand
still. Nothing is composed by this, and nothing hidden: each component runs by itself, with its own
`Init`, `Next` and fairness. Where modules are truly composed the module says so: `SubagentTools`
over `SubagentManager`, `Conversation` over `Compaction`, `TokenStream` over `ThinkingSplitter`.

A property of a run may be a conjunction of the properties of its components; the parts are defined,
and commented, in the component's module.

Abstract specification: `TurnService`, which `RunLoop` implements (`ImplementsService`).

## 3. The modules

### Turns: TurnService, RunLoop

`TurnService` is the promise, without mutex, channel, goroutine or agent: a line of accepted turns,
urgent before ordinary and each kind in order of arrival; at most one turn in service, always taken
from the head; a controller may empty the line; a shut session accepts nothing and keeps nobody
waiting.

`RunLoop` has one variable per field of `Loop`, plus the wake token, the contexts, the run
goroutine's place and what it has popped, the agent's channel, running flag and message in hand, a
place for each caller and controller, and history (`fate`, `intended`).

| Action | Code |
|---|---|
| `AdmitFollowUp`, `AdmitSteer`, `AdmitClosed` | the locked section of `admit` |
| `Signal`, `SteerCancel` | the non-blocking send on `wake`; `active.cancelRun()` after the unlock |
| `Stop`, `Abort`, `ControlCancel` | the locked sections, then the cancellation |
| `Close`, `CloseStop`, `CloseReturn` | the locked section, `l.cancel()`, `<-l.done` |
| `Pop`, `Woken`, `Exit` | `next` and `popLocked` |
| `Register`, `Prompt`, `Refused` | `executeTurn` up to the attempt; admission by the harness and the agent |
| `Dequeue`, `ConversationEnds`, `ConversationAborts` | `Agent.Run`: the channel is looked at before the context |
| `Leave` | the rest of `executeTurn` and its deferred function |

The conversation is one step: its rounds, rows and compactions are `Conversation`'s. What the model
shows besides: a request that is popped but not yet registered is seen by nobody, so `Stop` and
`Abort` pass it by and it runs.

### Schedules and sessions: ScheduleEngine, NextFire, Sessions

`ScheduleEngine`: columns of the two tables are functions of schedules and rows. `at[p]` and
`row[p]`, for p in `{tick, hand}`, are the places of the tick goroutine and of a gateway handler
(`run_now` or `abort`) and the rows they have in hand; `Submit`, `SubmitFails`, `Link` and
`Remember` are steps of either. Time is the flag `due`. A statement is atomic, and fails if it uses
the context of a stopped engine; `Submit` does not look at that context. `Restart` is the exit of
the process and the start of a new one. Gorm stores a schedule created with `enabled=false` as
enabled, because the column has a default; `Create` says so. `agent.schedule.update` is not there.

`NextFire` is what the flag stands for: the cron parser and its search, `every`, `at`, in a zone
with an offset from UTC. The meaning of a line (`Says`) is defined apart from the parser.

`Sessions`: every operation of the index runs under its mutex and is one action; a request takes an
entry under the mutex and uses its runtime after it (`Admit`). A runtime goes from open to
cancelled, closing and closed; its loop is reduced to what the index sees. The loop has a lock of its
own, so a turn may be registered between the look at an entry and the abort of its runtime (`late` in
`LetGo`): it is cancelled like any run of a runtime that was let go of. That is the one case in which
room for one session ends the turn of another, and `OthersRunsAreSpared` is about registered runs.

### Sub-agents: SubagentManager, SubagentTools

`spawn[r]` is the caller inside `Spawn`, `body[r]` the goroutine `runSpec`; every locked section and
every statement is one action. The runner is the production one: it returns when its provider does,
or when its context is done, and since `Agent.Run` answers a cancellation with `ErrAborted`, the
verdict is then `error` (or `timeout`), never `aborted` (`Verdicts`). `Insert` may fail; updates,
with a background context, are taken to succeed. The call of `cancel` after `Abort`'s unlock is
folded into `Abort`: any later moment is another `Abort`. `SubagentTools` adds the tool
`parallel_subagents`, which polls a slice that its goroutines store into without a lock.

### Permissions and files: PermissionGate, Sandbox, FileTools

`PermissionGate`: `call[c]` is the place of a tool goroutine in `executeOneTool` and
`RequestPermission`, `timer[c]` its `time.AfterFunc`, `chan[c]` the channel of capacity 1, and
`answerer[a]` a gateway goroutine between the lookup in `ResolvePermission` and the delivery.

| Action | Code |
|---|---|
| `BeginRun`, `EndRun`, `Interrupt` | the dispatcher around `RunConversation`, which empties the approved paths on both sides; the cancellation of the run's context |
| `Evaluate`, `CheckRule` | `EvaluatePermission`, whose result is kept in `eval[c]`: an escaping path returns before the command is classified; `HasRule` with the key of what was found, and the timer armed before the request is registered |
| `Register`, `Receive`, `GiveUp` | the entry in `pending`; the two branches of the `select` |
| `Approve`, `Finish`, `Again` | `ApprovePath`, `Execute`, and the same call made again |
| `Elapse`, `TimeOutSend` | `deliver` in the timer's goroutine: the deletion, then the send |
| `Accept`, `Deliver` | `ResolvePermission`: the lookup that deletes, then `Stop`, `deliver` |

Answers are those the renderer's dialog can give: it offers to remember an allow only.
`Sandbox` has the paths of several sessions over the one sandbox they share; a path is resolved
twice, when the call is evaluated and when it is executed. `FileTools` has the calls that edit,
write, move and index files, each a sequence of reads and writes between which others come; a
content is the set of the texts it holds. `os.WriteFile` may fail to open its file, which then stays
as it is (`Truncate`), or fail once it has truncated it (`WriteFails`): a part of the content is
left, the call reports an error, and the index is not told.

### The store: Catalog, Compaction, Conversation

`Catalog`: a request is a row of statements (`todo`), any of which may fail, beside turns that write
rows and beside the messages of IM peers, which make a workspace per instance (bare of agents, and with
no default until one is chosen or the next start seeds it) and a session per peer. Handlers check what
the code checks and no more: a session may be activated, written to (`Put`: files, messages) or bound
without a row of its own; `strays` and `deleted` record who asked for that. The rows of sub-agents are not
among the tables, since no delete wipes them.
`Compaction` is the pure part of the context engine: groups, alignment, partition, halving.
`Conversation` has the rounds of runs over it: hooks, digests, answers, tool calls, the manual
compaction as a second goroutine, and a restart that reads the tables back.

### IM: ImChannels, WecomSocket, QqGateway

`ImChannels`: one operation of the manager at a time, in steps, beside the connectors' poll
goroutines and the sessions' replies. `WecomSocket`: the loop that dials, subscribes and reads,
senders that register a request id, write and wait, and a gateway that answers late, refuses, drops
or falls silent. `QqGateway`: the token that is checked under a lock and used outside it, and the
gateway socket's loop.

### MCP, tools and harnesses: McpClient, McpSse, McpRegistry, McpLauncher, ToolSurface, Harness

`McpClient` and `McpSse` are one client over a child's pipes and over an event stream: callers that
hold the client's mutex from `Send` to `Recv`, the reader that routes frames by id, the inbound loop,
and a child or server that is external and numbers its own requests as it likes: one that meets a
pending id is delivered as its answer. `McpRegistry`: connects are goroutines that overlap with
operations on the same server, and share one install; `McpLauncher` is how the launch line comes
about. `ToolSurface`: one refresh walks over the sessions step by step while skills, servers,
workspaces and skill turns change. `Harness`: `Load` and `Unload` in steps, selection, attempts and
resets.

### Events: EventBus, EventLedger, TokenStream, ThinkingSplitter

`EventBus`: two emitters side by side over bounded channels, each Emit a try, a drop of the oldest
and a retry for each subscription. `EventLedger`: a goroutine per session that copies the list of
connections and writes to each under its mutex, connections that subscribe, wedge and go.
`TokenStream`: three wire formats, retries, the splitter of think blocks, a bounded channel, and the
drain in the executor.

## 4. What is checked

| Run | Instance | Distinct states | Properties |
|---|---|---|---|
| `loop` | a prompt, a prompt for an unconfigured provider, a steer; two controllers | 279 thousand | `ParkedOnce`, `TurnKeepsItsName`, `CancelsOnlyCaptured`, `CloseIsFinal`, `ImplementsService`, `TurnsAreServed`. A prompt, a prompt for an unconfigured provider and a steer against two controllers: nothing is lost, misnamed or cancelled by mistake, the loop implements TurnService, and captured, waiting and closing all come to an end |
| `schedule` | a recurring schedule, two rows, one exit; three sessions, a cap of two | 175 thousand | `SessionsAreOwned`, `SchedulesGoOn`, `OthersRunsAreSpared`, `LetGoCloses`. A recurring schedule across an exit of the process, and three sessions that share two places: linked rows close, due schedules move, the manager's map, list and runtimes agree, nobody's run is ended to make room, and what is let go of closes |
| `fire_times` | a recurring schedule, three rows, one exit; the bodies of a small calendar | 2.2 million | `OncePerFireTime`, `RowsTellWhatRan`, `FireTimesAreRight`, `DisabledForAReason`. A recurring schedule with three run rows and one exit, and every kind of schedule body on a small calendar: one turn per fire time, truthful rows, disabling only after enough failures, and fire times that the body names |
| `subagents` | a synchronous and a background run, two closers | 186 thousand | `RowsFollowRuns`, `CloseIsComplete`, `SpawnsReturn`, `CancelledRunsEnd`. A synchronous and a background sub-agent against aborts, timeouts and two closers |
| `permission_gate` | a harmless and a dangerous command in one outside directory, two answerers | 1.6 million | `ToolsRunLicensed`, `AllowsAreHonoured`, `WaitsEnd`. A harmless and a dangerous command in one directory outside the workspace, made again and again over many runs, against two answerers, timeouts and interrupts: nothing runs without a licence, no allow is lost but to its race, nothing waits for ever |
| `store` | a workspace and a session of the user's, one of each of an IM instance; a conversation of two runs; a channel with one peer | 6.0 million | `CatalogAgrees`, `HistoryIsKept`, `TrackedAreLive`, `AcceptedUnderStoredMode`. Two workspaces and two sessions, one of each made by messages of an IM peer, a conversation with automatic and manual compactions, and an IM channel, each with a failing statement, a restart or a crash |
| `surface` | a server with two connects; its launcher; two sessions' tools; two harness plugins | 4.7 million | `ServersAreServed`, `ToolsAreOffered`, `HarnessIsSelected`. A server with two connects in flight, its launcher, two sessions' tool registries, and two harness plugins being loaded and unloaded under two attempts |
| `tools` | two calls on two files; two sessions over two roots; two parallel tasks | 3.8 million | `FilesAreSafe`, `RepliesAreTrue`. Two file tools on two files, the path licences of two sessions over two roots, and two tasks of one parallel_subagents call |
| `mcp_calls` | two callers over pipes, two over an event stream | 638 thousand | `OwnAnswer`, `WaitersAreWoken`, `SseOwnAnswer`, `CallsEnd`. Two callers over a child's pipes and over an event stream, against late answers, requests of the server under ids of the client, timeouts, the child's death, broken streams and Close |
| `mcp_close` | the same | — | `CloseWakes`: *violated*. A reply of the inbound loop takes the lock of stdin twice, and the call that waits behind it is never woken, though Close has returned |
| `connectors` | two senders over a socket, or over HTTP | 438 thousand | `ReportsItsOwnAck`, `TokensOutliveRequests`, `ConnectorsGoOn`. Two sessions that send through a WebSocket that is dropped and dialled again, or through an HTTP API with a token that ages |
| `events` | a session's bus; a ledger with two connections; a model's answer over each wire | 284 thousand | `NothingIsLostUnseen`, `AnswersAreWhole`, `EventsFlow`. A model's answer over each of the three wires, the events of a session on a small bus, and the ledger's two connections |

Each property of a passing run has a mutant under which TLC finds it violated.

### Bounds, and why they are enough

* **Loop.** Three requests put one in service, one popped behind it and one in a queue, and take all
  paths of `executeTurn`; two controllers show a second closer and an abort that races a close.
  Controllers call any number of times. `RunLoopProofs` removes the bounds.
* **Schedules.** Three rows (two for liveness) are a fire, a manual run and a retry; `MaxAttempts` is
  2 instead of the 6 of the code (`engine.go`), since only whether it is reached matters; one exit, since a restart resets all
  memory. `SchedulingProofs` removes them. The calendar of `fire_times` is small (hours of two
  minutes, days of three hours, weeks of three days, months of four, years of two) so that a horizon
  of 30 minutes crosses each of its units; months of one length and no daylight saving are the
  abstraction. A cap of two sessions for three makes eviction happen; two runtimes for one id are
  what a removal needs. `SchedulingProofs` removes these.
* **Sub-agents, permissions.** Runs share `closed`, `runs` and the closers, calls the rules and the
  approved paths: two of each, two closers, two answerers. A call is made any number of times.
  The proof modules remove the bounds.
* **Store.** Two workspaces and two sessions, one of each an IM instance's, one table, one failed statement
  or restart, four requests beside one turn, compaction or message; two runs of two
  rounds with a tail of two messages (the code's default), so that a second compaction meets a digest of the first; one
  manual compaction, one restart; a channel with one peer, two connectors, two operations, a crash.
* **Surface.** Two connects and two specifications of one server (the second is the edit that
  overtakes), one restart; two sessions, one skill that a project hides; two plugins of one harness
  each, the first in two versions, two workers.
* **Tools.** Two calls on two files with two texts, all interleavings; two sessions over two roots,
  with a path inside each, one outside and one excluded; two tasks.
* **MCP calls.** Two callers and two requests (three over the stream), one push, an inbound channel
  of capacity one: a late answer meets the next request, the server's request meets a pending id, and an overflow
  happens. `McpClientProofs`
  removes the bounds over pipes.
* **Connectors.** Two senders, two sockets, two sends: an acknowledgement of the first connection
  meets the second. One unasked frame. `WecomSocketProofs` removes the bounds.
* **Events.** Channels of two, two or three events: each overflow happens, and an emitter finds the
  place taken that it has made; four text tokens cover each cut of a tag with text on both sides.

### Fairness

* Every goroutine that can move does (`WF`): the Go scheduler's promise. `SF` stands where a mutex is
  contended (`Acquire` of the MCP clients, the ledger's writers): Go's mutex hands over in order.
* Nobody has to submit, call a controller, answer, abort or close; no subscriber has to receive.
* A conversation that is not cancelled need not end: `llm/httpclient.go` sets no timeout. Properties
  that need an answer say so (`WaitingTurnsAreServed`, `LinkedRunsClose`). An MCP server that is asked
  and alive answers; the other case is the caller's own context, which may end at any time.
* A runner whose context is done returns: the contract stated at type `Runner`.
* Timers elapse only where the property is about them (`SpawnsReturn`, `RequestsEnd`). Dials and
  waits of the connectors have deadlines in the code. A stopped engine's process is started again.
* Deadlock is checked for the gate and the fire times, where something can always happen; elsewhere
  everything may be closed or a bound be reached, and the liveness properties stand in for it.

## 5. What is proved

Twenty-seven properties of the passing runs and the refinement `ImplementsService`, for any sets of requests, controllers,
schedules, sub-agent runs, closers, tool calls, answerers, callers, senders, files, edits, sessions, clients, servers,
connects, channels, connectors, workspaces, agents, tables, runs and compactions, and for any value of the bounds. The only assumptions are the named ones of the modules: how the sets of
requests or calls relate (`RunLoopAssumption`, `ScheduleAssumption`, `SubagentAssumption`, `ToolsAssumption`,
`GateAssumption`), that bounds and capacities are numbers (the tail a compaction keeps is not empty:
`CompactionAssumption`, and a run has a provider call: `ConversationAssumption`), that the sessions and the workspaces are
finitely many (`SessionsAssumption`, `CatalogAssumption`), that edits name texts (`EditsNameTexts`), that the
id of a user's agent, a nanoid, is none of a preset's, which hold a "/" (`CatalogAssumption`), and that the value for "nothing" is
none of the values it is told from (`NoneIsNothing` and the like).

Where a property is one of several parts of a run (`part`), the proof module extends the MC module
and proves it of `MCSpec`; it uses nothing of the instance but its named assumptions, so the sets and
bounds the MC module leaves to its cfg are arbitrary. What an MC module fixes itself is fixed in the
theorem too: in `surface` the words of a command line, one skill and one server, and the harnesses of
two plugins.

None of the properties is inductive. Each proof module strengthens them to an `IInv`, shows that
`IInv` holds initially and is kept by every action (one lemma per conjunct or two, one step per
action), and reads the properties off it.

### RunLoopProofs: `TypeCorrect`, `Parking`, `Naming`, `Cancelling`, `Finality`

* `ParkedOnce` itself: waiting turns are exactly those in the queues, once;
* `Sorted`: each queue holds only its kind;
* `Placed`: for each place of the run goroutine, what it holds, what is registered, and what the
  agent holds. The agent is idle with an empty channel except between `Prompt` and the end of the
  conversation. This is what `TurnKeepsItsName` needs, and it holds because `Dequeue` looks at the
  channel before the context: a cancelled turn still empties it;
* `Captured`: whoever is about to cancel holds a turn it captured, which is what
  `CancelsOnlyCaptured` needs although the cancellation comes after the unlock;
* `Closing`: whoever is past the locked section of `Close` left `closed` behind, `stopped` implies
  `closed`, and a closer has returned only if the goroutine has exited, which `Placed` ties to
  `stopped`; with `Sorted`, `closed` also means that both queues are empty.

### The refinement in RunLoopProofs: `Refinement`

`Spec => ImplementsService`. The line is `steerQueue \o followUpQueue` and the turn in service is
`held`. `SteersFirst` shows from `Sorted` that the line is urgent exactly up to
`Len(steerQueue)`, so appending to the steer queue inserts at the boundary of the line; four lemmas
about concatenation say what joining either queue and popping the first one do to the line. A
`Stop`, an `Abort` and a `Close` empty it, `Leave` settles, and everything else is a stutter:
registration, cancellation and the wake channel are invisible to those who submit. `Captured` is
needed for "a caller that has not begun is new".

### Scheduled tasks in SchedulingProofs: `TypeCorrect`, `FiredOnce`, `RowsAreTruthful`, `Disabling`

* `Placed`, `RowsMade`: a goroutine past its selection has an existing row in hand, and rows that
  were not made are blank;
* `Submitted`: a row that is linked, listed, remembered or past its submit has a turn, a row about
  to be submitted has none, and tick and handler never have the same row in hand there. With it
  `RowsTellWhatRan` is inductive;
* `Selected`, `Fired`: a schedule the tick has still to trigger is not the one it is triggering, and
  a recurring schedule has been submitted for its `next_fire_at` only while `MarkFired` is next, or
  if it was deleted meanwhile, or if a stop or a crash tore the trigger (`torn`). This is
  `OncePerFireTime`;
* `Counted`: outside `mark` and `reset` the count in the table is at most the failures in a row, and
  at `disable` these have reached `MaxAttempts`. This is `DisabledForAReason`.

### The session manager in SchedulingProofs: `SessionsTypeCorrect`, `Ownership`, `RoomSparesRuns`

An operation of the index may touch, reap, evict, create and roll back before it is over; the lemmas
follow the record it works on. `Good` says of such a record that its list, map and marks agree and
that exactly the runtimes that lost their entry are let go of; `Spares`, that none of these has a
registered run. Each part keeps both (`Dropped`, `Reaped`, `Evicted`, `CreatedGood`, `TouchedGood`),
and `AbortKeeps` and `AttachKeeps` carry them over to the next state.

* `Owned`: an entry's runtime was built for its session. With it `OpenMeansOwned` is inductive: the
  owner of a runtime is the only one who can lose it;
* `OneAtATime`, `Apart`: a loop holds one turn, and no prompt is in two loops. This is what
  `OthersRunsAreSpared` needs: what a step cancels is pending in a runtime that goes, so it is not
  the registered run of another, even if it was registered after the look at its entry;
* four lemmas on lists without repetition say what moving to the front, taking out and cutting off
  the tail leave; the cap follows by counting.

### SubagentManagerProofs: `TypeCorrect`, `TableFollows`, `StartedAnswers`, `Completeness`, `RepliesTold`, `Safeguarding`

* `Stages`: how far `Spawn` and `runSpec` have got together; a run is past `register` when it has a
  goroutine, and a caller past its wait finds it started;
* `Story`: what the manager and the row say of a run at each place of `runSpec`;
* `Draining`: when the manager is closed, every run that has a runner or is about to get one is
  among those the first closer took from `runs`. A run whose `Start` comes later sees `closed` under
  the lock and ends at once; this check, not the one in `Spawn`, makes `CloseIsComplete` hold;
* `Waited`: what a `Spawn` that has returned answers is a final status, unless the run's timeout
  elapsed before its runner stopped. `RepliesTold` takes it over to the tools of `SubagentTools`: every step of
  `ToolSpec` is one of the manager or leaves it alone (`ToolsUseTheManager`), a result that was
  returned does not change any more (`ReturnsAreFinal`), so what the poll assembles stays true.

`Safeguarding` is about the other tools, FileTools and Sandbox:

* `Explained` strengthens `StaleForAReason`: a call about to remove the source of a move across
  devices answers only for the copy (`Covers`), because when the removal fails it will never drop the
  source from the index;
* `Fresh`: what was read to be indexed is what the file holds, unless the read was overtaken;
* a write that the disk fails (`Torns`) excuses the name the file was opened by and the one it has;
* `Open`: a file somebody writes to exists under the name the writer has by now, so what a late write
  leaves is a content; `Harmless`: a move that can still fail has left its source;
* `Aside` says what becomes of a call while others move; with it `FilesKept` reduces each action to
  what it does to the call that moves and to the files it changes;
* `AppliedIs`: what a list of edits makes of a content is a content or a refusal. This is an induction
  over the list; it is carried out on the least place where it fails (`Least`, from the library's
  well-foundedness of the numbers), after `EditsApply` has shown in the same way that the recursion
  has a solution;
* `Backed`: every grant and every approval in the sandbox is one of a run in progress. With it what
  `Execute` resolves outside the root is licensed (`Resolved`), whatever the root was when it was evaluated.

### PermissionGateProofs: `TypeCorrect`, `Licensing`, `OneAnswer`, `Forgetting`, `Honouring`

* `Unasked`, `Entries`, `Claims`: before it is registered a call has no entry and no answer; an entry
  in `pending` means that no answer was accepted, so the lookup that deletes it is the only claim;
* `Armed`: an armed timer goes with an empty channel, and with an entry to be made, an entry, or an
  answer on its way that will stop it. This is `GateForgets`;
* `OnTheWay`, `Delivered`: what an answerer carries, and what lies in the channel, is what the user
  said of this call, unless the timeout was first, in which case its timer is `spent` and not
  `stopped`. This is `AllowsAreHonoured`;
* `Evaluated`: a call is asked about for its path, or for its command with its path already open;
* `Licences`: rules come from remembered answers, approved paths from allows of this run or from
  remembered keys. With `Evaluated` this is `ToolsRunLicensed`; `Idle` is needed because a run's end
  forgets its allows. Any call may be dangerous and leave the workspace at once.

### McpClientProofs: `TypeCorrect`, `Answering`, `Waking`, `SseAnswering`

* `Mutex`: only the owner of the client's mutex is between `Send` and the end of `Recv`, under an id
  it has drawn itself;
* `Labelled`: a request the child has written has an id that is in `theirs`;
* `Addressed`: what lies in a caller's channel is an error or carries the id of the request that caller
  has made, because channels are registered by id and the client never draws an id twice; with
  `Labelled` it is the answer, unless the child has given the same id to a request of its own, which
  the reader cannot tell apart. This is `OwnAnswer`: what an earlier call left unread went to a channel
  nobody reads;
* `Known`: a caller past its registration is in `pending` or has been told; with
  `ReapedWakesAll` (after the child is reaped nobody is left in `pending`) this is `WaitersAreWoken`.
  It says nothing of a caller still at the stdin lock, which is where `CloseWakes` fails.

`SseAnswering` has the same argument for McpSse (`SseMutex`, `SseLabelled`, `SseAddressed`): a stream
that was reopened and the server's own requests add frames, but a frame goes only to the caller
registered under its id, and that caller alone is between `Send` and `Recv`. Here too a request of the
server with the caller's id is taken for the answer, and the theorem excepts those ids alone.

### WecomSocketProofs: `TypeCorrect`, `Reporting`, `Outliving`

* `Sockets`: the loop's socket is the only one that can be open, and none is between connections;
* `Numbered`, `Registered`: the Sends under way have ids of their own, and exactly these are pending;
* `AskedOnce`: a request is asked at most once, and never again once it was carried out or refused;
* `Answers`: the frames on the wire, the answer in the loop's hand and those in the Sends' channels
  all tell what the gateway did (`Tells`). What an answer tells stays true for ever, since no request is
  asked twice and no id used again (`KeepsTelling`, with one lemma per kind of step); this is why late
  answers over a new connection do no harm, and `ReportsItsOwnAck` follows.

`Outliving` is about QqGateway:

* `TokenLasts`: a token that a Send has looked at is fresh, or near its end and aged once since, so
  it lasts for the request;
* `Counted`: the frames read after `Stop` are paid for by heartbeats, but for the one the loop was
  waiting for.

### McpRegistryProofs: `Serving`, `Offering`, `Selecting`

`ServersAreServed` joins the type invariant and five properties of the registry, which need each other:

* `Attached`: a client in an entry was built by a connect to that server that has handed it over, and is
  open, or dead, while the entry is connected. The client that `Update` has yet to close is not the
  one a connect has attached since, because it was given before; this is `ConnectedIsOpen`, and
  what makes closing after the unlock harmless;
* `Booked`: the registry holds no server the desktop's book does not, so `Register` replaces no entry;
* `Dated`: fingerprints are never newer than the newest specification;
* `Resolving`: a running task is the one in the map for its server, those on its list await it, and
  a connect that awaits is on the list of a running task (`OneInstall`, `NoSubscriberHangs`);
* `Served`: an enabled server is connected, shows an error, is about to be launched by `Update`, or
  a connect is at work that has still to attach or to fail: a connect past its attachment does not count,
  which makes `EnabledIsServed` inductive;
* `Followed`: while the surface differs from what is connected, a request is about to announce it or
  a connect is at a place from which it will (`SurfaceFollows`).

Both `Served` and `Followed` speak of an agent that is up: the wedge of `SetEnabled` and the panic in
the resolver's race stop the registry for good, and a restart empties it.

`Offering` is about McpLauncher and ToolSurface:

* `AtInstall`, `Launched`: a resolver at work has the package its line names in hand, and by the time it
  looks at it the package is on the disk, where nothing takes it away; so a line that is ready starts a
  program that is there, with the words the user wrote behind its name;
* `Progress`: since no change has come after the refresh began, what its steps have done to the shared
  registry stands. It follows the refresh through its four steps for a target; an agent that is built
  and a skill turn that starts in between run the same registrations, which leave a registry that
  is right as it is (`EnsureKeeps`).

`Selecting` is about Harness:

* `Owned`: a registered harness has a plugin that is loaded, or a worker between `Register` and the
  record of it, or one between taking it from `loaded` and its `Unregister`. `NothingLeftBehind`, which
  takes any worker of the plugin as an excuse, is not inductive: `LoadStart` and a failing `Register`
  of a second call would be one;
* `Bindings`: what `SelectHarness` decides was asked for, is the fallback, or can host the run
  (`Picked`). For the ranked one it is needed that ranking has a best (`BestIsRanked`: ids break the
  ties);
* `Attempted`: an attempt's generation is one its session has reached, and an earlier one once it was
  overtaken.

### StoreProofs: `Tracking`, `Accepting`, `Agreeing`, `KeepingHistory`

The module is about the three parts of MCStore. Both properties of the channels say what holds between operations; `ChannelInv`
says what holds in the middle of one.

* `Operating`: at each place of an operation, what its row and its connector are: a channel about to be
  built has an enabled row, a connector about to be stopped is one the manager no longer tracks, and
  a row about to be deleted has left memory;
* `Tracked`: what is tracked is the channel's own connector, it was not stopped, and its row is
  enabled, unless a disable has still to let go of it. An enabled row has a connector, failed, or is
  owed something by the operation in progress (`Owing`): a connector to be built, or its own deletion. A
  reload owes every row one until it has come to it;
* `Copied`: the manager's copy has the mode of the row. Only the mode: `Update` publishes the old
  row with the new mode, which is why the property speaks of modes and between operations.

`Agreeing` is about the catalog. Between requests the tables agree; what can be wrong within one is what
the statements still in `todo` will put right, so `CatalogInv` (`CatalogInductive`) is about that queue:

* `Queued`, `Followed`: the queue holds the statements of a delete, or those of anything else, and what
  takes a row away is followed by what its absence calls for: `remove` by the `drop` and every `wipe`,
  `drop` by `reanchor`, `close` by `leave`; and `ensure` by `adopt`. Deleting a workspace joins the deletes of
  its sessions in some order, and a start the statements of every workspace: that what joining a
  sequence of such queues gives is such a queue (`FlattenStays`) is an induction over the length, carried out
  on the least place where it fails, and that the fold has a value at all is shown in the same way
  (`JoinsExist`);
* `Promised`: what is still to be opened or activated exists, is inserted before, or is on record as
  activated without a row (`strays`);
* `MainsAtHome`: the Main Agent's id is used in its own workspace only, so `ensure` for a new
  workspace never meets its row;
* `Marks`: unless a statement about agents was lost, the defaults agree and the queue cannot move them
  (`Settled`), or one workspace is being created or given another default, and its marks and the rest of
  the queue have one of seven shapes (`Changing`). In each of these the next statement is about the agents,
  so a failure or a crash there is on record. "Agree" is `Fits`: the workspace of an IM instance may have no
  default (`Bare`), with at most one mark (`OneMark`), since a message makes its row while agents of an
  earlier row of that name may be there;
* `Anchored`: what is active exists, or its `reanchor` or `leave` is to come. It is here that requests
  coming one after the other counts: nothing activates a session while it is being dropped, or it
  becomes a stray;
* `Buried`: for a deleted session nothing works, and whatever it has left is on the list. A statement
  that fails takes it off the record; a turn acts only for a session that is at work (`TurnsTouch`), and
  `Remove` has cancelled that work, or the session counts as missed. The same goes for a peer's message
  that has still to save its session;
* `MessagesKeep`, `MessageMarks`, `MessageBuries`: what a message of a peer leaves as it was. It adds rows and
  takes none away, touches no agent and no active id, and meets no queue: all it can do is give an IM
  workspace a row without a default, and a session, one that is not buried, a row.

`KeepingHistory` is about the conversation. Two things make it hard: what a compaction does is said by
recursion and minima over a whole conversation, and the compaction in progress was made of a conversation that is
no longer the one in memory. The lemmas about `Compaction` come first, for any conversation:

* `KeptLead`: the digests `partitionFold` keeps are, in order, those the conversation begins with, if it
  begins with all of them; `Aligned`: where the tail begins, and that it begins at a call only when the
  result it would have begun with answers that call; `CompactionMakes`: what follows for the messages of any outcome.
  The recursions are recursive functions, which the provers expand as a `CHOOSE` once a value is known to
  exist (`Iterates`, and `Climb` for the induction over places);
* `PairsStay`, `NothingForgotten`: a compaction of a conversation whose last message is no answered call
  (`EndsFresh`), and which is not cut short or has nothing left to fold, keeps the pairs; and it
  forgets nothing;
* `StaysFresh`, `StaysSteady`, `StaysPast`: its messages are again such a conversation. `Steady` is the
  one that matters: a compaction that ends with a call cut short leaves too little to be compacted again;
* `AnswersAre`, `HydratedIs`: what hook 2 writes and what a restart reads back, by induction over the
  messages and over the rows.

`ConversationInv` (`ConversationInductive`) is then about the run and its goroutine:

* `Typed`: messages, rows, digests and outcomes are what they are for some set of ids. The set grows: the id
  of an automatic digest is made of an id in the conversation, which may be that of a digest;
* `Flow`: the conversation ends with no answered call, has no result of a later provider call than the
  run's, and is steady when the next one is assembled. Behind an abort it is the second that says that the call left at
  its end has no result (`AbortedIsFresh`);
* `Automatic`, `Manual`: a result in progress is a compaction of a conversation of that kind, however much has
  been said since the manual one's snapshot;
* `Saved`: a row is named after its run, and the run in progress has none of its answers' rows yet, so
  that hook 2 writes over nothing;
* `Made`: until the conversation is rewritten, every answer of the run in progress is behind `before`.
  `turnsBefore` is stale as soon as it is rewritten, which is why `RunsPersist` leaves such runs out.

### Only model-checked

Liveness, since fairness and `ENABLED` are beyond the prover: `TurnsAreServed`, `SchedulesGoOn`,
`LetGoCloses`, `SpawnsReturn`, `CancelledRunsEnd`, `WaitsEnd`, `CallsEnd`, `ConnectorsGoOn`,
`EventsFlow`. `FireTimesAreRight` and `AnswersAreWhole` compare recursive operators over data with
reference definitions, and modules with such operators are not open to these provers.
`NothingIsLostUnseen` is not proved either: its module instantiates `TokenStream`, which declares
such operators. All three are checked on the small instances of their runs.

## 6. Disagreements found

Those in `PROJECT.json` "findings" quote the line they disagree with:

* `mcp/transport/stdio_io.go:131`: a reply of the inbound loop takes the stdin lock twice; the client
  is wedged, and `Close` does not wake who waits behind it (run `mcp_close`).
* `sessionruntime/loop.go:395` drops the error of the attempt: a prompt for an unconfigured provider
  settles without any event.
* `scheduledtask/engine.go:318`: a one-shot schedule is due again after it fired.
* `scheduledtask/engine.go:305`: `Abort` cancels nothing and stamps the row.
* `subagent/manager.go:226`: a synchronous `Spawn` may return `running`.
* `agents/executor/executor.go:373`: the tool timeout counts the wait for the user.
* `mcp/transport/stdio_io.go:176`: a request of the server whose id the client waits for is delivered
  as the answer, here and in `sse.go:305`.
* `tools/permission.go:89`: a dangerous command in a directory outside the workspace is asked about,
  and remembered, as a matter of the directory alone, though the comment says that both are combined.
* `im/wecom/wecom.go:325`: a link that drops while it subscribes ends the connector for good.
* `gateway/handler_session.go:504`: any id is made the active one; a comment says that its session is
  guaranteed to exist.
* `agents/store/subagent_store.go:131`: nothing deletes the sub-agents' rows of a deleted session, though
  a comment says so.
* `im/qq/qq.go:198`: no close code ends the loop, though a comment says 4014 does.
* `agents/event/event.go:350`: with two emitters the newest event may be the one dropped.
* `agents/ctxengine/compact.go:631`: behind an aborted call a manual compaction may cut between
  another call and its result (`CutShort` in `CompactionKeepsPairs`).

Met while modelling; the models follow the code:

* `agents/dispatcher.go:322`: the first run saves the session row over the snapshot of agent and
  prompt that `store/models.go:43-47` wants kept.
* `im/manager.go:410`: each message of a peer saves the session's row anew, without agent and prompt.
* `im/manager.go:386-394`: an IM workspace has no agent and no default until the next start, or until one is
  made and chosen.
* `im/manager.go:373-377`: a deleted IM workspace is not made again before a restart; until then its
  sessions are bound to the id of the missing one.
* `gateway/handler_workspace.go:162-262`: files and messages written for a session that was deleted stay.
* `agents/agent_context.go:80-98`: the id of a run's second digest is built from the first kept
  message and may be that of an earlier one, so that hydration reads one of them only.
* `mcp/registry.go:235-237`: `SetEnabled` of an unknown server returns with the lock held.
* `src/src/main/libs/mcpManager.ts:75-77`: a bootstrap that has run once is not run again for a
  restarted agent, whose registry then stays empty until the book changes.
* `mcp/launcher.go:560`: the uvx resolver leaves `Args` empty, so a server is started without its own.
* `im/manager.go:320-325`: enabling a channel that is enabled replaces its tracked connector without
  stopping it, and the old one goes on polling.
* `mcp/transport/sse.go:426`: `Close` does not wake a call whose answer was lost.
* `gateway/eventledger.go:55-57` says that a wedged client's events are dropped; no write deadline is
  set, so the writer, and every connection after it, waits until the peer reads or goes.
* `sessionruntime/loop.go:387-392`: a reply longer than the channel loses its beginning.
* `scheduledtask/cron.go:159-170`: skipping to the next day or hour truncates in UTC, so in a zone of
  half hours, or with a day field in any zone but UTC, a named minute may be passed over
  (`NextIsTheNext`; the run checks the part that holds).
* `gateway/sessionmgr.go:177-179`: a refresh during a skill turn reaches the scoped copy only.
* `tools/subagent.go:197`: the tool's own deadline is shorter than the runs it waits for.
* `llm/openai/stream.go:250`, `llm/gemini/stream.go:154`: error frames inside a stream are passed
  over, and the answer counts as whole; `llm/anthropic/stream.go:196`: a call without its
  `content_block_stop` is lost.
* `im/qq/qq.go`: the loop never renews the token, and a failed start leaves the connector started.
* `tools/fs.go:114-116`: a write that fails after the truncation leaves a part of the content, and
  its error return comes before `invalidateCodeIndex`; so in every tool that writes.
* `tools/sandbox.go:181-188`: grants and approved paths are the process's, not the session's, so a
  path allowed in one session's run is open to another's.
