------------------------------- MODULE Catalog -------------------------------
(***************************************************************************)
(* The catalog the renderer edits: workspaces, their agents, sessions and  *)
(* the rows hanging off a session, and the two active ids of app_state     *)
(* (gateway/handler_session.go, handler_workspace_crud.go,                 *)
(* handler_agent.go over agents/store), against the turns that write the   *)
(* same tables when they end (agents/dispatcher.go) and the messages of IM *)
(* peers, which make workspaces and sessions of their own (im/manager.go). *)
(*                                                                         *)
(* No transaction spans two statements, so a request is the sequence todo  *)
(* of statements it has still to make, one step each; requests come from   *)
(* one connection, whose read loop serves them one after the other. A      *)
(* statement may fail and the process may crash between any two.           *)
(* Titles, texts and the order by updated_at are left out: where the code  *)
(* takes the head of a list, any element of it is taken.                   *)
(***************************************************************************)
EXTENDS Naturals, Sequences, SequencesExt

CONSTANTS
  Workspaces, Sessions,  \* ids, each minted at most once
  ImWorkspaces,          \* the workspaces of IM instances, named "imws-..."
  ImSessions,            \* the sessions of IM peers, named "im-..."
  UserAgents,            \* ids of agents made by agent.create_agent
  Tables,                \* the tables keyed by a session, among messages,
                         \* imported_files, session_usage and session_digests
  MaxRequests,           \* requests served
  MaxTurns,              \* prompts, compactions and messages of peers, together
  MaxFaults,             \* statements that fail and restarts, together
  None                   \* the empty string

MainOf(w) == <<w, "preset-main">>
ExpertOf(w) == <<w, "preset-expert">>
Presets == {MainOf(w) : w \in Workspaces} \cup {ExpertOf(w) : w \in Workspaces}

ASSUME CatalogAssumption ==
  /\ Tables \subseteq {"messages", "files", "usage", "digests"}
  /\ IsFiniteSet(Workspaces) /\ IsFiniteSet(Sessions)
  /\ ImWorkspaces \subseteq Workspaces /\ ImSessions \subseteq Sessions
  /\ None \notin Workspaces \cup Sessions \cup UserAgents \cup Presets
  /\ UserAgents \cap Presets = {}  \* nanoids of letters and digits; a preset's has a "/"
  /\ MaxRequests \in Nat /\ MaxTurns \in Nat /\ MaxFaults \in Nat

VARIABLES
  \* tables
  workspaces,   \* id -> default_agent_id
  agents,       \* id -> workspace_id, is_default
  sessions,     \* id -> workspace_id, agent_id and whose prompt was snapshotted
  rows,         \* <<session, table>> with rows of the session
  active,       \* app_state: active_workspace_id, active_session_id
  \* memory
  live,         \* session ids with a runtime
  held,         \* whose prompt the runtime's own Session carries
  turn,         \* where each session's turn is
  found,        \* the workspace Save's SELECT read
  compacting,   \* sessions with a manual compaction in flight
  arriving,     \* the message of a peer: where it is, what Save's SELECT read, and
                \* the workspace its session is to be bound to
  known,        \* imWorkspaces: the workspaces the IM manager need not look up
  \* the request being served
  todo,
  \* history, read by the properties only
  spent,        \* how many requests, turns and faults there were
  failed,       \* what a failed or lost statement was about
  deleted,      \* sessions deleted, and neither prompted nor written to since
  missed,       \* deleted ones with work Remove could not cancel
  strays        \* sessions last made active while they had no row

tables == <<workspaces, agents, sessions, rows, active>>
memory == <<live, held, turn, found, compacting, arriving, known>>
history == <<spent, failed, deleted, missed, strays>>
vars == <<tables, memory, todo, history>>

AgentIds == Presets \cup UserAgents
Keyed == Sessions \X Tables
Phases == {"none", "popped", "question", "answer", "select", "upsert", "usage"}
NoMessage == [at |-> "none", found |-> None, to |-> None]

With(f, k, v) == [x \in DOMAIN f \cup {k} |-> IF x = k THEN v ELSE f[x]]
Without(f, k) == [x \in DOMAIN f \ {k} |-> f[x]]

TypeOK ==
  /\ DOMAIN workspaces \subseteq Workspaces
  /\ \A w \in DOMAIN workspaces : workspaces[w] \in AgentIds \cup {None}
  /\ DOMAIN agents \subseteq AgentIds
  /\ \A a \in DOMAIN agents : agents[a] \in [workspace : Workspaces, default : BOOLEAN]
  /\ DOMAIN sessions \subseteq Sessions
  /\ \A s \in DOMAIN sessions :
       sessions[s] \in [workspace : Workspaces \cup {None},
                        agent : AgentIds \cup {None}, prompt : AgentIds \cup {None}]
  /\ rows \subseteq Keyed
  /\ active \in [workspace : Workspaces \cup {None}, session : Sessions \cup {None}]
  /\ live \subseteq Sessions /\ held \in [Sessions -> AgentIds \cup {None}]
  /\ turn \in [Sessions -> Phases] /\ found \in [Sessions -> Workspaces \cup {None}]
  /\ compacting \subseteq Sessions
  /\ arriving \in [Sessions -> [at : {"none", "select", "upsert", "bind"},
                               found : Workspaces \cup {None}, to : ImWorkspaces \cup {None}]]
  /\ known \subseteq ImWorkspaces
  /\ spent \in [request : 0..MaxRequests, turn : 0..MaxTurns, fault : 0..MaxFaults]
  /\ failed \subseteq {"agents", "active", "sessions"}
  /\ deleted \subseteq Sessions /\ missed \subseteq deleted /\ strays \subseteq Sessions

Nothing == [x \in {} |-> None]

Init ==
  /\ workspaces = Nothing /\ agents = Nothing /\ sessions = Nothing /\ rows = {}
  /\ active = [workspace |-> None, session |-> None]
  /\ live = {} /\ held = [s \in Sessions |-> None]
  /\ turn = [s \in Sessions |-> "none"] /\ found = [s \in Sessions |-> None]
  /\ compacting = {}
  /\ arriving = [s \in Sessions |-> NoMessage] /\ known = {}
  /\ todo = <<>>
  /\ spent = [request |-> 0, turn |-> 0, fault |-> 0]
  /\ failed = {} /\ deleted = {} /\ missed = {} /\ strays = {}

Idle == todo = <<>>
Marked(w) == {a \in DOMAIN agents : agents[a].workspace = w /\ agents[a].default}
SessionsOf(w) == {s \in DOMAIN sessions : sessions[s].workspace = w}
HeadOf(S) == IF S = {} THEN {None} ELSE S

-----------------------------------------------------------------------------
(* Requests: each checks its arguments and leaves the statements to make.  *)

Spend(kind, max) == spent[kind] < max /\ spent' = [spent EXCEPT ![kind] = @ + 1]

Serve(statements) ==
  /\ todo' = statements
  /\ Spend("request", MaxRequests)
  /\ UNCHANGED <<tables, memory, failed, deleted, missed, strays>>

\* agent.create_workspace; a root that already has a row changes nothing.
CreateWorkspace(w) ==
  /\ w \notin DOMAIN workspaces \cup ImWorkspaces
  /\ \A a \in DOMAIN agents : agents[a].workspace # w
  /\ Serve(<< <<"add", w>>, <<"seed", w>>, <<"ensure", w>>, <<"adopt", w>> >>)

SetActiveWorkspace(w) ==
  /\ w \in DOMAIN workspaces
  /\ Serve(<< <<"open", w>>, <<"anchor", w>> >>)

\* DeleteBySession of each table, in the handler's order.
Wipes(s) ==
  LET Wipe(t) == IF t \in Tables THEN << <<"wipe", s, t>> >> ELSE <<>>
  IN Wipe("messages") \o Wipe("files") \o Wipe("usage") \o Wipe("digests")

\* Fault: the row is dropped before the turn is cancelled.
DeleteStatementsRowsFirst(s) ==
  << <<"drop", s>> >> \o Wipes(s) \o << <<"remove", s>>, <<"reanchor", s>> >>

\* handleDeleteSession
DeleteStatements(s) ==
  << <<"remove", s>>, <<"drop", s>> >> \o Wipes(s) \o << <<"reanchor", s>> >>

DeleteSession(s) == Serve(DeleteStatements(s))

\* With force the sessions go first, the active one last; else there must be none.
DeleteWorkspace(w) ==
  /\ w \in DOMAIN workspaces
  /\ \E order \in SetToSeqs(SessionsOf(w) \ {active.session}) :
       LET last == IF active.session \in SessionsOf(w) THEN <<active.session>> ELSE <<>>
           steps == [i \in DOMAIN (order \o last) |-> DeleteStatements((order \o last)[i])]
       IN Serve(FlattenSeq(steps) \o << <<"close", w>>, <<"leave", w>> >>)

BindSessionWorkspace(s, w) ==
  /\ s \in DOMAIN sessions /\ w \in DOMAIN workspaces
  /\ Serve(<< <<"bind", s, w>> >>)

\* Nothing about an id the catalog has never seen; those of peers are not minted.
Minted(s) ==
  /\ s \notin DOMAIN sessions \cup live \cup deleted \cup compacting \cup strays \cup ImSessions
  /\ turn[s] = "none" /\ \A t \in Tables : <<s, t>> \notin rows

\* The agent of a new session: the one asked for, if it is the workspace's and
\* exists, else the default; the workspace is not looked up. The prompt goes to the
\* entry's Session; the runtime built beside it holds a Session of its own, hydrated
\* before there is a row.
CreateSession(s, w, asked) ==
  /\ Minted(s)
  /\ asked \in DOMAIN agents => agents[asked].workspace = w
  /\ LET choice == IF asked # None THEN {asked} \cap DOMAIN agents ELSE Marked(w)
     IN \E a \in HeadOf(choice) :
          todo' = << <<"insert", s, a>>, <<"bind", s, w>>, <<"activate", s>> >>
  /\ live' = live \cup {s} /\ held' = [held EXCEPT ![s] = None]
  /\ Spend("request", MaxRequests)
  /\ UNCHANGED <<tables, turn, found, compacting, arriving, known, failed, deleted, missed, strays>>

\* Whether the session exists is not asked.
SetActiveSession(s) ==
  /\ todo' = << <<"activate", s>> >>
  /\ strays' = IF s \in DOMAIN sessions THEN strays \ {s} ELSE strays \cup {s}
  /\ Spend("request", MaxRequests)
  /\ UNCHANGED <<tables, memory, failed, deleted, missed>>

\* A row for any session, be there one or not.
Put(s, table) ==
  /\ todo' = << <<"put", s, table>> >>
  /\ deleted' = deleted \ {s} /\ missed' = missed \ {s}
  /\ Spend("request", MaxRequests)
  /\ UNCHANGED <<tables, memory, failed, strays>>

ImportFiles(s) == Put(s, "files")
SaveMessage(s) == Put(s, "messages")

\* create_agent does not look the workspace up.
CreateAgent(a, w) ==
  /\ a \notin DOMAIN agents
  /\ Serve(<< <<"hire", a, w>> >>)

DeleteAgent(a) ==
  /\ a \in DOMAIN agents \ Presets /\ ~agents[a].default
  /\ Serve(<< <<"fire", a>> >>)

\* Choosing the agent that is already marked changes nothing, the column of the
\* workspace included.
UpdateDefaultAgent(w, a) ==
  /\ w \in DOMAIN workspaces /\ a \in DOMAIN agents
  /\ agents[a].workspace = w /\ a \notin Marked(w)
  /\ \E p \in HeadOf(Marked(w)) :
       Serve((IF p = None THEN <<>> ELSE << <<"unmark", p>> >>)
             \o << <<"mark", a>>, <<"default", w, a>> >>)

\* The lookup of the previous default fails, which the handler takes for none.
UpdateDefaultBlind(w, a) ==
  /\ w \in DOMAIN workspaces /\ a \in DOMAIN agents
  /\ agents[a].workspace = w /\ a \notin Marked(w)
  /\ todo' = << <<"mark", a>>, <<"default", w, a>> >>
  /\ Spend("fault", MaxFaults) /\ failed' = failed \cup {"agents"}
  /\ UNCHANGED <<tables, memory, deleted, missed, strays>>

Request ==
  /\ Idle
  /\ \/ \E w \in Workspaces :
          \/ CreateWorkspace(w) \/ SetActiveWorkspace(w) \/ DeleteWorkspace(w)
          \/ \E s \in Sessions : BindSessionWorkspace(s, w)
          \/ \E s \in Sessions, a \in AgentIds \cup {None} : CreateSession(s, w, a)
          \/ \E a \in UserAgents : CreateAgent(a, w)
          \/ \E a \in AgentIds : UpdateDefaultAgent(w, a) \/ UpdateDefaultBlind(w, a)
     \/ \E s \in Sessions : SetActiveSession(s) \/ DeleteSession(s) \/ ImportFiles(s) \/ SaveMessage(s)
     \/ \E a \in UserAgents : DeleteAgent(a)

-----------------------------------------------------------------------------
(* Statements. Each is made by the action that matches the head of todo.   *)

At(op) == todo # <<>> /\ Head(todo)[1] = op
Arg(i) == Head(todo)[i]
Done == todo' = Tail(todo) /\ UNCHANGED history

\* Workspaces and agents.
AddWorkspace ==
  /\ At("add") /\ Done
  /\ workspaces' = With(workspaces, Arg(2), None)
  /\ UNCHANGED <<agents, sessions, rows, active, memory>>

\* Inserts the presets that are not there yet.
SeedPresets ==
  /\ At("seed") /\ Done
  /\ agents' = IF ExpertOf(Arg(2)) \in DOMAIN agents THEN agents
               ELSE With(agents, ExpertOf(Arg(2)), [workspace |-> Arg(2), default |-> FALSE])
  /\ UNCHANGED <<workspaces, sessions, rows, active, memory>>

\* Without a default the Main Agent is inserted; if that row is there, unmarked,
\* the insert fails, and both callers carry on without the column.
EnsureDefault ==
  /\ At("ensure")
  /\ LET w == Arg(2) IN
       \/ /\ Marked(w) # {} /\ Done /\ UNCHANGED agents
       \/ /\ Marked(w) = {} /\ MainOf(w) \notin DOMAIN agents /\ Done
          /\ agents' = With(agents, MainOf(w), [workspace |-> w, default |-> TRUE])
       \/ /\ Marked(w) = {} /\ MainOf(w) \in DOMAIN agents
          /\ todo' = Tail(Tail(todo)) /\ UNCHANGED <<agents, history>>
  /\ UNCHANGED <<workspaces, sessions, rows, active, memory>>

\* UpdateDefaultAgent of what EnsureDefault returned.
AdoptDefault ==
  /\ At("adopt") /\ Done
  /\ \E a \in Marked(Arg(2)) : workspaces' = With(workspaces, Arg(2), a)
  /\ UNCHANGED <<agents, sessions, rows, active, memory>>

MarkAgent ==
  /\ \/ At("mark") /\ agents' = [agents EXCEPT ![Arg(2)].default = TRUE]
     \/ At("unmark") /\ agents' = [agents EXCEPT ![Arg(2)].default = FALSE]
     \/ At("hire") /\ agents' = With(agents, Arg(2), [workspace |-> Arg(3), default |-> FALSE])
     \/ At("fire") /\ agents' = Without(agents, Arg(2))
  /\ Done
  /\ UNCHANGED <<workspaces, sessions, rows, active, memory>>

SetColumn ==
  /\ At("default") /\ Done
  /\ workspaces' = With(workspaces, Arg(2), Arg(3))
  /\ UNCHANGED <<agents, sessions, rows, active, memory>>

DropWorkspace ==
  /\ At("close") /\ Done
  /\ workspaces' = Without(workspaces, Arg(2))
  /\ UNCHANGED <<agents, sessions, rows, active, memory>>

\* app_state
OpenWorkspace ==
  /\ At("open") /\ Done
  /\ active' = [active EXCEPT !.workspace = Arg(2)]
  /\ UNCHANGED <<workspaces, agents, sessions, rows, memory>>

AnchorSession ==
  /\ At("anchor") /\ Done
  /\ \E s \in HeadOf(SessionsOf(Arg(2))) : active' = [active EXCEPT !.session = s]
  /\ UNCHANGED <<workspaces, agents, sessions, rows, memory>>

\* Leaving the active workspace picks another one and no session.
LeaveWorkspace ==
  /\ At("leave") /\ UNCHANGED history
  /\ IF active.workspace = Arg(2)
     THEN /\ \E w \in HeadOf(DOMAIN workspaces \ {Arg(2)}) :
               active' = [active EXCEPT !.workspace = w]
          /\ todo' = << <<"activate", None>> >> \o Tail(todo)
     ELSE UNCHANGED active /\ todo' = Tail(todo)
  /\ UNCHANGED <<workspaces, agents, sessions, rows, memory>>

ActivateSession ==
  /\ At("activate") /\ Done
  /\ active' = [active EXCEPT !.session = Arg(2)]
  /\ UNCHANGED <<workspaces, agents, sessions, rows, memory>>

\* The head of the list of every session, whatever the workspace.
Reanchor ==
  /\ At("reanchor") /\ Done
  /\ IF active.session = Arg(2)
     THEN \E s \in HeadOf(DOMAIN sessions) : active' = [active EXCEPT !.session = s]
     ELSE UNCHANGED active
  /\ UNCHANGED <<workspaces, agents, sessions, rows, memory>>

\* Sessions and their rows.
InsertSession ==
  /\ At("insert") /\ Done
  /\ sessions' = With(sessions, Arg(2), [workspace |-> None, agent |-> Arg(3), prompt |-> Arg(3)])
  /\ UNCHANGED <<workspaces, agents, rows, active, memory>>

BindWorkspace ==
  /\ At("bind") /\ Done
  /\ sessions' = IF Arg(2) \in DOMAIN sessions
                 THEN [sessions EXCEPT ![Arg(2)].workspace = Arg(3)] ELSE sessions
  /\ UNCHANGED <<workspaces, agents, rows, active, memory>>

DropSession ==
  /\ At("drop") /\ Done
  /\ sessions' = Without(sessions, Arg(2))
  /\ UNCHANGED <<workspaces, agents, rows, active, memory>>

TouchRows ==
  /\ \/ At("wipe") /\ rows' = rows \ {<<Arg(2), Arg(3)>>}
     \/ At("put") /\ rows' = rows \cup ({<<Arg(2), Arg(3)>>} \cap Keyed)
  /\ Done
  /\ UNCHANGED <<workspaces, agents, sessions, active, memory>>

\* Fault: Abort is not called, so a turn under way goes on until Close.
RemoveEntryOnly(s) ==
  /\ live' = live \ {s}
  /\ deleted' = deleted \cup {s}
  /\ missed' = missed \ {s}
  /\ UNCHANGED <<turn, spent, failed, strays>>

\* Work that writes the session's rows and that Remove does not cancel: a turn not
\* yet registered, a compaction, and the Save of a peer's message.
Uncancelled(s) ==
  turn'[s] # "none" \/ s \in compacting \/ arriving[s].at \in {"select", "upsert"}

\* SessionManager.Remove: the registered turn is cancelled and writes nothing more.
RemoveEntry(s) ==
  /\ live' = live \ {s}
  /\ deleted' = deleted \cup {s}
  /\ turn' = IF s \in live /\ turn[s] # "popped" THEN [turn EXCEPT ![s] = "none"] ELSE turn
  /\ missed' = IF Uncancelled(s) THEN missed \cup {s} ELSE missed \ {s}
  /\ UNCHANGED <<spent, failed, strays>>

RemoveRuntime ==
  /\ At("remove") /\ RemoveEntry(Arg(2))
  /\ todo' = Tail(todo)
  /\ UNCHANGED <<tables, held, found, compacting, arriving, known>>

Statement ==
  \/ AddWorkspace \/ SeedPresets \/ EnsureDefault \/ AdoptDefault \/ MarkAgent \/ SetColumn
  \/ DropWorkspace \/ OpenWorkspace \/ AnchorSession \/ LeaveWorkspace \/ ActivateSession
  \/ Reanchor \/ InsertSession \/ BindWorkspace \/ DropSession \/ TouchRows \/ RemoveRuntime

\* What a statement is about.
About(st) ==
  CASE st[1] \in {"add", "seed", "ensure", "adopt", "mark", "unmark", "default", "hire", "fire"} -> "agents"
    [] st[1] \in {"open", "anchor", "leave", "activate", "reanchor", "close"} -> "active"
    [] OTHER -> "sessions"

\* The statements of lost are not made.
Lose(lost) ==
  /\ Spend("fault", MaxFaults)
  /\ failed' = failed \cup {About(lost[i]) : i \in DOMAIN lost}
  /\ deleted' = deleted \ {lost[i][2] : i \in DOMAIN lost}
  /\ missed' = missed \cap deleted'
  /\ UNCHANGED strays

\* A statement fails: the handler answers with an error and makes none of the
\* rest, except where it ignores the error.
Fail ==
  /\ todo # <<>> /\ Head(todo)[1] # "remove"
  /\ IF Head(todo)[1] \in {"adopt", "anchor", "leave"} \/ Head(todo) = <<"activate", None>>
     THEN Lose(<<Head(todo)>>) /\ todo' = Tail(todo)
     ELSE Lose(todo) /\ todo' = <<>>
  /\ UNCHANGED <<tables, memory>>

-----------------------------------------------------------------------------
(* Turns and compactions, which run beside the requests.                   *)

\* GetOrCreateEntry hydrates a runtime that is built for the request.
Enter(s) ==
  /\ live' = live \cup {s}
  /\ held' = IF s \in live THEN held
             ELSE [held EXCEPT ![s] = IF s \in DOMAIN sessions THEN sessions[s].prompt ELSE None]
  /\ deleted' = deleted \ {s} /\ missed' = missed \ {s}
  /\ Spend("turn", MaxTurns)
  /\ UNCHANGED <<arriving, known, strays>>

Prompt(s) ==
  /\ turn[s] = "none" /\ s \notin compacting
  /\ Enter(s)
  /\ turn' = [turn EXCEPT ![s] = "popped"]
  /\ UNCHANGED <<tables, found, compacting, todo, failed>>

InPhase(s, phase) == turn[s] = phase

\* The loop registers the turn, whose context Abort can cancel from now on.
Register(s) ==
  /\ InPhase(s, "popped")
  /\ turn' = [turn EXCEPT ![s] = "question"]
  /\ UNCHANGED <<tables, live, held, found, compacting, arriving, known, todo, history>>

\* persistUserMessage, persistAssistantMessages with the digests of automatic
\* compactions, persistUsageSnapshot: an error is logged and swallowed.
Write(s, phase, next, written) ==
  /\ InPhase(s, phase)
  /\ turn' = [turn EXCEPT ![s] = next]
  /\ \E R \in SUBSET (written \cap Tables) : rows' = rows \cup {<<s, t>> : t \in R}
  /\ UNCHANGED <<workspaces, agents, sessions, active, live, held, found, compacting, arriving, known, todo, history>>

PersistUser(s) == Write(s, "question", "answer", {"messages"})
PersistAssistant(s) == Write(s, "answer", "select", {"messages", "digests"})
PersistUsage(s) == Write(s, "usage", "none", {"usage"})

\* SQLiteStore.Save: the SELECT that keeps what the handlers own ...
SaveSelect(s) ==
  /\ InPhase(s, "select")
  /\ turn' = [turn EXCEPT ![s] = "upsert"]
  /\ found' = [found EXCEPT ![s] = IF s \in DOMAIN sessions THEN sessions[s].workspace ELSE None]
  /\ UNCHANGED <<tables, live, held, compacting, arriving, known, todo, history>>

Upsert(s) ==
  With(sessions, s, [workspace |-> found[s], agent |-> None, prompt |-> held[s]])

\* ... and the upsert of every column, the agent and the prompt of the runtime's
\* own Session among them.
SaveUpsert(s) ==
  /\ InPhase(s, "upsert")
  /\ turn' = [turn EXCEPT ![s] = "usage"] /\ found' = [found EXCEPT ![s] = None]
  /\ sessions' \in {Upsert(s), sessions}
  /\ UNCHANGED <<workspaces, agents, rows, active, live, held, compacting, arriving, known, todo, history>>

\* The turn ends without its writes: Stop, an error of the provider, or Close of
\* a runtime that was removed.
EndTurn(s) ==
  /\ turn[s] # "none"
  /\ turn' = [turn EXCEPT ![s] = "none"] /\ found' = [found EXCEPT ![s] = None]
  /\ UNCHANGED <<tables, live, held, compacting, arriving, known, todo, history>>

\* agent.compact runs in a goroutine with a background context, if no turn runs.
Compact(s) ==
  /\ turn[s] \in {"none", "popped"} /\ s \notin compacting
  /\ Enter(s)
  /\ compacting' = compacting \cup {s}
  /\ UNCHANGED <<tables, turn, found, todo, failed>>

PersistCompaction(s) ==
  /\ s \in compacting
  /\ compacting' = compacting \ {s}
  /\ rows' \in {rows, rows \cup ({<<s, "digests">>} \cap Keyed)}
  /\ UNCHANGED <<workspaces, agents, sessions, active, live, held, turn, found, arriving, known, todo, history>>

Turns ==
  \E s \in Sessions :
    \/ Prompt(s) \/ Register(s) \/ PersistUser(s) \/ PersistAssistant(s) \/ SaveSelect(s)
    \/ SaveUpsert(s) \/ PersistUsage(s) \/ EndTurn(s) \/ Compact(s) \/ PersistCompaction(s)

-----------------------------------------------------------------------------
(* Messages of IM peers (im/manager.go), which run beside the requests too. *)

Reached(s, place) == arriving[s].at = place

\* ensureIMWorkspace: the workspace of the instance is made, bare of agents and of a
\* default, unless the manager knows it or finds its row; where that fails nothing
\* is written, and the turn is submitted (Prompt) all the same.
MessageArrives(s, w) ==
  /\ Reached(s, "none") /\ Spend("turn", MaxTurns)
  /\ workspaces' = IF w \in known \cup DOMAIN workspaces THEN workspaces
                   ELSE With(workspaces, w, None)
  /\ known' = known \cup {w}
  /\ arriving' = [arriving EXCEPT ![s] = [at |-> "select", found |-> None, to |-> w]]
  /\ deleted' = deleted \ {s} /\ missed' = missed \ {s}
  /\ UNCHANGED <<agents, sessions, rows, active, live, held, turn, found, compacting, todo,
                 failed, strays>>

\* bindIMSession: Save of a new Session under the peer's id, its SELECT first ...
MessageSelect(s) ==
  /\ Reached(s, "select")
  /\ arriving' = [arriving EXCEPT ![s].at = "upsert",
        ![s].found = IF s \in DOMAIN sessions THEN sessions[s].workspace ELSE None]
  /\ UNCHANGED <<tables, live, held, turn, found, compacting, known, todo, history>>

\* ... then the upsert, which drops the agent and the prompt of a row that was there.
\* If it fails the session is not bound.
MessageUpsert(s) ==
  /\ Reached(s, "upsert")
  /\ \/ /\ sessions' = With(sessions, s, [workspace |-> arriving[s].found,
                                            agent |-> None, prompt |-> None])
        /\ arriving' = [arriving EXCEPT ![s].at = "bind"]
     \/ /\ arriving' = [arriving EXCEPT ![s] = NoMessage] /\ UNCHANGED sessions
  /\ UNCHANGED <<workspaces, agents, rows, active, live, held, turn, found, compacting, known,
                 todo, history>>

\* BindWorkspace, to a workspace that may be gone; then the turn is submitted (Prompt).
MessageBind(s) ==
  /\ Reached(s, "bind")
  /\ sessions' \in {sessions} \cup {[sessions EXCEPT ![x].workspace = arriving[x].to] :
                                       x \in {s} \cap DOMAIN sessions}
  /\ arriving' = [arriving EXCEPT ![s] = NoMessage]
  /\ UNCHANGED <<workspaces, agents, rows, active, live, held, turn, found, compacting, known,
                 todo, history>>

PeerMessages ==
  \E s \in ImSessions :
    \/ \E w \in ImWorkspaces : MessageArrives(s, w)
    \/ MessageSelect(s) \/ MessageUpsert(s) \/ MessageBind(s)

\* The process stops anywhere; the next one seeds the agents of every workspace.
Restart ==
  /\ Lose(todo)
  /\ live' = {} /\ held' = [s \in Sessions |-> None]
  /\ turn' = [s \in Sessions |-> "none"] /\ found' = [s \in Sessions |-> None]
  /\ compacting' = {}
  /\ arriving' = [s \in Sessions |-> NoMessage] /\ known' = {}
  /\ \E order \in SetToSeqs(DOMAIN workspaces) :
       todo' = FlattenSeq([i \in DOMAIN order |->
                 << <<"seed", order[i]>>, <<"ensure", order[i]>>, <<"adopt", order[i]>> >>])
  /\ UNCHANGED tables

Next == Request \/ Statement \/ Fail \/ Turns \/ PeerMessages \/ Restart

Spec == Init /\ [][Next]_vars

-----------------------------------------------------------------------------
(* Properties                                                              *)

\* As long as no statement about agents was lost, between requests every workspace
\* has exactly one agent marked is_default, and default_agent_id names it: sessions
\* are created from the first, the settings page shows the second. The workspace of
\* an IM instance has no default until it is chosen, or the next start adopts one;
\* it may then have a mark that its row, made anew, does not name, but never two.
DefaultsAgree ==
  Idle /\ "agents" \notin failed =>
    \A w \in DOMAIN workspaces :
      \/ Marked(w) = {workspaces[w]}
      \/ /\ w \in ImWorkspaces /\ workspaces[w] = None
         /\ \A a, b \in Marked(w) : a = b

\* As long as no statement about them was lost, between requests the active ids
\* name rows, but for a session that was made active without one: the renderer opens
\* them at start without asking for a list.
ActiveIsReal ==
  Idle /\ {"active", "sessions"} \cap failed = {} =>
    /\ active.workspace \in DOMAIN workspaces \cup {None}
    /\ active.session \in DOMAIN sessions \cup strays \cup {None}

Under(s) == {i \in DOMAIN todo : Len(todo[i]) > 1 /\ todo[i][2] = s}

\* When the statements of a delete are over, none of the four tables a delete wipes
\* keeps a row of the session, unless Remove missed work of its own (Uncancelled) or
\* it was prompted or written to since. Rows of its sub-agents are not wiped.
DeletedLeaveNothing ==
  \A s \in deleted \ missed :
    Under(s) = {} => s \notin DOMAIN sessions /\ \A t \in Tables : <<s, t>> \notin rows

=============================================================================
