-------------------------- MODULE McpRegistryProofs --------------------------
(***************************************************************************)
(* Safety of McpRegistry for every set of servers and of connects; then of *)
(* McpLauncher, ToolSurface and Harness, composed with it as in MCSurface. *)
(***************************************************************************)
EXTENDS MCSurface, Sequences, TLAPS

(***************************************************************************)
(* The inductive invariant.                                                *)
(***************************************************************************)

\* The places of a connect that has read nothing of the resolver yet, and of one
\* that is still to attach its client or to tell why it could not.
Early == {"start", "connecting", "load", "store", "reload"}
AtWork == Pcs \ {"free", "notify", "done"}

Blank == [pc : {"free", "done"}]
Started == [pc : Pcs \ {"free"}, server : Servers, spec : Nat, awaits : Conns \cup {None},
            ready : BOOLEAN]
Results == [state : {"none"}] \cup [state : {"running"}, subscribers : SUBSET Conns]
             \cup [state : {"done"}, ready : BOOLEAN]
ClientStates == {"none", "open", "closed", "dead"}
Clients == [state : ClientStates] \cup [state : ClientStates, spec : Nat]
Entries == [there : {TRUE}, spec : Nat, enabled : BOOLEAN, connected : BOOLEAN,
            failed : BOOLEAN, ready : Nat, client : Conns \cup {None}]
Requests == [kind : {"idle", "announce"}]
              \cup [kind : {"close"}, server : Servers, client : Conns \cup {None},
                    enabled : BOOLEAN]

\* What each record holds, which is more than TypeOK says of it.
Shapes ==
    /\ conns \in [Conns -> Blank \cup Started]
    /\ tasks \in [Conns -> Results]
    /\ clients \in [Conns -> Clients]
    /\ entries \in [Servers -> Entries \cup {Missing}]
    /\ inFlight \in [Servers -> Conns \cup {None}]
    /\ op \in Requests
    /\ booted \in BOOLEAN /\ agent \in {"up", "wedged", "crashed"}
    /\ book \in [Servers -> {"none", "on", "off"}]
    /\ specs \in 1..MaxSpecs /\ restarts \in 0..MaxRestarts
    /\ surface \subseteq Servers

\* A connect c that was started for the server s and has handed its client over.
Gave(c, s) ==
    /\ c \in Conns /\ conns[c] \in Started
    /\ conns[c].server = s /\ conns[c].pc \in {"notify", "done"}
    /\ clients[c].state # "none"

\* The client of an entry was built by a connect to that server that is over, and
\* is open, or dead, while the entry is connected. Update's old client is not the
\* one that a connect has attached since.
Attached ==
    /\ ~booted => \A s \in Servers : entries[s] = Missing
    /\ \A c \in Conns : conns[c].pc = "attach" => clients[c].state = "open"
    /\ \A s \in Servers : Registered(s) =>
        /\ entries[s].client # None => Gave(entries[s].client, s)
        /\ entries[s].connected => /\ entries[s].client # None
                                   /\ clients[entries[s].client].state \in {"open", "dead"}
    /\ op.kind = "close" =>
        /\ Registered(op.server)
        /\ entries[op.server].enabled = op.enabled
        /\ op.client # None => Gave(op.client, op.server)
        /\ entries[op.server].connected => entries[op.server].client # op.client

\* The registry holds no server that the desktop's book does not.
Booked == \A s \in Servers : book[s] = "none" => ~Registered(s)

\* No specification is newer than the newest.
Dated ==
    /\ \A c \in Conns : conns[c] \in Started => conns[c].spec <= specs
    /\ \A s \in Servers : Registered(s) =>
        entries[s].spec \in 1..specs /\ entries[s].ready \in 0..specs

\* A task was started by a connect that has left it in the map while it runs; those
\* on its list wait for it, and a connect that waits is on the list.
Resolving ==
    /\ \A t \in Conns :
        /\ tasks[t].state # "none" => conns[t] \in Started /\ conns[t].pc \notin Early
        /\ tasks[t].state = "running" =>
            /\ inFlight[conns[t].server] = t
            /\ \A c \in tasks[t].subscribers : conns[c].pc = "await" /\ conns[c].awaits = t
    /\ \A s \in Servers : inFlight[s] # None =>
        tasks[inFlight[s]].state # "none" /\ conns[inFlight[s]].server = s
    /\ \A c \in Conns :
        /\ conns[c].pc = "await" =>
            /\ conns[c].awaits # None
            /\ tasks[conns[c].awaits].state = "running" /\ c \in tasks[conns[c].awaits].subscribers
        /\ conns[c].pc = "resolved" => conns[c].awaits # None
        /\ conns[c].pc \notin {"free", "done"} /\ conns[c].awaits # None =>
            tasks[conns[c].awaits].state # "none"

\* An enabled server that is neither connected nor shows an error is about to be
\* launched, or a connect is at work that will attach, or fail, to it.
Served ==
    agent = "up" =>
        \A s \in Servers : Registered(s) /\ entries[s].enabled =>
            \/ entries[s].connected \/ entries[s].failed
            \/ op.kind = "close" /\ op.server = s
            \/ \E c \in Conns : conns[c].pc \in AtWork /\ conns[c].server = s

\* While the surface differs from what is connected, somebody is about to refresh it.
Followed ==
    agent = "up" =>
        \/ surface = Connected
        \/ op.kind \in {"close", "announce"}
        \/ \E c \in Conns :
             \/ conns[c].pc \in {"connecting", "notify"}
             \/ /\ conns[c].pc = "start"
                /\ Registered(conns[c].server) /\ entries[conns[c].server].enabled

IInv == Shapes /\ Attached /\ Booked /\ Dated /\ Resolving /\ Served /\ Followed

(***************************************************************************)
(* What the helpers do.                                                    *)
(***************************************************************************)

\* A connect that is under way has all its fields.
LEMMA Living ==
  ASSUME conns \in [Conns -> Blank \cup Started], NEW c \in Conns
  PROVE  /\ conns[c].pc \in Pcs
         /\ conns[c].pc \notin {"free", "done"} => conns[c] \in Started
         /\ conns[c] \in Started =>
              /\ conns[c].server \in Servers /\ conns[c].spec \in Nat
              /\ conns[c].awaits \in Conns \cup {None} /\ conns[c].ready \in BOOLEAN
<1>1. conns[c] \in Blank \cup Started
  OBVIOUS
<1>2. conns[c].pc \in Pcs
  BY <1>1 DEF Blank, Started, Pcs
<1>3. conns[c].pc \notin {"free", "done"} => conns[c] \in Started
  BY <1>1 DEF Blank
<1>4. conns[c] \in Started =>
        /\ conns[c].server \in Servers /\ conns[c].spec \in Nat
        /\ conns[c].awaits \in Conns \cup {None} /\ conns[c].ready \in BOOLEAN
  BY DEF Started
<1>5. QED
  BY <1>2, <1>3, <1>4

\* A connect that moves on keeps what it holds.
LEMMA Moving ==
  ASSUME conns \in [Conns -> Blank \cup Started],
         NEW c \in Conns, conns[c].pc \notin {"free", "done"}, NEW pc \in Pcs \ {"free"}
  PROVE  /\ conns[c] \in Started
         /\ [conns EXCEPT ![c].pc = pc] \in [Conns -> Blank \cup Started]
         /\ [conns EXCEPT ![c].pc = pc][c] = [conns[c] EXCEPT !.pc = pc]
         /\ [conns[c] EXCEPT !.pc = pc] \in Started
         /\ \A d \in Conns \ {c} : [conns EXCEPT ![c].pc = pc][d] = conns[d]
<1>1. conns[c] \in Started
  BY DEF Blank, Started, Pcs
<1>2. [conns[c] EXCEPT !.pc = pc] \in Started
  BY <1>1 DEF Started
<1>3. QED
  BY <1>1, <1>2

\* Launch starts a connect of its own for each server, and leaves the others alone.
LEMMA Launching ==
  ASSUME conns \in [Conns -> Blank \cup Started], NEW S \in SUBSET Servers, Launch(S)
  PROVE  /\ conns' \in [Conns -> Blank \cup Started]
         /\ \A c \in Conns :
              \/ conns'[c] = conns[c]
              \/ /\ conns[c].pc = "free" /\ conns'[c] \in Started
                 /\ conns'[c].pc = "start" /\ conns'[c].server \in S
                 /\ conns'[c].spec = 0 /\ conns'[c].awaits = None
         /\ \A s \in S : \E c \in Conns : conns'[c].pc = "start" /\ conns'[c].server = s
<1>1. PICK start \in [S -> Fresh] :
        /\ \A s, t \in S : s # t => start[s] # start[t]
        /\ conns' = [c \in Conns |->
               IF \E s \in S : start[s] = c
                   THEN Spawned(c, CHOOSE s \in S : start[s] = c)[c]
                   ELSE conns[c]]
  BY DEF Launch
<1> DEFINE New(s) == [pc |-> "start", server |-> s, spec |-> 0, awaits |-> None, ready |-> FALSE]
<1>2. ASSUME NEW c \in Conns, NEW s \in S PROVE Spawned(c, s)[c] = New(s)
  BY DEF Spawned
<1>3. ASSUME NEW s \in S PROVE New(s) \in Started /\ New(s).pc = "start" /\ New(s).server = s
                               /\ New(s).spec = 0 /\ New(s).awaits = None
  BY DEF Started, Pcs
<1>4. ASSUME NEW s \in S PROVE start[s] \in Conns /\ conns[start[s]].pc = "free"
                               /\ conns'[start[s]] = New(s)
  <2>1. start[s] \in Conns /\ conns[start[s]].pc = "free"
    BY <1>1 DEF Fresh
  <2>2. (CHOOSE t \in S : start[t] = start[s]) = s
    BY <1>1
  <2>3. QED
    BY <1>1, <1>2, <2>1, <2>2
<1>5. ASSUME NEW c \in Conns, \A s \in S : start[s] # c PROVE conns'[c] = conns[c]
  BY <1>1, <1>5
<1> HIDE DEF New
<1>6. ASSUME NEW c \in Conns
      PROVE  \/ conns'[c] = conns[c]
             \/ /\ conns[c].pc = "free" /\ conns'[c] \in Started
                /\ conns'[c].pc = "start" /\ conns'[c].server \in S
                /\ conns'[c].spec = 0 /\ conns'[c].awaits = None
  BY <1>3, <1>4, <1>5
<1>7. conns' = [c \in Conns |-> conns'[c]]
  BY <1>1
<1>8. \A s \in S : \E c \in Conns : conns'[c].pc = "start" /\ conns'[c].server = s
  BY <1>3, <1>4
<1>9. conns' \in [Conns -> Blank \cup Started]
  BY <1>6, <1>7
<1>10. QED
  BY <1>6, <1>8, <1>9

\* A client that is closed keeps its kind, and closing changes nobody else's.
LEMMA Closing ==
  ASSUME clients \in [Conns -> Clients], NEW c \in Conns \cup {None}
  PROVE  /\ Closed(c) \in [Conns -> Clients]
         /\ c \in Conns => Closed(c)[c].state = "closed"
         /\ \A d \in Conns \ {c} : Closed(c)[d] = clients[d]
BY ConstantsAssumption DEF Closed, Clients, ClientStates

\* A registered server has an entry with all its fields.
LEMMA Registering ==
  ASSUME entries \in [Servers -> Entries \cup {Missing}], NEW s \in Servers, Registered(s)
  PROVE  entries[s] \in Entries /\ entries[s].client \in Conns \cup {None}
<1>1. entries[s] \in Entries
  BY DEF Registered, Missing
<1>2. QED
  BY <1>1 DEF Entries

(***************************************************************************)
(* Steps: what each record holds.                                          *)
(***************************************************************************)

\* Requests of the desktop, and restarts, keep what the records hold.
LEMMA ShapesDesktop ==
  ASSUME Shapes, \/ Bootstrap \/ CloseOld \/ Announce \/ Restart
                 \/ \E s \in Servers : DesktopStep(s) \/ CallTool(s)
  PROVE  Shapes'
<1> USE DEF Shapes, rest, desktopVars
<1>1. ASSUME NEW n \in Nat, NEW enabled \in BOOLEAN PROVE Entry(n, enabled) \in Entries
  BY DEF Entry, Entries
<1>2. CASE Bootstrap
  <2>1. conns' \in [Conns -> Blank \cup Started]
    BY <1>2, Launching DEF Bootstrap
  <2>2. entries' \in [Servers -> Entries \cup {Missing}]
    <3>1. ASSUME NEW s \in Servers
          PROVE  (IF book[s] = "none" THEN entries[s] ELSE Entry(specs, book[s] = "on"))
                   \in Entries \cup {Missing}
      <4>1. specs \in Nat /\ (book[s] = "on") \in BOOLEAN
        BY ConstantsAssumption
      <4>2. Entry(specs, book[s] = "on") \in Entries
        BY <1>1, <4>1
      <4>3. QED
        BY <4>2
    <3>2. QED
      BY <1>2, <3>1 DEF Bootstrap
  <2>3. QED
    BY <1>2, <2>1, <2>2 DEF Bootstrap
<1>3. CASE CloseOld
  <2>1. op.client \in Conns \cup {None} /\ op.server \in Servers
    BY <1>3 DEF CloseOld, Requests
  <2>2. clients' \in [Conns -> Clients]
    BY <1>3, <2>1, Closing DEF CloseOld
  <2>3. conns' \in [Conns -> Blank \cup Started]
    <3>1. CASE op.enabled
      BY <1>3, <3>1, <2>1, Launching DEF CloseOld
    <3>2. CASE ~op.enabled
      BY <1>3, <3>2 DEF CloseOld
    <3>3. QED
      BY <3>1, <3>2
  <2>4. op' \in Requests
    BY <1>3 DEF CloseOld, Requests, Idle
  <2>5. QED
    BY <1>3, <2>2, <2>3, <2>4 DEF CloseOld
<1>4. CASE Announce
  <2>1. op' \in Requests
    BY <1>4 DEF Announce, Requests, Idle
  <2>2. surface' \subseteq Servers
    BY <1>4 DEF Announce, Connected
  <2>3. QED
    BY <1>4, <2>1, <2>2 DEF Announce
<1>5. CASE Restart
  <2>1. conns' \in [Conns -> Blank \cup Started]
    BY <1>5 DEF Restart, Blank
  <2>2. tasks' \in [Conns -> Results]
    BY <1>5 DEF Restart, Results, NoTask
  <2>3. clients' \in [Conns -> Clients]
    BY <1>5 DEF Restart, Clients, ClientStates
  <2>4. op' \in Requests
    BY <1>5 DEF Restart, Requests, Idle
  <2>5. restarts' \in 0..MaxRestarts
    BY <1>5, ConstantsAssumption DEF Restart
  <2>6. QED
    BY <1>5, <2>1, <2>2, <2>3, <2>4, <2>5 DEF Restart
<1>6. ASSUME NEW s \in Servers, NEW enabled \in BOOLEAN, Register(s, enabled) PROVE Shapes'
  <2>1. conns' \in [Conns -> Blank \cup Started]
    BY <1>6, Launching DEF Register
  <2>2. specs' \in 1..MaxSpecs /\ specs' \in Nat
    BY <1>6, ConstantsAssumption DEF Register
  <2>3. entries' \in [Servers -> Entries \cup {Missing}]
    BY <1>1, <1>6, <2>2 DEF Register
  <2>4. QED
    BY <1>6, <2>1, <2>2, <2>3 DEF Register
<1>7. ASSUME NEW s \in Servers, NEW flag \in {"on", "off", "absent"}, Update(s, flag) PROVE Shapes'
  <2>1. specs' \in 1..MaxSpecs /\ specs' \in Nat
    BY <1>7, ConstantsAssumption DEF Update
  <2>2. book' \in [Servers -> {"none", "on", "off"}]
    BY <1>7 DEF Update
  <2>3. entries' \in [Servers -> Entries \cup {Missing}] /\ op' \in Requests
    <3>1. CASE Registered(s)
      <4>1. entries[s] \in Entries
        BY <3>1 DEF Registered, Missing
      <4>2. entries[s].client \in Conns \cup {None}
        BY <4>1 DEF Entries
      <4>3. [Entry(specs', flag = "on") EXCEPT !.client = entries[s].client] \in Entries
        BY <2>1, <4>2 DEF Entry, Entries
      <4>4. [kind |-> "close", server |-> s, client |-> entries[s].client,
             enabled |-> flag = "on"] \in Requests
        BY <4>2 DEF Requests
      <4>5. QED
        BY <1>7, <3>1, <4>3, <4>4 DEF Update
    <3>2. CASE ~Registered(s)
      BY <1>7, <3>2 DEF Update
    <3>3. QED
      BY <3>1, <3>2
  <2>4. QED
    BY <1>7, <2>1, <2>2, <2>3 DEF Update
<1>8. ASSUME NEW s \in Servers, NEW flag \in {"on", "off"}, SetEnabled(s, flag) PROVE Shapes'
  <2>1. entries' \in [Servers -> Entries \cup {Missing}]
    <3>1. CASE Registered(s)
      <4>1. entries[s] \in Entries
        BY <3>1 DEF Registered, Missing
      <4>2. [Entry(entries[s].spec, FALSE) EXCEPT !.failed = entries[s].failed] \in Entries
        BY <4>1 DEF Entry, Entries
      <4>3. [entries[s] EXCEPT !.enabled = TRUE] \in Entries
        BY <4>1 DEF Entries
      <4>4. QED
        BY <1>8, <3>1, <4>2, <4>3 DEF SetEnabled
    <3>2. CASE ~Registered(s)
      BY <1>8, <3>2 DEF SetEnabled
    <3>3. QED
      BY <3>1, <3>2
  <2>2. CASE Connect(s)
    <3>1. conns' \in [Conns -> Blank \cup Started]
      BY <2>2, Launching DEF Connect
    <3>2. QED
      BY <1>8, <2>1, <2>2, <3>1 DEF SetEnabled, Connect
  <2>3. CASE Disconnect(s)
    <3>1. entries[s].client \in Conns \cup {None}
      BY <2>3, Registering DEF Disconnect
    <3>2. clients' \in [Conns -> Clients]
      BY <2>3, <3>1, Closing DEF Disconnect
    <3>3. op' \in Requests
      BY <2>3 DEF Disconnect, Requests
    <3>4. QED
      BY <1>8, <2>1, <2>3, <3>2, <3>3 DEF SetEnabled, Disconnect
  <2>4. CASE Wedge(s)
    BY <1>8, <2>1, <2>4 DEF SetEnabled, Wedge
  <2>5. QED
    BY <1>8, <2>2, <2>3, <2>4 DEF SetEnabled
<1>9. ASSUME NEW s \in Servers, RetryResolution(s) PROVE Shapes'
  <2>1. conns' \in [Conns -> Blank \cup Started]
    BY <1>9, Launching DEF RetryResolution, Connect
  <2>2. QED
    BY <1>9, <2>1 DEF RetryResolution, Connect
<1>10. ASSUME NEW s \in Servers, Unregister(s) PROVE Shapes'
  <2>1. clients' \in [Conns -> Clients] /\ op' \in Requests
    <3>1. CASE Registered(s)
      <4>1. entries[s].client \in Conns \cup {None}
        BY <3>1, Registering
      <4>2. QED
        BY <1>10, <3>1, <4>1, Closing DEF Unregister, Requests
    <3>2. CASE ~Registered(s)
      BY <1>10, <3>2 DEF Unregister
    <3>3. QED
      BY <3>1, <3>2
  <2>2. QED
    BY <1>10, <2>1 DEF Unregister
<1>11. ASSUME NEW s \in Servers, CallTool(s) PROVE Shapes'
  <2>1. conns' \in [Conns -> Blank \cup Started]
    BY <1>11, Launching DEF CallTool
  <2>2. QED
    BY <1>11, <2>1 DEF CallTool
<1>12. QED
  BY <1>2, <1>3, <1>4, <1>5, <1>6, <1>7, <1>8, <1>9, <1>10, <1>11 DEF DesktopStep

\* What a step of one connect does to the connects.
LEMMA ConnectMoves ==
  ASSUME Shapes, NEW c \in Conns, ConnectStep(c)
  PROVE  /\ conns[c] \in Started /\ conns[c].pc \notin {"free", "done"} /\ agent = "up"
         /\ conns' \in [Conns -> Blank \cup Started]
         /\ \A d \in Conns \ {c} : conns'[d] = conns[d]
         /\ conns'[c] \in Started /\ conns'[c].server = conns[c].server
<1> USE DEF Shapes
<1> DEFINE Next1 == /\ conns' = [conns EXCEPT ![c] = conns'[c]]
                    /\ conns'[c] \in Started /\ conns'[c].server = conns[c].server
<1>1. conns[c].pc \notin {"free", "done"} /\ agent = "up"
  BY DEF ConnectStep, ReadSpec, Lookup, ResolveLoad, ResolveStore, ResolveReload, Record,
         Handshake, Attach, RecordConnectionError, Notify, At
<1>2. conns[c] \in Started /\ conns[c].server \in Servers
  BY <1>1, Living
<1>3. ASSUME NEW pc \in Pcs \ {"free"}, conns' = Moved(c, pc) PROVE Next1
  <2>1. [conns[c] EXCEPT !.pc = pc] \in Started
    BY <1>2 DEF Started
  <2>2. conns' = [conns EXCEPT ![c] = [conns[c] EXCEPT !.pc = pc]]
    BY <1>3 DEF Moved
  <2>3. QED
    BY <1>2, <2>1, <2>2 DEF Started
<1>4. ASSUME NEW t \in Conns, Subscribe(c, t) PROVE Next1
  <2>1. tasks[t] \in Results
    OBVIOUS
  <2>2. (tasks[t].state = "done" /\ tasks[t].ready) \in BOOLEAN
    BY <2>1 DEF Results
  <2>3. \E pc \in {"resolved", "await"}, b \in BOOLEAN :
          conns' = [conns EXCEPT ![c] = [conns[c] EXCEPT !.awaits = t, !.pc = pc, !.ready = b]]
    BY <1>4, <2>2 DEF Subscribe
  <2>4. ASSUME NEW pc \in {"resolved", "await"}, NEW b \in BOOLEAN
        PROVE  /\ [conns[c] EXCEPT !.awaits = t, !.pc = pc, !.ready = b] \in Started
               /\ [conns[c] EXCEPT !.awaits = t, !.pc = pc, !.ready = b].server = conns[c].server
    BY <1>2 DEF Started, Pcs
  <2>5. QED
    BY <2>3, <2>4
<1>5. ASSUME UNCHANGED conns PROVE Next1
  BY <1>2, <1>5
<1>6. ASSUME ReadSpec(c) PROVE Next1
  <2>1. CASE Registered(conns[c].server) /\ entries[conns[c].server].enabled
    <3>1. entries[conns[c].server].spec \in Nat
      BY <1>2, <2>1, Registering DEF Entries
    <3>2. conns' = [conns EXCEPT ![c] = [conns[c] EXCEPT !.pc = "connecting",
                                          !.spec = entries[conns[c].server].spec]]
      BY <1>6, <2>1 DEF ReadSpec
    <3>3. [conns[c] EXCEPT !.pc = "connecting", !.spec = entries[conns[c].server].spec] \in Started
      BY <1>2, <3>1 DEF Started, Pcs
    <3>4. QED
      BY <1>2, <3>2, <3>3 DEF Started
  <2>2. CASE ~(Registered(conns[c].server) /\ entries[conns[c].server].enabled)
    BY <1>3, <1>6, <2>2 DEF ReadSpec, Pcs
  <2>3. QED
    BY <2>1, <2>2
<1>7. ASSUME Lookup(c) PROVE Next1
  <2>1. CASE conns' = Moved(c, "load")
    BY <1>3, <2>1 DEF Pcs
  <2>2. CASE conns' = [conns EXCEPT ![c].pc = "dial", ![c].ready = TRUE]
    <3>1. [conns[c] EXCEPT !.pc = "dial", !.ready = TRUE] \in Started
      BY <1>2 DEF Started, Pcs
    <3>2. conns' = [conns EXCEPT ![c] = [conns[c] EXCEPT !.pc = "dial", !.ready = TRUE]]
      BY <2>2
    <3>3. QED
      BY <1>2, <3>1, <3>2 DEF Started
  <2>3. QED
    BY <1>7, <2>1, <2>2 DEF Lookup
<1>8. ASSUME ResolveLoad(c) PROVE Next1
  BY <1>2, <1>3, <1>4, <1>8 DEF ResolveLoad, Pcs
<1>9. ASSUME ResolveStore(c) PROVE Next1
  <2>1. CASE conns' = Moved(c, "reload")
    BY <1>3, <2>1 DEF Pcs
  <2>2. CASE conns' = [conns EXCEPT ![c].pc = "await", ![c].awaits = c]
    <3>1. [conns[c] EXCEPT !.pc = "await", !.awaits = c] \in Started
      BY <1>2 DEF Started, Pcs
    <3>2. conns' = [conns EXCEPT ![c] = [conns[c] EXCEPT !.pc = "await", !.awaits = c]]
      BY <2>2
    <3>3. QED
      BY <1>2, <3>1, <3>2 DEF Started
  <2>3. QED
    BY <1>9, <2>1, <2>2 DEF ResolveStore
<1>10. ASSUME ResolveReload(c) PROVE Next1
  BY <1>2, <1>4, <1>5, <1>10 DEF ResolveReload
<1>11. ASSUME Record(c) \/ Handshake(c) \/ Attach(c) \/ RecordConnectionError(c) \/ Notify(c)
       PROVE  Next1
  <2>1. \E pc \in {"dial", "attach", "fail", "notify", "done"} : conns' = Moved(c, pc)
    BY <1>11 DEF Record, Handshake, Attach, RecordConnectionError, Notify
  <2>2. {"dial", "attach", "fail", "notify", "done"} \subseteq Pcs \ {"free"}
    BY DEF Pcs
  <2>3. QED
    BY <1>3, <2>1, <2>2
<1>12. Next1
  BY <1>6, <1>7, <1>8, <1>9, <1>10, <1>11 DEF ConnectStep
<1>13. QED
  BY <1>1, <1>2, <1>12

\* c asks for the result of the task t: it has it, or it is on the task's list.
Joined(c, t) ==
  /\ conns'[c].awaits = t
  /\ \/ tasks[t].state = "done" /\ conns'[c].pc = "resolved" /\ tasks' = tasks
     \/ /\ tasks[t].state # "done" /\ conns'[c].pc = "await"
        /\ tasks' = [tasks EXCEPT ![t].subscribers = @ \cup {c}]

\* Where the step of a connect leads from each place.
LEMMA ConnectPlaces ==
  ASSUME Shapes, NEW c \in Conns, ConnectStep(c), NEW s \in Servers, conns[c].server = s
  PROVE
    \/ /\ ReadSpec(c) /\ conns[c].pc = "start" /\ conns'[c].awaits = conns[c].awaits
       /\ \/ /\ Registered(s) /\ entries[s].enabled
             /\ conns'[c].pc = "connecting" /\ conns'[c].spec = entries[s].spec
          \/ /\ ~(Registered(s) /\ entries[s].enabled)
             /\ conns'[c].pc = "done" /\ conns'[c].spec = conns[c].spec
    \/ /\ ~ReadSpec(c) /\ conns'[c].spec = conns[c].spec
       /\ \/ /\ conns'[c].awaits = conns[c].awaits
             /\ \/ Lookup(c) /\ conns[c].pc = "connecting" /\ conns'[c].pc \in {"dial", "load"}
                \/ /\ ResolveLoad(c) /\ conns[c].pc = "load" /\ conns'[c].pc = "store"
                   /\ UNCHANGED <<inFlight, tasks>>
                \/ /\ ResolveStore(c) /\ conns[c].pc = "store" /\ conns'[c].pc = "reload"
                   /\ UNCHANGED <<inFlight, tasks>>
                \/ /\ ResolveReload(c) /\ conns[c].pc = "reload" /\ agent' = "crashed"
                   /\ UNCHANGED <<inFlight, tasks, conns>>
                \/ Record(c) /\ conns[c].pc = "resolved" /\ conns'[c].pc = "dial"
                \/ /\ Handshake(c) /\ conns[c].pc = "dial"
                   /\ \/ conns'[c].pc = "attach" /\ clients'[c].state = "open"
                      \/ conns'[c].pc = "fail" /\ clients'[c].state = "closed"
                \/ Attach(c) /\ conns[c].pc = "attach" /\ conns'[c].pc = "notify"
                \/ RecordConnectionError(c) /\ conns[c].pc = "fail" /\ conns'[c].pc = "notify"
                \/ Notify(c) /\ conns[c].pc = "notify" /\ conns'[c].pc = "done"
          \/ /\ ResolveStore(c) /\ conns[c].pc = "store" /\ inFlight[s] = None
             /\ inFlight' = [inFlight EXCEPT ![s] = c]
             /\ tasks' = [tasks EXCEPT ![c] = [state |-> "running", subscribers |-> {c}]]
             /\ conns'[c].pc = "await" /\ conns'[c].awaits = c
          \/ /\ ResolveLoad(c) \/ ResolveReload(c)
             /\ conns[c].pc \in {"load", "reload"} /\ UNCHANGED <<agent, inFlight>>
             /\ inFlight[s] # None /\ Joined(c, inFlight[s])
<1> USE DEF Shapes
<1> DEFINE Kept == conns'[c].spec = conns[c].spec /\ conns'[c].awaits = conns[c].awaits
<1>1. conns[c] \in Started
  BY ConnectMoves
<1>2. ASSUME NEW pc \in Pcs \ {"free"}, conns' = Moved(c, pc)
      PROVE  conns'[c].pc = pc /\ Kept
  <2>1. conns'[c] = [conns[c] EXCEPT !.pc = pc]
    BY <1>2 DEF Moved
  <2>2. QED
    BY <1>1, <2>1 DEF Started
<1>3. ASSUME NEW t \in Conns, Subscribe(c, t)
      PROVE  conns'[c].spec = conns[c].spec /\ Joined(c, t)
  <2>1. conns'[c] = [conns[c] EXCEPT !.awaits = t,
                       !.pc = IF tasks[t].state = "done" THEN "resolved" ELSE "await",
                       !.ready = tasks[t].state = "done" /\ tasks[t].ready]
    BY <1>3 DEF Subscribe
  <2>2. /\ conns'[c].spec = conns[c].spec /\ conns'[c].awaits = t
        /\ conns'[c].pc = IF tasks[t].state = "done" THEN "resolved" ELSE "await"
    BY <1>1, <2>1 DEF Started
  <2>3. QED
    BY <1>3, <2>2 DEF Subscribe, Joined
<1>4. conns[c].pc # "start" => ~ReadSpec(c)
  BY DEF ReadSpec, At
<1>5. CASE ReadSpec(c)
  <2>1. CASE Registered(s) /\ entries[s].enabled
    <3>1. conns'[c] = [conns[c] EXCEPT !.pc = "connecting", !.spec = entries[s].spec]
      BY <1>5, <2>1 DEF ReadSpec
    <3>2. /\ conns'[c].pc = "connecting" /\ conns'[c].spec = entries[s].spec
          /\ conns'[c].awaits = conns[c].awaits
      BY <1>1, <3>1 DEF Started
    <3>3. QED
      BY <1>5, <2>1, <3>2 DEF ReadSpec, At
  <2>2. CASE ~(Registered(s) /\ entries[s].enabled)
    <3>1. conns' = Moved(c, "done")
      BY <1>5, <2>2 DEF ReadSpec
    <3>2. conns'[c].pc = "done" /\ Kept
      BY <1>2, <3>1 DEF Pcs
    <3>3. QED
      BY <1>5, <2>2, <3>2 DEF ReadSpec, At
  <2>3. QED
    BY <2>1, <2>2
<1>6. CASE Lookup(c)
  <2>1. Kept /\ conns'[c].pc \in {"dial", "load"}
    <3>1. CASE conns' = Moved(c, "load")
      BY <1>2, <3>1 DEF Pcs
    <3>2. CASE conns' = [conns EXCEPT ![c].pc = "dial", ![c].ready = TRUE]
      <4>1. conns'[c] = [conns[c] EXCEPT !.pc = "dial", !.ready = TRUE]
        BY <3>2
      <4>2. QED
        BY <1>1, <4>1 DEF Started
    <3>3. QED
      BY <1>6, <3>1, <3>2 DEF Lookup
  <2>2. conns[c].pc = "connecting"
    BY <1>6 DEF Lookup, At
  <2>3. QED
    BY <1>4, <1>6, <2>1, <2>2
<1>7. CASE ResolveLoad(c)
  <2>1. conns[c].pc = "load" /\ UNCHANGED <<agent, inFlight>>
    BY <1>7 DEF ResolveLoad, At, rest
  <2>2. CASE inFlight[s] = None
    <3>1. conns' = Moved(c, "store") /\ UNCHANGED tasks
      BY <1>7, <2>2 DEF ResolveLoad
    <3>2. conns'[c].pc = "store" /\ Kept
      BY <1>2, <3>1 DEF Pcs
    <3>3. QED
      BY <1>4, <1>7, <2>1, <3>1, <3>2
  <2>3. CASE inFlight[s] # None
    <3>1. Subscribe(c, inFlight[s])
      BY <1>7, <2>3 DEF ResolveLoad
    <3>2. conns'[c].spec = conns[c].spec /\ Joined(c, inFlight[s])
      BY <1>3, <2>3, <3>1
    <3>3. QED
      BY <1>4, <1>7, <2>1, <2>3, <3>2
  <2>4. QED
    BY <2>2, <2>3
<1>8. CASE ResolveStore(c)
  <2>1. conns[c].pc = "store"
    BY <1>8 DEF ResolveStore, At
  <2>2. CASE inFlight[s] = None
    <3>1. conns'[c] = [conns[c] EXCEPT !.pc = "await", !.awaits = c]
      BY <1>8, <2>2 DEF ResolveStore
    <3>2. conns'[c].pc = "await" /\ conns'[c].awaits = c /\ conns'[c].spec = conns[c].spec
      BY <1>1, <3>1 DEF Started
    <3>3. QED
      BY <1>4, <1>8, <2>1, <2>2, <3>2 DEF ResolveStore
  <2>3. CASE inFlight[s] # None
    <3>1. conns' = Moved(c, "reload") /\ UNCHANGED <<inFlight, tasks>>
      BY <1>8, <2>3 DEF ResolveStore
    <3>2. conns'[c].pc = "reload" /\ Kept
      BY <1>2, <3>1 DEF Pcs
    <3>3. QED
      BY <1>4, <1>8, <2>1, <3>1, <3>2
  <2>4. QED
    BY <2>2, <2>3
<1>9. CASE ResolveReload(c)
  <2>1. conns[c].pc = "reload" /\ UNCHANGED inFlight
    BY <1>9 DEF ResolveReload, At
  <2>2. CASE inFlight[s] = None
    BY <1>4, <1>9, <2>1, <2>2 DEF ResolveReload
  <2>3. CASE inFlight[s] # None
    <3>1. Subscribe(c, inFlight[s]) /\ UNCHANGED agent
      BY <1>9, <2>3 DEF ResolveReload
    <3>2. conns'[c].spec = conns[c].spec /\ Joined(c, inFlight[s])
      BY <1>3, <2>3, <3>1
    <3>3. QED
      BY <1>4, <1>9, <2>1, <2>3, <3>1, <3>2
  <2>4. QED
    BY <2>2, <2>3
<1>10. ASSUME NEW pc \in {"dial", "attach", "fail", "notify", "done"}, conns' = Moved(c, pc)
      PROVE  conns'[c].pc = pc /\ Kept
  BY <1>2, <1>10 DEF Pcs
<1>11. CASE Handshake(c)
  <2>1. conns[c].pc = "dial"
    BY <1>11 DEF Handshake, At
  <2>2. \/ conns' = Moved(c, "attach") /\ clients'[c].state = "open"
        \/ conns' = Moved(c, "fail") /\ clients'[c].state = "closed"
    BY <1>11 DEF Handshake
  <2>3. /\ Kept
        /\ \/ conns'[c].pc = "attach" /\ clients'[c].state = "open"
           \/ conns'[c].pc = "fail" /\ clients'[c].state = "closed"
    BY <1>10, <2>2
  <2>4. QED
    BY <1>4, <1>11, <2>1, <2>3
<1>12. CASE Record(c)
  BY <1>4, <1>10, <1>12 DEF Record, At
<1>13. CASE Attach(c)
  BY <1>4, <1>10, <1>13 DEF Attach, At
<1>14. CASE RecordConnectionError(c)
  BY <1>4, <1>10, <1>14 DEF RecordConnectionError, At
<1>15. CASE Notify(c)
  BY <1>4, <1>10, <1>15 DEF Notify, At
<1>16. QED
  BY <1>5, <1>6, <1>7, <1>8, <1>9, <1>11, <1>12, <1>13, <1>14, <1>15 DEF ConnectStep

\* The resolver's goroutine wakes those on its list, and no others.
LEMMA ResolverMoves ==
  ASSUME Shapes, NEW t \in Conns, TaskEnds(t),
         \A c \in tasks[t].subscribers : conns[c].pc = "await"
  PROVE  /\ tasks[t].subscribers \in SUBSET Conns
         /\ tasks' \in [Conns -> Results] /\ tasks'[t].state = "done"
         /\ \A u \in Conns \ {t} : tasks'[u] = tasks[u]
         /\ conns' \in [Conns -> Blank \cup Started]
         /\ \A c \in Conns \ tasks[t].subscribers : conns'[c] = conns[c]
         /\ \A c \in tasks[t].subscribers :
              /\ conns'[c] \in Started /\ conns'[c].pc = "resolved"
              /\ conns'[c].server = conns[c].server /\ conns'[c].spec = conns[c].spec
              /\ conns'[c].awaits = conns[c].awaits
<1> USE DEF Shapes
<1>1. tasks[t].subscribers \in SUBSET Conns
  <2>1. tasks[t] \in [state : {"running"}, subscribers : SUBSET Conns]
    BY DEF TaskEnds, Results
  <2>2. QED
    BY <2>1
<1>2. PICK ok \in BOOLEAN :
        /\ tasks' = [tasks EXCEPT ![t] = [state |-> "done", ready |-> ok]]
        /\ conns' = [c \in Conns |-> IF c \in tasks[t].subscribers
                         THEN [conns[c] EXCEPT !.pc = "resolved", !.ready = ok] ELSE conns[c]]
  BY DEF TaskEnds
<1>3. [state |-> "done", ready |-> ok] \in Results
  BY DEF Results
<1>4. tasks' \in [Conns -> Results] /\ tasks'[t].state = "done"
        /\ \A u \in Conns \ {t} : tasks'[u] = tasks[u]
  BY <1>2, <1>3
<1>5. ASSUME NEW c \in tasks[t].subscribers
      PROVE  /\ conns'[c] \in Started /\ conns'[c].pc = "resolved"
             /\ conns'[c].server = conns[c].server /\ conns'[c].spec = conns[c].spec
             /\ conns'[c].awaits = conns[c].awaits
  <2>1. c \in Conns /\ conns[c] \in Started
    BY <1>1, Living
  <2>2. conns'[c] = [conns[c] EXCEPT !.pc = "resolved", !.ready = ok]
    BY <1>2, <2>1
  <2>3. QED
    BY <2>1, <2>2 DEF Started, Pcs
<1>6. conns' \in [Conns -> Blank \cup Started]
  <2>1. \A c \in Conns : conns'[c] \in Blank \cup Started
    BY <1>2, <1>5
  <2>2. conns' = [c \in Conns |-> conns'[c]]
    BY <1>2
  <2>3. QED
    BY <2>1, <2>2
<1>7. QED
  BY <1>1, <1>2, <1>4, <1>5, <1>6

\* The task a connect waits for, or has got its result from, was started by a connect.
LEMMA Awaiting ==
  ASSUME Shapes, Resolving, NEW c \in Conns, conns[c].pc \notin {"free", "done"}
  PROVE  conns[c].awaits # None =>
           /\ conns[c].awaits \in Conns /\ conns[conns[c].awaits] \in Started
           /\ tasks[conns[c].awaits].state # "none"
           /\ conns[conns[c].awaits].pc \notin Early
<1>1. conns[c].awaits \in Conns \cup {None}
  BY Living DEF Shapes
<1>2. QED
  BY <1>1 DEF Resolving

\* So does every step of a connect.
LEMMA ShapesConnect ==
  ASSUME Shapes, Resolving, NEW c \in Conns, ConnectStep(c)
  PROVE  Shapes'
<1> USE DEF Shapes, rest, desktopVars
<1>1. /\ conns[c] \in Started /\ conns[c].server \in Servers /\ agent = "up"
      /\ conns' \in [Conns -> Blank \cup Started]
  BY ConnectMoves, Living
<1>2. CASE ReadSpec(c)
  BY <1>1, <1>2 DEF ReadSpec
<1>3. CASE Lookup(c)
  BY <1>1, <1>3 DEF Lookup, Connected
<1>4. ASSUME NEW t \in Conns, tasks[t].state # "none", Subscribe(c, t)
      PROVE  tasks' \in [Conns -> Results]
  <2>1. CASE tasks[t].state = "done"
    BY <1>4, <2>1 DEF Subscribe
  <2>2. CASE tasks[t].state = "running"
    <3>1. tasks[t] \in [state : {"running"}, subscribers : SUBSET Conns]
      BY <2>2 DEF Results
    <3>2. [tasks[t] EXCEPT !.subscribers = @ \cup {c}] \in Results
      BY <3>1 DEF Results
    <3>3. tasks' = [tasks EXCEPT ![t] = [tasks[t] EXCEPT !.subscribers = @ \cup {c}]]
      BY <1>4, <2>2 DEF Subscribe
    <3>4. QED
      BY <3>2, <3>3
  <2>3. QED
    BY <1>4, <2>1, <2>2 DEF Results
<1>5. CASE ResolveLoad(c)
  BY <1>1, <1>4, <1>5 DEF ResolveLoad, Resolving
<1>6. CASE ResolveStore(c)
  <2>1. [state |-> "running", subscribers |-> {c}] \in Results
    BY DEF Results
  <2>2. QED
    BY <1>1, <1>6, <2>1 DEF ResolveStore
<1>7. CASE ResolveReload(c)
  BY <1>1, <1>4, <1>7 DEF ResolveReload, Resolving
<1>8. CASE Record(c)
  <2> DEFINE s == conns[c].server
  <2>1. CASE Registered(s)
    <3>1. entries[s] \in Entries
      BY <1>1, <2>1, Registering
    <3>2. CASE conns[c].ready
      <4>1. conns[conns[c].awaits].spec \in Nat
        BY <1>8, Awaiting, Living DEF Record, At, Resolving
      <4>2. [entries[s] EXCEPT !.ready = conns[conns[c].awaits].spec] \in Entries
        BY <3>1, <4>1 DEF Entries
      <4>3. entries' = [entries EXCEPT ![s] = [entries[s] EXCEPT !.ready = conns[conns[c].awaits].spec]]
        BY <1>8, <2>1, <3>2 DEF Record
      <4>4. QED
        BY <1>1, <1>8, <4>2, <4>3 DEF Record
    <3>3. CASE ~conns[c].ready
      <4>1. [entries[s] EXCEPT !.ready = 0, !.failed = TRUE] \in Entries
        BY <3>1 DEF Entries
      <4>2. entries' = [entries EXCEPT ![s] = [entries[s] EXCEPT !.ready = 0, !.failed = TRUE]]
        BY <1>8, <2>1, <3>3 DEF Record
      <4>3. QED
        BY <1>1, <1>8, <4>1, <4>2 DEF Record
    <3>4. QED
      BY <3>2, <3>3
  <2>2. CASE ~Registered(s)
    BY <1>1, <1>8, <2>2 DEF Record
  <2>3. QED
    BY <2>1, <2>2
<1>9. CASE Handshake(c)
  <2>1. LaunchLine(c) \in Nat
    BY <1>1, <1>9, Awaiting, Living DEF Handshake, At, LaunchLine
  <2>2. ASSUME NEW state \in ClientStates PROVE [state |-> state, spec |-> LaunchLine(c)] \in Clients
    BY <2>1 DEF Clients
  <2>3. clients' \in [Conns -> Clients]
    BY <1>9, <2>2 DEF Handshake, ClientStates
  <2>4. QED
    BY <1>1, <1>9, <2>3 DEF Handshake
<1>10. CASE Attach(c)
  <2> DEFINE s == conns[c].server
  <2>1. CASE Registered(s)
    <3>1. entries[s] \in Entries
      BY <1>1, <2>1, Registering
    <3>2. [entries[s] EXCEPT !.client = c, !.connected = TRUE, !.failed = FALSE] \in Entries
      BY <3>1 DEF Entries
    <3>3. QED
      BY <1>1, <1>10, <2>1, <3>2 DEF Attach
  <2>2. CASE ~Registered(s)
    BY <1>1, <1>10, <2>2 DEF Attach
  <2>3. QED
    BY <2>1, <2>2
<1>11. CASE RecordConnectionError(c)
  <2> DEFINE s == conns[c].server
  <2>1. CASE Registered(s)
    <3>1. entries[s] \in Entries
      BY <1>1, <2>1, Registering
    <3>2. [entries[s] EXCEPT !.connected = FALSE, !.failed = TRUE] \in Entries
      BY <3>1 DEF Entries
    <3>3. QED
      BY <1>1, <1>11, <2>1, <3>2 DEF RecordConnectionError
  <2>2. CASE ~Registered(s)
    BY <1>1, <1>11, <2>2 DEF RecordConnectionError
  <2>3. QED
    BY <2>1, <2>2
<1>12. CASE Notify(c)
  BY <1>1, <1>12 DEF Notify, Connected
<1>13. QED
  BY <1>2, <1>3, <1>5, <1>6, <1>7, <1>8, <1>9, <1>10, <1>11, <1>12 DEF ConnectStep

\* Every step keeps what the records hold.
LEMMA ShapesStep == IInv /\ [Next]_vars => Shapes'
<1> SUFFICES ASSUME Shapes, Resolving, [Next]_vars PROVE Shapes'
  BY DEF IInv
<1>1. ASSUME NEW c \in Conns, TaskEnds(c) PROVE Shapes'
  <2>1. \A d \in tasks[c].subscribers : conns[d].pc = "await"
    BY <1>1 DEF TaskEnds, Resolving
  <2>2. tasks' \in [Conns -> Results] /\ conns' \in [Conns -> Blank \cup Started]
    BY <1>1, <2>1, ResolverMoves
  <2>3. QED
    BY <1>1, <2>2 DEF TaskEnds, Shapes, rest, desktopVars
<1>2. ASSUME NEW c \in Conns, TaskLeaves(c) PROVE Shapes'
  BY <1>2 DEF TaskLeaves, Shapes, rest, desktopVars
<1>3. ASSUME NEW c \in Conns, ServerDies(c) PROVE Shapes'
  <2>1. clients[c] \in Clients
    BY DEF Shapes
  <2>2. [clients[c] EXCEPT !.state = "dead"] \in Clients
    BY <2>1 DEF Clients, ClientStates
  <2>3. QED
    BY <1>3, <2>2 DEF ServerDies, Shapes, rest, desktopVars
<1>4. CASE UNCHANGED vars
  BY <1>4 DEF Shapes, vars
<1>5. QED
  BY <1>1, <1>2, <1>3, <1>4, ShapesDesktop, ShapesConnect DEF Next, ResolverStep

(***************************************************************************)
(* Steps: entries and their clients.                                       *)
(***************************************************************************)

\* Unless the agent starts anew, a connect is reused by nobody: once it is started it
\* keeps its server, and it is over for good once it has handed its client over.
LEMMA ConnectsGoOn ==
  ASSUME Shapes, Resolving, [Next]_vars, ~Restart, NEW c \in Conns, conns[c] \in Started
  PROVE  /\ conns'[c] \in Started /\ conns'[c].server = conns[c].server
         /\ conns[c].pc \in {"notify", "done"} => conns'[c].pc \in {"notify", "done"}
<1> USE DEF Shapes
<1>1. conns[c].pc # "free"
  BY DEF Started
<1>2. ASSUME NEW S \in SUBSET Servers, Launch(S) PROVE conns'[c] = conns[c]
  BY <1>1, <1>2, Launching
<1>3. CASE Bootstrap
  BY <1>2, <1>3 DEF Bootstrap
<1>4. CASE CloseOld
  <2>1. op.server \in Servers \/ ~op.enabled \/ conns' = conns
    BY <1>4 DEF CloseOld, Requests
  <2>2. QED
    BY <1>2, <1>4, <2>1 DEF CloseOld
<1>5. ASSUME NEW s \in Servers, \E enabled \in BOOLEAN : Register(s, enabled)
      PROVE  conns'[c] = conns[c]
  BY <1>2, <1>5 DEF Register
<1>6. ASSUME NEW s \in Servers, \E flag \in {"on", "off"} : SetEnabled(s, flag)
      PROVE  conns'[c] = conns[c]
  BY <1>2, <1>6 DEF SetEnabled, Connect, Disconnect, Wedge
<1>7. ASSUME NEW s \in Servers, RetryResolution(s) \/ CallTool(s) PROVE conns'[c] = conns[c]
  BY <1>2, <1>7 DEF RetryResolution, CallTool, Connect
<1>8. ASSUME NEW d \in Conns, ConnectStep(d)
      PROVE  /\ conns'[c] \in Started /\ conns'[c].server = conns[c].server
             /\ conns[c].pc \in {"notify", "done"} => conns'[c].pc \in {"notify", "done"}
  <2>1. CASE c # d
    BY <1>8, <2>1, ConnectMoves
  <2>2. CASE c = d
    <3>1. conns'[c] \in Started /\ conns'[c].server = conns[c].server
      BY <1>8, <2>2, ConnectMoves
    <3>2. conns[c].pc \in {"notify", "done"} => Notify(c)
      BY <1>8, <2>2 DEF ConnectStep, ReadSpec, Lookup, ResolveLoad, ResolveStore, ResolveReload,
         Record, Handshake, Attach, RecordConnectionError, At
    <3>3. Notify(c) => conns'[c].pc = "done"
      BY Moving DEF Notify, At, Moved, Pcs, Started
    <3>4. QED
      BY <3>1, <3>2, <3>3
  <2>3. QED
    BY <2>1, <2>2
<1>9. ASSUME NEW d \in Conns, TaskEnds(d)
      PROVE  /\ conns'[c] \in Started /\ conns'[c].server = conns[c].server
             /\ conns[c].pc \in {"notify", "done"} => conns'[c].pc \in {"notify", "done"}
  <2>1. \A e \in tasks[d].subscribers : conns[e].pc = "await"
    BY <1>9 DEF TaskEnds, Resolving
  <2>2. QED
    BY <1>9, <2>1, ResolverMoves
<1>10. CASE UNCHANGED conns
  BY <1>10
<1>11. QED
  BY <1>3, <1>4, <1>5, <1>6, <1>7, <1>8, <1>9, <1>10
     DEF Next, DesktopStep, ResolverStep, Announce, Update, Unregister, TaskLeaves, ServerDies, vars

\* So whoever gave an entry its client goes on having given it, if the client is kept.
LEMMA GivenStays ==
  ASSUME Shapes, Resolving, [Next]_vars, ~Restart, NEW c, NEW s, Gave(c, s),
         clients'[c].state # "none"
  PROVE  Gave(c, s)'
BY ConnectsGoOn DEF Gave

\* A client is closed, replaced or lost only by the steps that name it.
LEMMA ClientsStay ==
  ASSUME Shapes, [Next]_vars, ~Restart, NEW c \in Conns
  PROVE  \/ clients'[c] = clients[c]
         \/ CloseOld /\ op.client = c /\ clients'[c].state = "closed"
         \/ /\ \E s \in Servers : /\ Registered(s) /\ entries[s].client = c
                                  /\ Unregister(s) \/ SetEnabled(s, "off")
            /\ clients'[c].state = "closed"
         \/ Handshake(c) /\ clients'[c].state # "none"
         \/ ServerDies(c) /\ clients'[c].state = "dead"
<1> USE DEF Shapes, rest, desktopVars
<1>1. CASE CloseOld
  <2>1. op.client \in Conns \cup {None}
    BY <1>1 DEF CloseOld, Requests
  <2>2. QED
    BY <1>1, <2>1, Closing DEF CloseOld
<1>2. ASSUME NEW s \in Servers, Unregister(s)
      PROVE  clients'[c] = clients[c] \/ (Registered(s) /\ entries[s].client = c /\ clients'[c].state = "closed")
  <2>1. CASE Registered(s)
    BY <1>2, <2>1, Registering, Closing DEF Unregister
  <2>2. CASE ~Registered(s)
    BY <1>2, <2>2 DEF Unregister
  <2>3. QED
    BY <2>1, <2>2
<1>3. ASSUME NEW s \in Servers, NEW flag \in {"on", "off"}, SetEnabled(s, flag)
      PROVE  \/ clients'[c] = clients[c]
             \/ /\ Registered(s) /\ entries[s].client = c /\ flag = "off"
                /\ clients'[c].state = "closed"
  BY <1>3, Registering, Closing DEF SetEnabled, Connect, Disconnect, Wedge
<1>4. ASSUME NEW d \in Conns, Handshake(d)
      PROVE  clients'[c] = clients[c] \/ (d = c /\ clients'[c].state # "none")
  BY <1>4 DEF Handshake
<1>5. ASSUME NEW d \in Conns, ServerDies(d)
      PROVE  clients'[c] = clients[c] \/ (d = c /\ clients'[c].state = "dead")
  <2>1. clients[d] \in Clients
    OBVIOUS
  <2>2. [clients[d] EXCEPT !.state = "dead"].state = "dead"
    BY <2>1 DEF Clients
  <2>3. QED
    BY <1>5, <2>2 DEF ServerDies
<1>6. CASE UNCHANGED clients
  BY <1>6
<1>7. QED
  BY <1>1, <1>2, <1>3, <1>4, <1>5, <1>6
     DEF Next, DesktopStep, ConnectStep, ResolverStep, Bootstrap, Announce, Register, Update,
         RetryResolution, Connect, CallTool, ReadSpec, Lookup, ResolveLoad, ResolveStore, ResolveReload,
         Record, Attach, RecordConnectionError, Notify, TaskEnds, TaskLeaves, vars

\* What the step of a connect makes of an entry.
LEMMA ConnectEntries ==
  ASSUME Shapes, NEW c \in Conns, ConnectStep(c), NEW s \in Servers
  PROVE  \/ entries'[s] = entries[s]
         \/ /\ Registered(s) /\ conns[c].server = s /\ entries'[s].there
            /\ entries'[s].enabled = entries[s].enabled /\ entries'[s].spec = entries[s].spec
            /\ \/ /\ Record(c) /\ entries'[s].client = entries[s].client
                  /\ entries'[s].connected = entries[s].connected
                  /\ entries[s].failed => entries'[s].failed
                  /\ \/ conns[c].ready /\ entries'[s].ready = conns[conns[c].awaits].spec
                     \/ entries'[s].ready = 0
               \/ /\ RecordConnectionError(c) /\ entries'[s].client = entries[s].client
                  /\ ~entries'[s].connected /\ entries'[s].failed
                  /\ entries'[s].ready = entries[s].ready
               \/ /\ Attach(c) /\ entries'[s].client = c /\ entries'[s].connected
                  /\ entries'[s].ready = entries[s].ready
<1> USE DEF Shapes
<1> DEFINE e == entries[s]
<1>1. Registered(s) => e \in Entries
  BY Registering
<1>2. CASE Record(c)
  <2>1. CASE Registered(s) /\ conns[c].server = s /\ conns[c].ready
    <3>1. entries'[s] = [e EXCEPT !.ready = conns[conns[c].awaits].spec]
      BY <1>2, <2>1 DEF Record
    <3>2. QED
      BY <1>1, <1>2, <2>1, <3>1 DEF Entries
  <2>2. CASE Registered(s) /\ conns[c].server = s /\ ~conns[c].ready
    <3>1. entries'[s] = [e EXCEPT !.ready = 0, !.failed = TRUE]
      BY <1>2, <2>2 DEF Record
    <3>2. QED
      BY <1>1, <1>2, <2>2, <3>1 DEF Entries
  <2>3. CASE ~Registered(s) \/ conns[c].server # s
    BY <1>2, <2>3 DEF Record
  <2>4. QED
    BY <2>1, <2>2, <2>3
<1>3. CASE RecordConnectionError(c)
  <2>1. CASE Registered(s) /\ conns[c].server = s
    <3>1. entries'[s] = [e EXCEPT !.connected = FALSE, !.failed = TRUE]
      BY <1>3, <2>1 DEF RecordConnectionError
    <3>2. QED
      BY <1>1, <1>3, <2>1, <3>1 DEF Entries
  <2>2. CASE ~Registered(s) \/ conns[c].server # s
    BY <1>3, <2>2 DEF RecordConnectionError
  <2>3. QED
    BY <2>1, <2>2
<1>4. CASE Attach(c)
  <2>1. CASE Registered(s) /\ conns[c].server = s
    <3>1. entries'[s] = [e EXCEPT !.client = c, !.connected = TRUE, !.failed = FALSE]
      BY <1>4, <2>1 DEF Attach
    <3>2. QED
      BY <1>1, <1>4, <2>1, <3>1 DEF Entries
  <2>2. CASE ~Registered(s) \/ conns[c].server # s
    BY <1>4, <2>2 DEF Attach
  <2>3. QED
    BY <2>1, <2>2
<1>5. CASE UNCHANGED entries
  BY <1>5
<1>6. QED
  BY <1>2, <1>3, <1>4, <1>5
     DEF ConnectStep, ReadSpec, Lookup, ResolveLoad, ResolveStore, ResolveReload, Handshake, Notify

\* A client that is about to be attached is open.
LEMMA OpenStep ==
  ASSUME IInv, [Next]_vars, ~Restart, NEW c \in Conns, conns'[c].pc = "attach"
  PROVE  clients'[c].state = "open"
<1> USE DEF IInv, Shapes
<1>1. Handshake(c) \/ conns[c].pc = "attach"
  <2>1. ASSUME NEW S \in SUBSET Servers, Launch(S) PROVE conns'[c] = conns[c] \/ conns'[c].pc = "start"
    BY <2>1, Launching
  <2>2. CASE CloseOld
    <3>1. op.server \in Servers \/ ~op.enabled \/ conns' = conns
      BY <2>2 DEF CloseOld, Requests
    <3>2. QED
      BY <2>1, <2>2, <3>1 DEF CloseOld
  <2>3. CASE Bootstrap \/ \E s \in Servers : DesktopStep(s) \/ CallTool(s)
    BY <2>1, <2>3 DEF Bootstrap, DesktopStep, Register, Update, SetEnabled, Connect, Disconnect,
       Wedge, RetryResolution, Unregister, CallTool
  <2>4. ASSUME NEW d \in Conns, ConnectStep(d) PROVE conns[c].pc = "attach" \/ Handshake(c)
    <3>1. CASE d # c
      BY <2>4, <3>1, ConnectMoves
    <3>2. CASE d = c
      <4>1. ConnectStep(c) /\ conns[c].server \in Servers
        BY <2>4, <3>2, ConnectMoves, Living
      <4>2. QED
        BY <4>1, ConnectPlaces DEF Joined
    <3>3. QED
      BY <3>1, <3>2
  <2>5. ASSUME NEW t \in Conns, TaskEnds(t) PROVE conns[c].pc = "attach"
    <3>1. \A e \in tasks[t].subscribers : conns[e].pc = "await"
      BY <2>5 DEF TaskEnds, Resolving
    <3>2. QED
      BY <2>5, <3>1, ResolverMoves
  <2>6. CASE UNCHANGED conns
    BY <2>6
  <2>7. QED
    BY <2>2, <2>3, <2>4, <2>5, <2>6 DEF Next, ResolverStep, Announce, TaskLeaves, ServerDies, vars
<1>2. CASE Handshake(c)
  <2>1. ConnectStep(c)
    BY <1>2 DEF ConnectStep
  <2>2. conns[c].pc = "dial"
    BY <1>2 DEF Handshake, At
  <2>3. QED
    BY <2>1, <2>2, ConnectPlaces, ConnectMoves, Living
<1>3. CASE conns[c].pc = "attach"
  <2>1. clients[c].state = "open"
    BY <1>3 DEF Attached
  <2>2. ~(CloseOld /\ op.client = c)
    BY <1>3, ConstantsAssumption DEF CloseOld, Attached, Gave
  <2>3. \A s \in Servers : ~(Registered(s) /\ entries[s].client = c)
    BY <1>3, ConstantsAssumption DEF Attached, Gave
  <2>4. ~Handshake(c) /\ ~ServerDies(c)
    BY <1>3 DEF Handshake, At, ServerDies, InFlight
  <2>5. QED
    BY <2>1, <2>2, <2>3, <2>4, ClientsStay
<1>4. QED
  BY <1>1, <1>2, <1>3

\* No step takes a client back to where it was not built.
LEMMA BuiltStays ==
  ASSUME Shapes, [Next]_vars, ~Restart, NEW c \in Conns, clients[c].state # "none"
  PROVE  clients'[c].state # "none"
BY ClientsStay

\* What is left to show of a step.
LEMMA AttachedKept ==
  ASSUME IInv, [Next]_vars, ~Restart,
         ~booted' => \A s \in Servers : entries'[s] = Missing,
         \A s \in Servers : entries'[s].there =>
           \/ ~entries'[s].connected /\ entries'[s].client = None
           \/ /\ Registered(s) /\ entries'[s].client = entries[s].client
              /\ entries'[s].connected =>
                   entries[s].connected /\ clients'[entries[s].client].state \in {"open", "dead"}
           \/ \E c \in Conns : /\ conns[c].server = s /\ conns[c] \in Started
                              /\ conns'[c].pc = "notify" /\ clients'[c].state = "open"
                              /\ entries'[s].client = c,
         op'.kind = "close" =>
           \/ /\ op' = op /\ entries'[op.server].there
              /\ entries'[op.server].enabled = entries[op.server].enabled
              /\ entries'[op.server].connected =>
                   \/ entries[op.server].connected /\ entries'[op.server].client = entries[op.server].client
                   \/ /\ entries'[op.server].client \in Conns
                      /\ conns[entries'[op.server].client].pc = "attach"
           \/ /\ op'.server \in Servers /\ Registered(op'.server)
              /\ op'.client = entries[op'.server].client
              /\ entries'[op'.server].there /\ entries'[op'.server].enabled = op'.enabled
              /\ ~entries'[op'.server].connected
  PROVE  Attached'
<1>1. ASSUME NEW c, NEW s, Gave(c, s) PROVE Gave(c, s)'
  BY <1>1, GivenStays, BuiltStays DEF IInv, Gave
<1>2. ASSUME NEW s \in Servers, entries'[s].there
      PROVE  /\ \A c : c = entries'[s].client /\ c # None => Gave(c, s)'
             /\ entries'[s].connected => /\ entries'[s].client # None
                                        /\ clients'[entries'[s].client].state \in {"open", "dead"}
  <2>1. CASE ~entries'[s].connected /\ entries'[s].client = None
    BY <2>1
  <2>2. CASE /\ Registered(s) /\ entries'[s].client = entries[s].client
             /\ entries'[s].connected =>
                  entries[s].connected /\ clients'[entries[s].client].state \in {"open", "dead"}
    <3>1. PICK c : c = entries[s].client
      OBVIOUS
    <3>2. c # None => Gave(c, s)
      BY <2>2, <3>1 DEF IInv, Attached
    <3>3. c # None => Gave(c, s)'
      BY <1>1, <3>2
    <3>4. entries'[s].connected => c # None
      BY <2>2, <3>1 DEF IInv, Attached
    <3>5. QED
      BY <2>2, <3>1, <3>3, <3>4
  <2>3. ASSUME NEW c \in Conns, conns[c].server = s, conns[c] \in Started,
               conns'[c].pc = "notify", clients'[c].state = "open"
        PROVE  Gave(c, s)'
    BY <2>3, ConnectsGoOn DEF IInv, Gave
  <2>4. QED
    BY <1>2, <2>1, <2>2, <2>3, ConstantsAssumption
<1>3. ASSUME op'.kind = "close", NEW s, op'.server = s
      PROVE  /\ entries'[s].there
             /\ entries'[s].enabled = op'.enabled
             /\ \A c : c = op'.client /\ c # None => Gave(c, s)'
             /\ entries'[s].connected => entries'[s].client # op'.client
  <2>1. CASE /\ op' = op /\ entries'[op.server].there
             /\ entries'[op.server].enabled = entries[op.server].enabled
             /\ entries'[op.server].connected =>
                  \/ entries[op.server].connected /\ entries'[op.server].client = entries[op.server].client
                  \/ /\ entries'[op.server].client \in Conns
                     /\ conns[entries'[op.server].client].pc = "attach"
    <3>1. PICK c : c = op.client
      OBVIOUS
    <3>2. c # None => Gave(c, s)
      BY <1>3, <2>1, <3>1 DEF IInv, Attached
    <3>3. c # None => Gave(c, s)'
      BY <1>1, <3>2
    <3>4. entries'[s].connected => entries'[s].client # c
      BY <1>3, <2>1, <3>1, <3>2, ConstantsAssumption DEF IInv, Attached, Gave
    <3>5. entries'[s].there /\ entries'[s].enabled = op'.enabled
      BY <1>3, <2>1 DEF IInv, Attached
    <3>6. QED
      BY <2>1, <3>1, <3>3, <3>4, <3>5
  <2>2. CASE /\ op'.server \in Servers /\ Registered(op'.server)
             /\ op'.client = entries[op'.server].client
             /\ entries'[op'.server].there /\ entries'[op'.server].enabled = op'.enabled
             /\ ~entries'[op'.server].connected
    <3>1. PICK c : c = op'.client
      OBVIOUS
    <3>2. c # None => Gave(c, s)
      BY <1>3, <2>2, <3>1 DEF IInv, Attached
    <3>3. c # None => Gave(c, s)'
      BY <1>1, <3>2
    <3>4. QED
      BY <1>3, <2>2, <3>1, <3>3
  <2>3. QED
    BY <1>3, <2>1, <2>2
<1>4. \A c \in Conns : conns'[c].pc = "attach" => clients'[c].state = "open"
  BY OpenStep
<1>5. ASSUME NEW s \in Servers, Registered(s)'
      PROVE  /\ (entries[s].client # None => Gave(entries[s].client, s))'
             /\ (entries[s].connected => /\ entries[s].client # None
                                        /\ clients[entries[s].client].state \in {"open", "dead"})'
  <2>1. entries'[s].there
    BY <1>5 DEF Registered
  <2>2. QED
    BY <1>2, <2>1 DEF Gave
<1>6. QED
  BY <1>3, <1>4, <1>5 DEF Attached, Registered, Gave

\* Every step keeps entries and their clients together.
LEMMA AttachedStep == IInv /\ [Next]_vars => Attached'
<1> SUFFICES ASSUME IInv, [Next]_vars PROVE Attached'
  OBVIOUS
<1> USE DEF IInv, Shapes
<1>1. CASE Restart
  <2>1. booted' = booted /\ booted
    BY <1>1 DEF Restart
  <2>2. \A s \in Servers : ~entries'[s].there
    BY <1>1 DEF Restart, Missing
  <2>3. \A c \in Conns : conns'[c].pc # "attach"
    BY <1>1 DEF Restart, InFlight
  <2>4. op'.kind # "close"
    BY <1>1 DEF Restart, Idle
  <2>5. QED
    BY <2>1, <2>2, <2>3, <2>4 DEF Attached, Registered
<1>2. CASE ~Restart /\ UNCHANGED <<entries, op, booted>> /\ \A c \in Conns :
             clients[c].state \in {"open", "dead"} => clients'[c].state \in {"open", "dead"}
  <2>1. ASSUME NEW s \in Servers, entries[s].there, entries[s].connected
        PROVE  clients'[entries[s].client].state \in {"open", "dead"}
    <3>1. entries[s].client \in Conns
      BY <2>1, Registering DEF Attached, Registered
    <3>2. QED
      BY <1>2, <2>1, <3>1 DEF Attached, Registered
  <2>2. op.kind = "close" => Registered(op.server)
    BY DEF Attached
  <2>3. ~booted' => \A s \in Servers : entries'[s] = Missing
    BY <1>2 DEF Attached
  <2>4. \A s \in Servers : entries'[s].there =>
          /\ Registered(s) /\ entries'[s].client = entries[s].client
          /\ entries'[s].connected =>
               entries[s].connected /\ clients'[entries[s].client].state \in {"open", "dead"}
    BY <1>2, <2>1 DEF Registered
  <2>5. op'.kind = "close" =>
          /\ op' = op /\ entries'[op.server].there
          /\ entries'[op.server].enabled = entries[op.server].enabled
          /\ entries'[op.server].connected =>
               entries[op.server].connected /\ entries'[op.server].client = entries[op.server].client
    BY <1>2, <2>2 DEF Registered
  <2>6. QED
    BY <1>2, <2>3, <2>4, <2>5, AttachedKept
<1>3. CASE Bootstrap /\ ~Restart
  <2>1. ASSUME NEW s \in Servers, entries'[s].there
        PROVE  ~entries'[s].connected /\ entries'[s].client = None
    BY <1>3, <2>1 DEF Bootstrap, Attached, Missing, Entry
  <2>2. booted' /\ op'.kind # "close"
    BY <1>3 DEF Bootstrap, Asks, Idle
  <2>3. QED
    BY <1>3, <2>1, <2>2, AttachedKept
<1>4. CASE CloseOld /\ ~Restart
  <2>1. UNCHANGED <<entries, booted>> /\ op'.kind # "close"
    BY <1>4 DEF CloseOld, desktopVars, Idle
  <2>2. op.kind = "close" /\ op.client \in Conns \cup {None}
    BY <1>4 DEF CloseOld, Requests
  <2>3. ASSUME NEW s \in Servers, entries[s].there, entries[s].connected
        PROVE  clients'[entries[s].client].state \in {"open", "dead"}
    <3>1. PICK c \in Conns : c = entries[s].client
      BY <2>3, Registering DEF Attached, Registered
    <3>2. Gave(c, s) /\ clients[c].state \in {"open", "dead"}
      BY <2>3, <3>1, ConstantsAssumption DEF Attached, Registered
    <3>3. c # op.client
      BY <2>2, <2>3, <3>1, <3>2, ConstantsAssumption DEF Attached, Gave
    <3>4. clients'[c] = clients[c]
      BY <1>4, <2>2, <3>3, Closing DEF CloseOld
    <3>5. QED
      BY <3>1, <3>2, <3>4
  <2>4. ~booted' => \A s \in Servers : entries'[s] = Missing
    BY <2>1 DEF Attached
  <2>5. \A s \in Servers : entries'[s].there =>
          /\ Registered(s) /\ entries'[s].client = entries[s].client
          /\ entries'[s].connected =>
               entries[s].connected /\ clients'[entries[s].client].state \in {"open", "dead"}
    BY <2>1, <2>3 DEF Registered
  <2>6. QED
    BY <1>4, <2>1, <2>4, <2>5, AttachedKept
\* A request that takes one entry, and the client it had, out of service.
<1>5. ASSUME NEW s \in Servers, booted', ~Restart, op'.kind # "close", Registered(s),
             clients' = Closed(entries[s].client),
             \/ ~entries'[s].there
             \/ ~entries'[s].connected /\ entries'[s].client = None,
             \A t \in Servers \ {s} : entries'[t] = entries[t]
      PROVE  Attached'
  <2>1. entries[s].client \in Conns \cup {None}
    BY <1>5, Registering
  <2>2. ASSUME NEW t \in Servers \ {s}, entries[t].there, entries[t].connected
        PROVE  clients'[entries[t].client].state \in {"open", "dead"}
    <3>1. PICK c \in Conns : c = entries[t].client
      BY <2>2, Registering DEF Attached, Registered
    <3>2. Gave(c, t) /\ clients[c].state \in {"open", "dead"}
      BY <2>2, <3>1, ConstantsAssumption DEF Attached, Registered
    <3>3. c # entries[s].client
      BY <1>5, <2>2, <3>2, ConstantsAssumption DEF Attached, Gave
    <3>4. clients'[c] = clients[c]
      BY <1>5, <2>1, <3>3, Closing
    <3>5. QED
      BY <3>1, <3>2, <3>4
  <2>3. \A t \in Servers : entries'[t].there =>
          \/ ~entries'[t].connected /\ entries'[t].client = None
          \/ /\ Registered(t) /\ entries'[t].client = entries[t].client
             /\ entries'[t].connected =>
                  entries[t].connected /\ clients'[entries[t].client].state \in {"open", "dead"}
    BY <1>5, <2>2 DEF Registered
  <2>4. QED
    BY <1>5, <2>3, AttachedKept
\* A request that leaves every client alone, and changes one entry.
<1>6. ASSUME NEW s \in Servers, booted', ~Restart, UNCHANGED clients,
             \A t \in Servers \ {s} : entries'[t] = entries[t],
             \/ entries'[s] = entries[s]
             \/ ~entries'[s].connected /\ entries'[s].client = None
             \/ /\ Registered(s) /\ entries'[s].client = entries[s].client
                /\ entries'[s].connected => entries[s].connected,
             \/ op'.kind # "close"
             \/ /\ op'.server = s /\ Registered(s) /\ op'.client = entries[s].client
                /\ entries'[s].there /\ entries'[s].enabled = op'.enabled /\ ~entries'[s].connected
      PROVE  Attached'
  <2>1. \A t \in Servers : entries'[t].there =>
          \/ ~entries'[t].connected /\ entries'[t].client = None
          \/ /\ Registered(t) /\ entries'[t].client = entries[t].client
             /\ entries'[t].connected =>
                  entries[t].connected /\ clients'[entries[t].client].state \in {"open", "dead"}
    BY <1>6 DEF Registered, Attached
  <2>2. QED
    BY <1>6, <2>1, AttachedKept
<1>7. ASSUME NEW s \in Servers, NEW enabled \in BOOLEAN, Register(s, enabled), ~Restart
      PROVE  Attached'
  <2>1. ~entries'[s].connected /\ entries'[s].client = None
    BY <1>7 DEF Register, Entry
  <2>2. /\ booted' /\ UNCHANGED clients /\ op'.kind # "close"
        /\ \A t \in Servers \ {s} : entries'[t] = entries[t]
    BY <1>7 DEF Register, Asks, Idle
  <2>3. QED
    BY <1>6, <1>7, <2>1, <2>2
<1>8. ASSUME NEW s \in Servers, NEW flag \in {"on", "off", "absent"}, Update(s, flag), ~Restart
      PROVE  Attached'
  <2>1. booted' /\ UNCHANGED clients /\ \A t \in Servers \ {s} : entries'[t] = entries[t]
    BY <1>8 DEF Update
  <2>2. CASE Registered(s)
    <3>1. op' = [kind |-> "close", server |-> s, client |-> entries[s].client, enabled |-> flag = "on"]
      BY <1>8, <2>2 DEF Update
    <3>2. /\ entries'[s].there /\ entries'[s].enabled = (flag = "on") /\ ~entries'[s].connected
          /\ entries'[s].client = entries[s].client
      BY <1>8, <2>2 DEF Update, Entry
    <3>3. op'.server = s /\ op'.client = entries[s].client /\ op'.enabled = (flag = "on")
      BY <3>1
    <3>4. QED
      BY <1>6, <1>8, <2>1, <2>2, <3>2, <3>3
  <2>3. CASE ~Registered(s)
    <3>1. UNCHANGED <<entries, op>> /\ op.kind # "close"
      BY <1>8, <2>3 DEF Update, Asks, Idle
    <3>2. QED
      BY <1>6, <1>8, <2>1, <3>1
  <2>4. QED
    BY <2>2, <2>3
<1>9. ASSUME NEW s \in Servers, NEW flag \in {"on", "off"}, SetEnabled(s, flag), ~Restart
      PROVE  Attached'
  <2>1. /\ booted' /\ op.kind # "close"
        /\ \A t \in Servers \ {s} : entries'[t] = entries[t]
    BY <1>9 DEF SetEnabled, Asks, Idle
  <2>2. CASE flag = "on" /\ Connect(s)
    <3>1. entries'[s] = [entries[s] EXCEPT !.enabled = TRUE] /\ Registered(s)
      BY <1>9, <2>2 DEF SetEnabled, Connect
    <3>2. entries'[s].client = entries[s].client /\ entries'[s].connected = entries[s].connected
      BY <3>1, Registering DEF Entries
    <3>3. UNCHANGED <<clients, op>>
      BY <2>2 DEF Connect
    <3>4. QED
      BY <1>6, <1>9, <2>1, <3>1, <3>2, <3>3
  <2>3. CASE flag = "off" /\ Disconnect(s)
    <3>1. /\ Registered(s)
          /\ entries'[s] = [Entry(entries[s].spec, FALSE) EXCEPT !.failed = entries[s].failed]
      BY <1>9, <2>3 DEF SetEnabled, Disconnect
    <3>2. ~entries'[s].connected /\ entries'[s].client = None
      BY <3>1 DEF Entry
    <3>3. clients' = Closed(entries[s].client) /\ op'.kind # "close"
      BY <2>3 DEF Disconnect
    <3>4. QED
      BY <1>5, <1>9, <2>1, <3>1, <3>2, <3>3
  <2>4. CASE Wedge(s)
    <3>1. entries' = entries /\ UNCHANGED <<clients, op>>
      BY <1>9, <2>4 DEF SetEnabled, Wedge
    <3>2. QED
      BY <1>6, <1>9, <2>1, <3>1
  <2>5. QED
    BY <1>9, <2>2, <2>3, <2>4 DEF SetEnabled
<1>10. ASSUME NEW s \in Servers, Unregister(s), ~Restart PROVE Attached'
  <2>1. CASE Registered(s)
    <3>1. ~entries'[s].there /\ \A t \in Servers \ {s} : entries'[t] = entries[t]
      BY <1>10, <2>1 DEF Unregister, Missing
    <3>2. booted' /\ op'.kind # "close" /\ clients' = Closed(entries[s].client)
      BY <1>10, <2>1 DEF Unregister
    <3>3. QED
      BY <1>5, <1>10, <2>1, <3>1, <3>2
  <2>2. CASE ~Registered(s)
    BY <1>2, <1>10, <2>2 DEF Unregister
  <2>3. QED
    BY <2>1, <2>2
<1>11. ASSUME NEW c \in Conns, ConnectStep(c), ~Restart PROVE Attached'
  <2>1. /\ conns[c] \in Started /\ conns[c].server \in Servers
        /\ UNCHANGED <<op, booted>>
    BY <1>11, ConnectMoves, Living DEF ConnectStep, ReadSpec, Lookup, ResolveLoad, ResolveStore,
       ResolveReload, Record, Handshake, Attach, RecordConnectionError, Notify, rest, desktopVars
  <2>2. ASSUME NEW d \in Conns, NEW s \in Servers, Gave(d, s) PROVE clients'[d] = clients[d]
    BY <1>11, <2>2 DEF Gave, ConnectStep, ReadSpec, Lookup, ResolveLoad, ResolveStore,
       ResolveReload, Record, Handshake, Attach, RecordConnectionError, Notify, rest, desktopVars, At
  <2>3. ASSUME NEW s \in Servers, entries[s].there, entries[s].connected
        PROVE  clients'[entries[s].client].state \in {"open", "dead"}
    BY <2>2, <2>3, Registering, ConstantsAssumption DEF Attached, Registered
  <2>4. Attach(c) => /\ conns[c].pc = "attach" /\ conns'[c].pc = "notify"
                     /\ clients'[c].state = "open"
    <3> SUFFICES ASSUME Attach(c) PROVE conns[c].pc = "attach" /\ conns'[c].pc = "notify"
                                        /\ clients'[c].state = "open"
      OBVIOUS
    <3>1. conns[c].pc = "attach" /\ clients' = clients /\ conns' = Moved(c, "notify")
      BY DEF Attach, At
    <3>2. conns'[c].pc = "notify"
      BY <2>1, <3>1 DEF Moved, Started
    <3>3. QED
      BY <3>1, <3>2 DEF Attached
  <2>5. ASSUME NEW s \in Servers, entries'[s].there
        PROVE  \/ /\ Registered(s) /\ entries'[s].client = entries[s].client
                  /\ entries'[s].connected =>
                       entries[s].connected /\ clients'[entries[s].client].state \in {"open", "dead"}
               \/ \E d \in Conns : /\ conns[d].server = s /\ conns[d] \in Started
                                   /\ conns'[d].pc = "notify" /\ clients'[d].state = "open"
                                   /\ entries'[s].client = d
    BY <1>11, <2>1, <2>3, <2>4, <2>5, ConnectEntries DEF Registered
  <2>6. ~booted' => \A s \in Servers : entries'[s] = Missing
    <3> SUFFICES ASSUME ~booted', NEW s \in Servers PROVE entries'[s] = Missing
      OBVIOUS
    <3>1. entries[s] = Missing /\ ~Registered(s)
      BY <2>1 DEF Attached, Registered, Missing
    <3>2. QED
      BY <1>11, <3>1, ConnectEntries
  <2>7. op'.kind = "close" =>
          /\ op' = op /\ entries'[op.server].there
          /\ entries'[op.server].enabled = entries[op.server].enabled
          /\ entries'[op.server].connected =>
               \/ entries[op.server].connected /\ entries'[op.server].client = entries[op.server].client
               \/ /\ entries'[op.server].client \in Conns
                  /\ conns[entries'[op.server].client].pc = "attach"
    <3> SUFFICES ASSUME op.kind = "close"
                 PROVE  /\ entries'[op.server].there
                        /\ entries'[op.server].enabled = entries[op.server].enabled
                        /\ entries'[op.server].connected =>
                           \/ entries[op.server].connected /\ entries'[op.server].client = entries[op.server].client
                           \/ /\ entries'[op.server].client \in Conns
                              /\ conns[entries'[op.server].client].pc = "attach"
      BY <2>1
    <3>1. op.server \in Servers /\ entries[op.server].there
      BY DEF Requests, Attached, Registered
    <3>2. QED
      BY <1>11, <2>4, <3>1, ConnectEntries
  <2>8. QED
    BY <1>11, <2>5, <2>6, <2>7, AttachedKept
<1>12. ASSUME NEW c \in Conns, ServerDies(c), ~Restart PROVE Attached'
  <2>1. clients'[c].state = "dead" /\ \A d \in Conns \ {c} : clients'[d] = clients[d]
    <3>1. clients[c] \in Clients
      OBVIOUS
    <3>2. [clients[c] EXCEPT !.state = "dead"].state = "dead"
      BY <3>1 DEF Clients
    <3>3. QED
      BY <1>12, <3>2 DEF ServerDies
  <2>2. UNCHANGED <<entries, op, booted>>
    BY <1>12 DEF ServerDies, rest, desktopVars
  <2>3. QED
    BY <1>2, <1>12, <2>1, <2>2
<1>13. CASE UNCHANGED <<entries, op, booted, clients>> /\ ~Restart
  BY <1>2, <1>13
<1>14. CASE Announce /\ ~Restart
  <2>1. UNCHANGED <<entries, booted, clients>> /\ op'.kind # "close"
    BY <1>14 DEF Announce, desktopVars, Idle
  <2>2. \A s \in Servers : entries'[s].there =>
          /\ Registered(s) /\ entries'[s].client = entries[s].client
          /\ entries'[s].connected =>
               entries[s].connected /\ clients'[entries[s].client].state \in {"open", "dead"}
    BY <2>1 DEF Attached, Registered
  <2>3. ~booted' => \A s \in Servers : entries'[s] = Missing
    BY <2>1 DEF Attached
  <2>4. QED
    BY <1>14, <2>1, <2>2, <2>3, AttachedKept
<1>15. QED
  BY <1>1, <1>3, <1>4, <1>7, <1>8, <1>9, <1>10, <1>11, <1>12, <1>13, <1>14
     DEF Next, DesktopStep, ResolverStep, RetryResolution, Connect, CallTool, TaskEnds, TaskLeaves,
         vars, rest, desktopVars

(***************************************************************************)
(* Steps: the resolver.                                                    *)
(***************************************************************************)

\* A request of the desktop at most starts connects; the resolver it leaves alone.
LEMMA DesktopMoves ==
  ASSUME Shapes, \/ Bootstrap \/ CloseOld \/ Announce
                 \/ \E s \in Servers : DesktopStep(s) \/ CallTool(s)
  PROVE  /\ UNCHANGED <<tasks, inFlight>> /\ specs <= specs'
         /\ \A c \in Conns :
              \/ conns'[c] = conns[c]
              \/ /\ conns[c].pc = "free" /\ conns'[c] \in Started
                 /\ conns'[c].pc = "start" /\ conns'[c].spec = 0 /\ conns'[c].awaits = None
<1> USE DEF Shapes, desktopVars, rest
<1> DEFINE Only == \A c \in Conns :
              \/ conns'[c] = conns[c]
              \/ /\ conns[c].pc = "free" /\ conns'[c] \in Started
                 /\ conns'[c].pc = "start" /\ conns'[c].spec = 0 /\ conns'[c].awaits = None
<1>1. ASSUME NEW S \in SUBSET Servers, Launch(S) PROVE Only
  BY <1>1, Launching
<1>2. UNCHANGED conns => Only
  OBVIOUS
<1> HIDE DEF Only
<1>3. specs \in Nat
  BY ConstantsAssumption
<1>4. CASE Bootstrap
  BY <1>1, <1>3, <1>4 DEF Bootstrap, Only
<1>5. CASE CloseOld
  <2>1. op.server \in Servers \/ ~op.enabled
    BY <1>5 DEF CloseOld, Requests
  <2>2. QED
    BY <1>1, <1>2, <1>3, <1>5, <2>1 DEF CloseOld, Only
<1>6. CASE Announce
  BY <1>2, <1>3, <1>6 DEF Announce, Only
<1>7. ASSUME NEW s \in Servers, \E enabled \in BOOLEAN : Register(s, enabled)
      PROVE  UNCHANGED <<tasks, inFlight>> /\ specs <= specs' /\ Only
  BY <1>1, <1>3, <1>7 DEF Register
<1>8. ASSUME NEW s \in Servers, \E flag \in {"on", "off", "absent"} : Update(s, flag)
      PROVE  UNCHANGED <<tasks, inFlight>> /\ specs <= specs' /\ Only
  BY <1>2, <1>3, <1>8 DEF Update
<1>9. ASSUME NEW s \in Servers, \E flag \in {"on", "off"} : SetEnabled(s, flag)
      PROVE  UNCHANGED <<tasks, inFlight>> /\ specs <= specs' /\ Only
  BY <1>1, <1>2, <1>3, <1>9 DEF SetEnabled, Connect, Disconnect, Wedge
<1>10. ASSUME NEW s \in Servers, RetryResolution(s) \/ Unregister(s) \/ CallTool(s)
       PROVE  UNCHANGED <<tasks, inFlight>> /\ specs <= specs' /\ Only
  BY <1>1, <1>2, <1>3, <1>10 DEF RetryResolution, Connect, Unregister, CallTool
<1>11. QED
  BY <1>4, <1>5, <1>6, <1>7, <1>8, <1>9, <1>10 DEF DesktopStep, Only

\* The steps of a connect leave the desktop's side alone.
LEMMA ConnectFrame ==
  ASSUME NEW c \in Conns, ConnectStep(c)
  PROVE  UNCHANGED <<desktopVars, op>>
BY DEF ConnectStep, ReadSpec, Lookup, ResolveLoad, ResolveStore, ResolveReload, Record, Handshake,
   Attach, RecordConnectionError, Notify, rest, desktopVars

\* A running task's list.
LEMMA Listing ==
  ASSUME Shapes, NEW t \in Conns, tasks[t].state = "running"
  PROVE  /\ tasks[t] \in [state : {"running"}, subscribers : SUBSET Conns]
         /\ tasks[t].subscribers \in SUBSET Conns
<1>1. tasks[t] \in [state : {"running"}, subscribers : SUBSET Conns]
  BY DEF Shapes, Results
<1>2. QED
  BY <1>1

\* Every step keeps tasks, their lists and those who wait together.
LEMMA ResolvingStep == IInv /\ [Next]_vars => Resolving'
<1> SUFFICES ASSUME IInv, [Next]_vars PROVE Resolving'
  OBVIOUS
<1> USE DEF IInv, Shapes
<1>1. CASE Restart
  <2>1. \A c \in Conns : tasks'[c].state = "none" /\ conns'[c].pc \in {"free", "done"}
    BY <1>1, Living DEF Restart, NoTask, InFlight
  <2>2. \A s \in Servers : inFlight'[s] = None
    BY <1>1 DEF Restart
  <2>3. QED
    BY <2>1, <2>2 DEF Resolving
<1>2. CASE Bootstrap \/ CloseOld \/ Announce \/ \E s \in Servers : DesktopStep(s) \/ CallTool(s)
  <2>1. /\ UNCHANGED <<tasks, inFlight>>
        /\ \A c \in Conns : \/ conns'[c] = conns[c]
                            \/ /\ conns[c].pc = "free" /\ conns'[c].pc = "start"
                               /\ conns'[c].awaits = None
    BY <1>2, DesktopMoves
  <2>2. ASSUME NEW t \in Conns, tasks[t].state # "none" PROVE conns'[t] = conns[t]
    BY <2>1, <2>2 DEF Resolving, Started
  <2>3. ASSUME NEW t \in Conns, tasks[t].state = "running"
        PROVE  \A c \in tasks[t].subscribers : conns'[c] = conns[c]
    <3>2. tasks[t].subscribers \in SUBSET Conns
      BY <2>3, Listing
    <3>3. \A c \in tasks[t].subscribers : conns[c].pc = "await"
      BY <2>3 DEF Resolving
    <3>4. QED
      BY <2>1, <3>2, <3>3
  <2>4. ASSUME NEW t \in Conns
        PROVE  /\ tasks'[t].state # "none" => conns'[t] \in Started /\ conns'[t].pc \notin Early
               /\ tasks'[t].state = "running" =>
                   /\ inFlight'[conns'[t].server] = t
                   /\ \A c \in tasks'[t].subscribers : conns'[c].pc = "await" /\ conns'[c].awaits = t
    BY <2>1, <2>2, <2>3 DEF Resolving
  <2>5. ASSUME NEW s \in Servers, inFlight'[s] # None
        PROVE  tasks'[inFlight'[s]].state # "none" /\ conns'[inFlight'[s]].server = s
    <3>1. inFlight[s] \in Conns /\ tasks[inFlight[s]].state # "none" /\ conns[inFlight[s]].server = s
      BY <2>1, <2>5 DEF Resolving
    <3>2. QED
      BY <2>1, <2>2, <3>1
  <2>6. ASSUME NEW c \in Conns
        PROVE  /\ conns'[c].pc = "await" =>
                   /\ conns'[c].awaits # None
                   /\ tasks'[conns'[c].awaits].state = "running"
                   /\ c \in tasks'[conns'[c].awaits].subscribers
               /\ conns'[c].pc = "resolved" => conns'[c].awaits # None
               /\ conns'[c].pc \notin {"free", "done"} /\ conns'[c].awaits # None =>
                   tasks'[conns'[c].awaits].state # "none"
    BY <2>1 DEF Resolving
  <2>7. QED
    BY <2>4, <2>5, <2>6 DEF Resolving
<1>3. ASSUME NEW c \in Conns, ConnectStep(c) PROVE Resolving'
  <2>1. PICK s \in Servers : conns[c].server = s
    BY <1>3, ConnectMoves, Living
  <2>2. /\ conns[c] \in Started /\ conns[c].pc \notin {"free", "done"}
        /\ \A d \in Conns \ {c} : conns'[d] = conns[d]
        /\ conns'[c] \in Started /\ conns'[c].server = s
    BY <1>3, <2>1, ConnectMoves
  \* The connect itself waits for nothing it did not wait for; the resolver is idle.
  <2>3. CASE /\ UNCHANGED <<tasks, inFlight>>
             /\ conns[c].pc # "await" /\ conns'[c].pc \notin {"await", "resolved"}
             /\ conns'[c].awaits = conns[c].awaits
             /\ conns[c].pc \notin Early => conns'[c].pc \notin Early
    <3>1. ASSUME NEW t \in Conns
          PROVE  /\ tasks[t].state # "none" => conns'[t] \in Started /\ conns'[t].pc \notin Early
                 /\ tasks[t].state = "running" =>
                     /\ inFlight[conns'[t].server] = t
                     /\ \A d \in tasks[t].subscribers : conns'[d].pc = "await" /\ conns'[d].awaits = t
      <4>1. tasks[t].state = "running" => \A d \in tasks[t].subscribers : conns'[d] = conns[d]
        BY <2>2, <2>3, Listing DEF Resolving
      <4>2. conns'[t] \in Started <=> conns[t] \in Started
        BY <2>2
      <4>3. conns'[t].server = conns[t].server
        BY <2>1, <2>2
      <4>4. QED
        BY <2>2, <2>3, <4>1, <4>2, <4>3 DEF Resolving
    <3>2. ASSUME NEW r \in Servers, inFlight[r] # None
          PROVE  tasks[inFlight[r]].state # "none" /\ conns'[inFlight[r]].server = r
      <4>1. inFlight[r] \in Conns /\ tasks[inFlight[r]].state # "none" /\ conns[inFlight[r]].server = r
        BY <3>2 DEF Resolving
      <4>2. QED
        BY <2>1, <2>2, <4>1
    <3>3. ASSUME NEW d \in Conns
          PROVE  /\ conns'[d].pc = "await" =>
                     /\ conns'[d].awaits # None
                     /\ tasks[conns'[d].awaits].state = "running"
                     /\ d \in tasks[conns'[d].awaits].subscribers
                 /\ conns'[d].pc = "resolved" => conns'[d].awaits # None
                 /\ conns'[d].pc \notin {"free", "done"} /\ conns'[d].awaits # None =>
                     tasks[conns'[d].awaits].state # "none"
      BY <2>2, <2>3 DEF Resolving
    <3>4. QED
      BY <2>3, <3>1, <3>2, <3>3 DEF Resolving
  <2>4. CASE /\ ResolveStore(c) /\ conns[c].pc = "store" /\ inFlight[s] = None
             /\ inFlight' = [inFlight EXCEPT ![s] = c]
             /\ tasks' = [tasks EXCEPT ![c] = [state |-> "running", subscribers |-> {c}]]
             /\ conns'[c].pc = "await" /\ conns'[c].awaits = c
    <3>1. tasks[c].state = "none"
      BY <2>4 DEF Resolving, Early
    <3>2. /\ tasks'[c].state = "running" /\ tasks'[c].subscribers = {c}
          /\ \A u \in Conns \ {c} : tasks'[u] = tasks[u]
          /\ inFlight'[s] = c /\ \A r \in Servers \ {s} : inFlight'[r] = inFlight[r]
      BY <2>4
    <3>3. ASSUME NEW t \in Conns
          PROVE  /\ tasks'[t].state # "none" => conns'[t] \in Started /\ conns'[t].pc \notin Early
                 /\ tasks'[t].state = "running" =>
                     /\ inFlight'[conns'[t].server] = t
                     /\ \A d \in tasks'[t].subscribers : conns'[d].pc = "await" /\ conns'[d].awaits = t
      <4>1. CASE t = c
        BY <2>2, <2>4, <3>2, <4>1 DEF Early
      <4>2. CASE t # c
        <5>1. tasks[t].state = "running" => \A d \in tasks[t].subscribers : conns'[d] = conns[d]
          BY <2>2, <2>4, Listing DEF Resolving
        <5>2. tasks[t].state # "none" => conns[t] \in Started /\ conns[t].server \in Servers
          BY Living DEF Resolving
        <5>3. tasks[t].state = "running" => inFlight[conns[t].server] = t /\ conns[t].server # s
          BY <2>4, ConstantsAssumption DEF Resolving
        <5>4. conns'[t] = conns[t] /\ tasks'[t] = tasks[t]
          BY <2>2, <3>2, <4>2
        <5>5. tasks[t].state = "running" => inFlight'[conns[t].server] = t
          BY <3>2, <5>2, <5>3
        <5>6. QED
          BY <5>1, <5>4, <5>5 DEF Resolving
      <4>3. QED
        BY <4>1, <4>2
    <3>4. ASSUME NEW r \in Servers, inFlight'[r] # None
          PROVE  tasks'[inFlight'[r]].state # "none" /\ conns'[inFlight'[r]].server = r
      <4>1. CASE r = s
        BY <2>2, <3>2, <4>1
      <4>2. CASE r # s
        <5>1. inFlight'[r] = inFlight[r] /\ inFlight[r] \in Conns
          BY <3>2, <3>4, <4>2
        <5>2. tasks[inFlight[r]].state # "none" /\ conns[inFlight[r]].server = r
          BY <3>4, <5>1 DEF Resolving
        <5>3. QED
          BY <2>2, <3>1, <3>2, <5>1, <5>2
      <4>3. QED
        BY <4>1, <4>2
    <3>5. ASSUME NEW d \in Conns
          PROVE  /\ conns'[d].pc = "await" =>
                     /\ conns'[d].awaits # None
                     /\ tasks'[conns'[d].awaits].state = "running"
                     /\ d \in tasks'[conns'[d].awaits].subscribers
                 /\ conns'[d].pc = "resolved" => conns'[d].awaits # None
                 /\ conns'[d].pc \notin {"free", "done"} /\ conns'[d].awaits # None =>
                     tasks'[conns'[d].awaits].state # "none"
      <4>1. CASE d = c
        BY <2>4, <3>2, <4>1, ConstantsAssumption
      <4>2. CASE d # c
        <5>1. conns'[d] = conns[d]
          BY <2>2, <4>2
        <5>2. conns[d].pc \notin {"free", "done"} => conns[d].awaits \in Conns \cup {None}
          BY Living
        <5>3. QED
          BY <3>1, <3>2, <5>1, <5>2 DEF Resolving
      <4>3. QED
        BY <4>1, <4>2
    <3>6. QED
      BY <3>3, <3>4, <3>5 DEF Resolving
  <2>5. CASE /\ conns[c].pc \in {"load", "reload"} /\ UNCHANGED inFlight
             /\ inFlight[s] # None /\ Joined(c, inFlight[s])
    <3>1. PICK t \in Conns : t = inFlight[s]
      BY <2>5
    <3>2. tasks[t].state # "none" /\ conns[t].server = s /\ tasks[c].state = "none"
      BY <2>5, <3>1 DEF Resolving, Early
    <3>3. CASE tasks[t].state = "done"
      <4>1. conns'[c].awaits = t /\ conns'[c].pc = "resolved" /\ tasks' = tasks
        BY <2>5, <3>1, <3>3 DEF Joined
      <4>2. ASSUME NEW u \in Conns
            PROVE  /\ tasks[u].state # "none" => conns'[u] = conns[u]
                   /\ tasks[u].state = "running" => \A d \in tasks[u].subscribers : conns'[d] = conns[d]
        BY <2>2, <2>5, <3>2, Listing DEF Resolving
      <4>3. ASSUME NEW r \in Servers, inFlight[r] # None
            PROVE  tasks[inFlight[r]].state # "none" /\ conns'[inFlight[r]].server = r
        BY <4>2, <4>3 DEF Resolving
      <4>4. ASSUME NEW d \in Conns
            PROVE  /\ conns'[d].pc = "await" =>
                       /\ conns'[d].awaits # None
                       /\ tasks[conns'[d].awaits].state = "running"
                       /\ d \in tasks[conns'[d].awaits].subscribers
                   /\ conns'[d].pc = "resolved" => conns'[d].awaits # None
                   /\ conns'[d].pc \notin {"free", "done"} /\ conns'[d].awaits # None =>
                       tasks[conns'[d].awaits].state # "none"
        <5>1. CASE d = c
          BY <3>2, <4>1, <5>1, ConstantsAssumption
        <5>2. CASE d # c
          BY <2>2, <5>2 DEF Resolving
        <5>3. QED
          BY <5>1, <5>2
      <4>5. QED
        BY <2>5, <4>1, <4>2, <4>3, <4>4 DEF Resolving
    <3>4. CASE tasks[t].state = "running"
      <4>1. /\ conns'[c].awaits = t /\ conns'[c].pc = "await"
            /\ tasks' = [tasks EXCEPT ![t].subscribers = @ \cup {c}]
        BY <2>5, <3>1, <3>4 DEF Joined
      <4>2. /\ tasks'[t].state = "running" /\ tasks'[t].subscribers = tasks[t].subscribers \cup {c}
            /\ \A u \in Conns \ {t} : tasks'[u] = tasks[u]
        <5>1. tasks[t] \in [state : {"running"}, subscribers : SUBSET Conns]
          BY <3>4, Listing
        <5>2. tasks'[t] = [tasks[t] EXCEPT !.subscribers = @ \cup {c}]
          BY <4>1
        <5>3. QED
          BY <4>1, <5>1, <5>2
      <4>3. ASSUME NEW u \in Conns
            PROVE  /\ tasks[u].state # "none" => conns'[u] = conns[u]
                   /\ tasks[u].state = "running" => \A d \in tasks[u].subscribers : conns'[d] = conns[d]
        BY <2>2, <2>5, <3>2, Listing DEF Resolving
      <4>4. ASSUME NEW u \in Conns
            PROVE  /\ tasks'[u].state # "none" => conns'[u] \in Started /\ conns'[u].pc \notin Early
                   /\ tasks'[u].state = "running" =>
                       /\ inFlight[conns'[u].server] = u
                       /\ \A d \in tasks'[u].subscribers : conns'[d].pc = "await" /\ conns'[d].awaits = u
        <5>1. CASE u = t
          BY <3>4, <4>1, <4>2, <4>3, <5>1 DEF Resolving
        <5>2. CASE u # t
          BY <4>2, <4>3, <5>2 DEF Resolving
        <5>3. QED
          BY <5>1, <5>2
      <4>5. ASSUME NEW r \in Servers, inFlight[r] # None
            PROVE  tasks'[inFlight[r]].state # "none" /\ conns'[inFlight[r]].server = r
        BY <4>2, <4>3, <4>5 DEF Resolving
      <4>6. ASSUME NEW d \in Conns
            PROVE  /\ conns'[d].pc = "await" =>
                       /\ conns'[d].awaits # None
                       /\ tasks'[conns'[d].awaits].state = "running"
                       /\ d \in tasks'[conns'[d].awaits].subscribers
                   /\ conns'[d].pc = "resolved" => conns'[d].awaits # None
                   /\ conns'[d].pc \notin {"free", "done"} /\ conns'[d].awaits # None =>
                       tasks'[conns'[d].awaits].state # "none"
        <5>1. CASE d = c
          BY <4>1, <4>2, <5>1, ConstantsAssumption
        <5>2. CASE d # c
          <6>1. conns[d].pc \notin {"free", "done"} => conns[d].awaits \in Conns \cup {None}
            BY Living
          <6>2. QED
            BY <2>2, <4>2, <5>2, <6>1 DEF Resolving
        <5>3. QED
          BY <5>1, <5>2
      <4>7. QED
        BY <2>5, <4>4, <4>5, <4>6 DEF Resolving
    <3>5. QED
      BY <3>2, <3>3, <3>4 DEF Results
  <2>6. ReadSpec(c) \/ Lookup(c) \/ Record(c) \/ Handshake(c) \/ Attach(c)
          \/ RecordConnectionError(c) \/ Notify(c) => UNCHANGED <<tasks, inFlight>>
    BY DEF Lookup, Record, Handshake, Attach, RecordConnectionError, Notify, ReadSpec
  <2>7. QED
    BY <1>3, <2>1, <2>2, <2>3, <2>4, <2>5, <2>6, ConnectPlaces DEF Early
<1>4. ASSUME NEW t \in Conns, TaskEnds(t) PROVE Resolving'
  <2>1. tasks[t].state = "running" /\ UNCHANGED inFlight
    BY <1>4 DEF TaskEnds
  <2>2. \A c \in tasks[t].subscribers : conns[c].pc = "await" /\ conns[c].awaits = t
    BY <2>1 DEF Resolving
  <2>3. /\ tasks[t].subscribers \in SUBSET Conns /\ tasks'[t].state = "done"
        /\ \A u \in Conns \ {t} : tasks'[u] = tasks[u]
        /\ \A c \in Conns \ tasks[t].subscribers : conns'[c] = conns[c]
        /\ \A c \in tasks[t].subscribers :
              /\ conns'[c] \in Started /\ conns'[c].pc = "resolved"
              /\ conns'[c].server = conns[c].server /\ conns'[c].awaits = conns[c].awaits
    BY <1>4, <2>2, ResolverMoves
  <2>4. ASSUME NEW u \in Conns, u # t, tasks[u].state = "running"
        PROVE  \A d \in tasks[u].subscribers : conns'[d] = conns[d]
    BY <2>2, <2>3, <2>4, Listing DEF Resolving
  <2>5. ASSUME NEW u \in Conns
        PROVE  /\ tasks'[u].state # "none" => conns'[u] \in Started /\ conns'[u].pc \notin Early
               /\ tasks'[u].state = "running" =>
                   /\ inFlight[conns'[u].server] = u
                   /\ \A d \in tasks'[u].subscribers : conns'[d].pc = "await" /\ conns'[d].awaits = u
    <3>1. tasks'[u].state # "none" => tasks[u].state # "none"
      BY <2>1, <2>3
    <3>2. tasks[u].state # "none" => conns'[u] \in Started /\ conns'[u].pc \notin Early
      BY <2>3 DEF Resolving, Early
    <3>3. conns'[u].server = conns[u].server
      BY <2>3
    <3>4. tasks'[u].state = "running" => u # t /\ tasks'[u] = tasks[u]
      BY <2>3
    <3>5. QED
      BY <2>4, <3>1, <3>2, <3>3, <3>4 DEF Resolving
  <2>6. ASSUME NEW r \in Servers, inFlight[r] # None
        PROVE  tasks'[inFlight[r]].state # "none" /\ conns'[inFlight[r]].server = r
    <3>1. inFlight[r] \in Conns /\ tasks[inFlight[r]].state # "none" /\ conns[inFlight[r]].server = r
      BY <2>6 DEF Resolving
    <3>2. QED
      BY <2>3, <3>1
  <2>7. ASSUME NEW d \in Conns
        PROVE  /\ conns'[d].pc = "await" =>
                   /\ conns'[d].awaits # None
                   /\ tasks'[conns'[d].awaits].state = "running"
                   /\ d \in tasks'[conns'[d].awaits].subscribers
               /\ conns'[d].pc = "resolved" => conns'[d].awaits # None
               /\ conns'[d].pc \notin {"free", "done"} /\ conns'[d].awaits # None =>
                   tasks'[conns'[d].awaits].state # "none"
    <3>1. CASE d \in tasks[t].subscribers
      BY <2>2, <2>3, <3>1, ConstantsAssumption
    <3>2. CASE d \notin tasks[t].subscribers
      <4>1. conns'[d] = conns[d]
        BY <2>3, <3>2
      <4>2. conns[d].pc \notin {"free", "done"} => conns[d].awaits \in Conns \cup {None}
        BY Living
      <4>3. conns[d].pc = "await" => conns[d].awaits # t
        BY <3>2 DEF Resolving
      <4>4. QED
        BY <2>3, <4>1, <4>2, <4>3 DEF Resolving
    <3>3. QED
      BY <3>1, <3>2
  <2>8. QED
    BY <2>1, <2>5, <2>6, <2>7 DEF Resolving
<1>5. ASSUME NEW t \in Conns, TaskLeaves(t) PROVE Resolving'
  <2>1. /\ tasks[t].state = "done" /\ UNCHANGED <<tasks, conns>>
        /\ inFlight' = [inFlight EXCEPT ![conns[t].server] = None]
    BY <1>5 DEF TaskLeaves
  <2>2. ASSUME NEW u \in Conns, tasks[u].state = "running" PROVE inFlight'[conns[u].server] = u
    <3>1. conns[u].server \in Servers /\ inFlight[conns[u].server] = u
      BY <2>2, Living DEF Resolving
    <3>2. conns[u].server # conns[t].server
      BY <1>5, <2>1, <2>2, <3>1 DEF TaskLeaves
    <3>3. QED
      BY <2>1, <3>1, <3>2
  <2>3. \A r \in Servers : inFlight'[r] # None => inFlight'[r] = inFlight[r]
    BY <2>1
  <2>4. QED
    BY <2>1, <2>2, <2>3 DEF Resolving
<1>6. CASE UNCHANGED <<conns, tasks, inFlight>>
  BY <1>6 DEF Resolving
<1>7. QED
  BY <1>1, <1>2, <1>3, <1>4, <1>5, <1>6 DEF Next, ResolverStep, ServerDies, vars

(***************************************************************************)
(* Steps: the book and the specifications.                                 *)
(***************************************************************************)

\* What a request of the desktop makes of an entry.
LEMMA DesktopEntries ==
  ASSUME Shapes, \/ Bootstrap \/ CloseOld \/ Announce
                 \/ \E s \in Servers : DesktopStep(s) \/ CallTool(s),
         NEW r \in Servers
  PROVE  \/ entries'[r] = entries[r] \/ entries'[r] = Missing
         \/ entries'[r].spec = specs' /\ entries'[r].ready = 0
         \/ /\ Registered(r) /\ entries'[r].spec = entries[r].spec
            /\ entries'[r].ready \in {0, entries[r].ready}
<1> USE DEF Shapes, desktopVars, rest
<1> DEFINE Goal == \/ entries'[r] = entries[r] \/ entries'[r] = Missing
                   \/ entries'[r].spec = specs' /\ entries'[r].ready = 0
                   \/ /\ Registered(r) /\ entries'[r].spec = entries[r].spec
                      /\ entries'[r].ready \in {0, entries[r].ready}
<1>1. CASE Bootstrap
  BY <1>1 DEF Bootstrap, Entry
<1>2. ASSUME NEW s \in Servers, \E enabled \in BOOLEAN : Register(s, enabled) PROVE Goal
  BY <1>2 DEF Register, Entry
<1>3. ASSUME NEW s \in Servers, NEW flag \in {"on", "off", "absent"}, Update(s, flag) PROVE Goal
  <2>1. [Entry(specs', flag = "on") EXCEPT !.client = entries[s].client].spec = specs'
        /\ [Entry(specs', flag = "on") EXCEPT !.client = entries[s].client].ready = 0
    BY DEF Entry
  <2>2. QED
    BY <1>3, <2>1 DEF Update
<1>4. ASSUME NEW s \in Servers, NEW flag \in {"on", "off"}, SetEnabled(s, flag) PROVE Goal
  <2>1. CASE Registered(s)
    <3>1. entries[s] \in Entries
      BY <2>1, Registering
    <3>2. [entries[s] EXCEPT !.enabled = TRUE].spec = entries[s].spec
          /\ [entries[s] EXCEPT !.enabled = TRUE].ready = entries[s].ready
      BY <3>1 DEF Entries
    <3>3. [Entry(entries[s].spec, FALSE) EXCEPT !.failed = entries[s].failed].spec = entries[s].spec
          /\ [Entry(entries[s].spec, FALSE) EXCEPT !.failed = entries[s].failed].ready = 0
      BY DEF Entry
    <3>4. QED
      BY <1>4, <2>1, <3>2, <3>3 DEF SetEnabled
  <2>2. CASE ~Registered(s)
    BY <1>4, <2>2 DEF SetEnabled
  <2>3. QED
    BY <2>1, <2>2
<1>5. ASSUME NEW s \in Servers, Unregister(s) PROVE Goal
  BY <1>5 DEF Unregister
<1>6. CASE UNCHANGED entries
  BY <1>6
<1>7. QED
  BY <1>1, <1>2, <1>3, <1>4, <1>5, <1>6
     DEF DesktopStep, CloseOld, Announce, RetryResolution, CallTool

\* Every step of the desktop keeps its book and the registry together.
LEMMA BookedStep == IInv /\ [Next]_vars => Booked'
<1> SUFFICES ASSUME Shapes, Booked, [Next]_vars, NEW r \in Servers, book'[r] = "none"
             PROVE  ~entries'[r].there
  BY DEF IInv, Booked, Registered
<1> USE DEF Shapes, Booked, Registered
<1>1. CASE Bootstrap
  BY <1>1 DEF Bootstrap
<1>2. CASE Restart
  BY <1>2 DEF Restart, Missing
<1>3. ASSUME NEW s \in Servers, \E enabled \in BOOLEAN : Register(s, enabled)
      PROVE  ~entries'[r].there
  BY <1>3 DEF Register
<1>4. ASSUME NEW s \in Servers, NEW flag \in {"on", "off", "absent"}, Update(s, flag)
      PROVE  ~entries'[r].there
  BY <1>4 DEF Update
<1>5. ASSUME NEW s \in Servers, NEW flag \in {"on", "off"}, SetEnabled(s, flag)
      PROVE  ~entries'[r].there
  BY <1>5 DEF SetEnabled
<1>6. ASSUME NEW s \in Servers, Unregister(s) PROVE ~entries'[r].there
  BY <1>6 DEF Unregister, Missing
<1>7. ASSUME NEW c \in Conns, ConnectStep(c) PROVE ~entries'[r].there
  <2>1. UNCHANGED book
    BY <1>7, ConnectFrame DEF desktopVars
  <2>2. QED
    BY <1>7, <2>1, ConnectEntries
<1>8. CASE UNCHANGED <<book, entries>>
  BY <1>8
<1>9. QED
  BY <1>1, <1>2, <1>3, <1>4, <1>5, <1>6, <1>7, <1>8
     DEF Next, DesktopStep, ResolverStep, CloseOld, Announce, RetryResolution, CallTool,
         TaskEnds, TaskLeaves, ServerDies, vars, rest, desktopVars

\* Every step keeps the specifications in use below the newest.
LEMMA DatedStep == IInv /\ [Next]_vars => Dated'
<1> SUFFICES ASSUME IInv, [Next]_vars PROVE Dated'
  OBVIOUS
<1> USE DEF IInv, Shapes
<1>1. specs \in Nat /\ specs >= 1
  BY ConstantsAssumption
<1>2. ASSUME NEW c \in Conns, conns[c] \in Started PROVE conns[c].spec \in 0..specs
  BY <1>1, <1>2, Living DEF Dated
<1>3. ASSUME NEW s \in Servers, Registered(s)
      PROVE  entries[s].spec \in 1..specs /\ entries[s].ready \in 0..specs
  BY <1>3 DEF Dated
<1>4. CASE Restart
  <2>1. \A s \in Servers : ~entries'[s].there
    BY <1>4 DEF Restart, Missing
  <2>2. [pc |-> "done"] \notin Started
    BY DEF Started
  <2>3. \A c \in Conns : conns'[c] \in Started => conns'[c] = conns[c]
    BY <1>4, <2>2 DEF Restart
  <2>4. specs' = specs
    BY <1>4 DEF Restart
  <2>5. QED
    BY <2>1, <2>3, <2>4 DEF Dated, Registered
<1>5. CASE Bootstrap \/ CloseOld \/ Announce \/ \E s \in Servers : DesktopStep(s) \/ CallTool(s)
  <2>1. specs' \in Nat /\ specs <= specs'
    <3>1. specs' \in 1..MaxSpecs
      BY ShapesStep
    <3>2. QED
      BY <1>5, <3>1, DesktopMoves, ConstantsAssumption
  <2>2. ASSUME NEW c \in Conns, conns'[c] \in Started PROVE conns'[c].spec <= specs'
    <3>1. CASE conns'[c] = conns[c]
      BY <1>1, <1>2, <2>1, <2>2, <3>1
    <3>2. CASE conns'[c].spec = 0
      BY <2>1, <3>2
    <3>3. QED
      BY <1>5, <3>1, <3>2, DesktopMoves
  <2>3. ASSUME NEW s \in Servers, entries'[s].there
        PROVE  entries'[s].spec \in 1..specs' /\ entries'[s].ready \in 0..specs'
    <3>1. CASE entries'[s] = entries[s]
      BY <1>1, <1>3, <2>1, <2>3, <3>1 DEF Registered
    <3>2. CASE entries'[s].spec = specs' /\ entries'[s].ready = 0
      BY <1>1, <2>1, <3>2
    <3>3. CASE /\ Registered(s) /\ entries'[s].spec = entries[s].spec
               /\ entries'[s].ready \in {0, entries[s].ready}
      BY <1>1, <1>3, <2>1, <3>3
    <3>4. QED
      BY <1>5, <2>3, <3>1, <3>2, <3>3, DesktopEntries DEF Missing
  <2>4. QED
    BY <2>2, <2>3 DEF Dated, Registered
<1>6. ASSUME NEW c \in Conns, ConnectStep(c) PROVE Dated'
  <2>1. specs' = specs
    BY <1>6, ConnectFrame DEF desktopVars
  <2>2. conns[c] \in Started /\ conns[c].pc \notin {"free", "done"} /\ conns[c].server \in Servers
    BY <1>6, ConnectMoves, Living
  <2>3. conns'[c].spec \in 0..specs
    <3>1. PICK s \in Servers : conns[c].server = s
      BY <2>2
    <3>2. \/ Registered(s) /\ conns'[c].spec = entries[s].spec
          \/ conns'[c].spec = conns[c].spec
      BY <1>6, <3>1, ConnectPlaces
    <3>3. QED
      BY <1>1, <1>2, <1>3, <2>2, <3>2
  <2>4. ASSUME NEW d \in Conns, conns'[d] \in Started PROVE conns'[d].spec <= specs
    <3>1. d # c => conns'[d] = conns[d]
      BY <1>6, ConnectMoves
    <3>2. QED
      BY <1>1, <1>2, <2>3, <2>4, <3>1
  <2>5. ASSUME NEW s \in Servers, entries'[s].there
        PROVE  entries'[s].spec \in 1..specs /\ entries'[s].ready \in 0..specs
    <3>1. CASE entries'[s] = entries[s]
      BY <1>3, <2>5, <3>1 DEF Registered
    <3>2. CASE /\ Registered(s) /\ entries'[s].spec = entries[s].spec
               /\ entries'[s].ready \in {0, entries[s].ready}
      BY <1>1, <1>3, <3>2
    <3>3. CASE /\ Registered(s) /\ entries'[s].spec = entries[s].spec
               /\ Record(c) /\ entries'[s].ready = conns[conns[c].awaits].spec
      <4>1. conns[c].pc = "resolved"
        BY <3>3 DEF Record, At
      <4>2. conns[c].awaits # None
        BY <4>1 DEF Resolving
      <4>3. conns[c].awaits \in Conns /\ conns[conns[c].awaits] \in Started
        BY <2>2, <4>2, Awaiting
      <4>4. QED
        BY <1>2, <1>3, <3>3, <4>3
    <3>4. QED
      BY <1>6, <3>1, <3>2, <3>3, ConnectEntries
  <2>6. QED
    BY <2>1, <2>4, <2>5 DEF Dated, Registered
<1>7. ASSUME NEW t \in Conns, TaskEnds(t) PROVE Dated'
  <2>1. \A d \in tasks[t].subscribers : conns[d].pc = "await"
    BY <1>7 DEF TaskEnds, Resolving
  <2>2. UNCHANGED <<entries, specs>>
    BY <1>7 DEF TaskEnds, rest, desktopVars
  <2>3. ASSUME NEW d \in Conns, conns'[d] \in Started PROVE conns'[d].spec <= specs
    <3>1. CASE d \in tasks[t].subscribers
      BY <1>1, <1>2, <1>7, <2>1, <3>1, ResolverMoves, Living
    <3>2. CASE d \notin tasks[t].subscribers
      BY <1>1, <1>2, <1>7, <2>1, <2>3, <3>2, ResolverMoves
    <3>3. QED
      BY <3>1, <3>2
  <2>4. QED
    BY <2>2, <2>3 DEF Dated, Registered
<1>8. CASE UNCHANGED <<conns, entries, specs>>
  BY <1>8 DEF Dated, Registered
<1>9. QED
  BY <1>4, <1>5, <1>6, <1>7, <1>8
     DEF Next, ResolverStep, TaskLeaves, ServerDies, vars, rest, desktopVars

(***************************************************************************)
(* Steps: who is served, and what the agents are offered.                  *)
(***************************************************************************)

\* While the desktop is served, a connect that is under way stays where it is.
LEMMA WorkGoesOn ==
  ASSUME Shapes, \/ Bootstrap \/ CloseOld \/ Announce
                 \/ \E s \in Servers : DesktopStep(s) \/ CallTool(s),
         NEW c \in Conns, conns[c].pc # "free"
  PROVE  conns'[c] = conns[c]
BY DesktopMoves

\* A client that is attached connects the server it was dialled for, and an error
\* is shown there.
LEMMA Landing ==
  ASSUME Shapes, NEW c \in Conns, NEW s \in Servers, conns[c].server = s, Registered(s)
  PROVE  /\ Attach(c) => entries'[s].connected
         /\ RecordConnectionError(c) => entries'[s].failed
<1> USE DEF Shapes
<1>1. entries[s] \in Entries
  BY Registering
<1>2. ASSUME Attach(c) PROVE entries'[s].connected
  <2>1. entries'[s] = [entries[s] EXCEPT !.client = c, !.connected = TRUE, !.failed = FALSE]
    BY <1>2 DEF Attach
  <2>2. QED
    BY <1>1, <2>1 DEF Entries
<1>3. ASSUME RecordConnectionError(c) PROVE entries'[s].failed
  <2>1. entries'[s] = [entries[s] EXCEPT !.connected = FALSE, !.failed = TRUE]
    BY <1>3 DEF RecordConnectionError
  <2>2. QED
    BY <1>1, <2>1 DEF Entries
<1>4. QED
  BY <1>2, <1>3

\* A request of the desktop that switches a server on launches a connect to it, or
\* will; the others are served as they were.
LEMMA DesktopServes ==
  ASSUME IInv, \/ Bootstrap \/ CloseOld \/ Announce
               \/ \E s \in Servers : DesktopStep(s) \/ CallTool(s),
         agent' = "up", NEW r \in Servers, entries'[r].there, entries'[r].enabled
  PROVE  /\ agent = "up"
         /\ \/ \E c \in Conns : conns'[c].pc = "start" /\ conns'[c].server = r
            \/ op'.kind = "close" /\ op'.server = r
            \/ /\ entries'[r] = entries[r]
               /\ op.kind = "close" => op.server # r
<1> USE DEF IInv, Shapes, desktopVars, rest, Registered
<1> DEFINE Goal == \/ \E c \in Conns : conns'[c].pc = "start" /\ conns'[c].server = r
                   \/ op'.kind = "close" /\ op'.server = r
                   \/ /\ entries'[r] = entries[r]
                      /\ op.kind = "close" => op.server # r
<1>1. ASSUME NEW S \in SUBSET Servers, Launch(S), r \in S PROVE Goal
  BY <1>1, Launching
<1>2. CASE Bootstrap
  <2>1. entries[r] = Missing /\ op.kind # "close"
    BY <1>2 DEF Bootstrap, Attached, Asks, Idle
  <2>2. book[r] = "on" \/ entries'[r] = entries[r]
    BY <1>2 DEF Bootstrap, Entry
  <2>3. agent = "up"
    BY <1>2 DEF Bootstrap, Asks
  <2>4. CASE book[r] = "on"
    BY <1>1, <1>2, <2>3, <2>4 DEF Bootstrap
  <2>5. QED
    BY <2>1, <2>2, <2>3, <2>4
<1>3. CASE CloseOld
  <2>1. entries' = entries /\ agent = "up"
    BY <1>3 DEF CloseOld
  <2>2. CASE op.server = r
    <3>1. op.enabled
      BY <1>3, <2>1, <2>2 DEF CloseOld, Attached
    <3>2. Launch({r})
      BY <1>3, <2>2, <3>1 DEF CloseOld
    <3>3. QED
      BY <1>1, <2>1, <3>2
  <2>3. QED
    BY <2>1, <2>2
<1>4. CASE Announce
  BY <1>4 DEF Announce
<1>5. ASSUME NEW s \in Servers, NEW enabled \in BOOLEAN, Register(s, enabled)
      PROVE  agent = "up" /\ Goal
  <2>1. agent = "up" /\ op.kind # "close"
    BY <1>5 DEF Register, Asks, Idle
  <2>2. CASE s = r
    <3>1. enabled
      BY <1>5, <2>2 DEF Register, Entry
    <3>2. QED
      BY <1>1, <1>5, <2>1, <2>2, <3>1 DEF Register
  <2>3. CASE s # r
    BY <1>5, <2>1, <2>3 DEF Register
  <2>4. QED
    BY <2>2, <2>3
<1>6. ASSUME NEW s \in Servers, NEW flag \in {"on", "off", "absent"}, Update(s, flag)
      PROVE  agent = "up" /\ Goal
  BY <1>6 DEF Update, Asks, Idle
<1>7. ASSUME NEW s \in Servers, NEW flag \in {"on", "off"}, SetEnabled(s, flag)
      PROVE  agent = "up" /\ Goal
  <2>1. agent = "up" /\ op.kind # "close"
    BY <1>7 DEF SetEnabled, Asks, Idle
  <2>2. CASE s = r
    <3>1. CASE flag = "off" /\ Disconnect(s)
      BY <1>7, <2>2, <3>1 DEF SetEnabled, Disconnect, Entry
    <3>2. CASE Connect(s)
      BY <1>1, <2>1, <2>2, <3>2 DEF Connect
    <3>3. QED
      BY <1>7, <3>1, <3>2 DEF SetEnabled, Wedge
  <2>3. CASE s # r
    BY <1>7, <2>1, <2>3 DEF SetEnabled
  <2>4. QED
    BY <2>2, <2>3
<1>8. ASSUME NEW s \in Servers, Unregister(s) PROVE agent = "up" /\ Goal
  <2>1. agent = "up" /\ op.kind # "close"
    BY <1>8 DEF Unregister, Asks, Idle
  <2>2. s # r \/ ~Registered(s)
    BY <1>8 DEF Unregister, Missing
  <2>3. QED
    BY <1>8, <2>1, <2>2 DEF Unregister
<1>9. ASSUME NEW s \in Servers, RetryResolution(s) PROVE agent = "up" /\ Goal
  BY <1>9 DEF RetryResolution, Connect, Asks, Idle
<1>10. ASSUME NEW s \in Servers, CallTool(s) PROVE agent = "up" /\ UNCHANGED <<entries, op>>
  BY <1>10 DEF CallTool
<1>11. QED
  BY <1>2, <1>3, <1>4, <1>5, <1>6, <1>7, <1>8, <1>9, <1>10 DEF DesktopStep

\* Every step leaves each enabled server served, or somebody at work on it.
LEMMA ServedStep == IInv /\ [Next]_vars => Served'
<1> DEFINE Good(r) == \/ entries'[r].connected \/ entries'[r].failed
                      \/ op'.kind = "close" /\ op'.server = r
                      \/ \E c \in Conns : conns'[c].pc \in AtWork /\ conns'[c].server = r
<1> SUFFICES ASSUME IInv, [Next]_vars, agent' = "up",
                    NEW r \in Servers, entries'[r].there, entries'[r].enabled
             PROVE  Good(r)
  BY DEF Served, Registered
<1> USE DEF IInv, Shapes
<1>1. CASE Restart
  BY <1>1 DEF Restart, Missing
<1>2. CASE Bootstrap \/ CloseOld \/ Announce \/ \E s \in Servers : DesktopStep(s) \/ CallTool(s)
  <2>1. CASE \E c \in Conns : conns'[c].pc = "start" /\ conns'[c].server = r
    BY <2>1 DEF AtWork, Pcs
  <2>2. CASE op'.kind = "close" /\ op'.server = r
    BY <2>2
  <2>3. CASE /\ agent = "up" /\ entries'[r] = entries[r]
             /\ op.kind = "close" => op.server # r
    <3>1. \/ entries[r].connected \/ entries[r].failed
          \/ \E c \in Conns : conns[c].pc \in AtWork /\ conns[c].server = r
      BY <2>3 DEF Served, Registered
    <3>2. ASSUME NEW c \in Conns, conns[c].pc \in AtWork PROVE conns'[c] = conns[c]
      BY <1>2, <3>2, WorkGoesOn DEF AtWork
    <3>3. QED
      BY <2>3, <3>1, <3>2
  <2>4. QED
    BY <1>2, <2>1, <2>2, <2>3, DesktopServes
<1>3. ASSUME NEW c \in Conns, ConnectStep(c) PROVE Good(r)
  <2>1. /\ agent = "up" /\ UNCHANGED op
        /\ \A d \in Conns \ {c} : conns'[d] = conns[d]
        /\ conns'[c].server = conns[c].server /\ conns[c] \in Started
    BY <1>3, ConnectMoves, ConnectFrame
  <2>2. /\ Registered(r) /\ entries[r].enabled
        /\ \/ entries'[r] = entries[r]
           \/ entries'[r].connected \/ entries'[r].failed
           \/ /\ entries'[r].connected = entries[r].connected
              /\ entries[r].failed => entries'[r].failed
    BY <1>3, ConnectEntries DEF Registered
  <2>3. CASE entries[r].connected \/ entries[r].failed
    BY <2>2, <2>3
  <2>4. CASE op.kind = "close" /\ op.server = r
    BY <2>1, <2>4
  <2>5. ASSUME NEW d \in Conns, conns[d].pc \in AtWork, conns[d].server = r PROVE Good(r)
    <3>1. CASE d # c
      BY <2>1, <2>5, <3>1
    <3>2. CASE d = c
      <4>1. CASE Attach(c) \/ RecordConnectionError(c)
        BY <2>2, <2>5, <3>2, <4>1, Landing
      <4>2. CASE ~Attach(c) /\ ~RecordConnectionError(c)
        <5>1. conns'[c].pc \in AtWork
          BY <1>3, <2>2, <2>5, <3>2, <4>2, ConnectPlaces DEF AtWork, Pcs, Joined
        <5>2. QED
          BY <2>1, <2>5, <3>2, <5>1
      <4>3. QED
        BY <4>1, <4>2
    <3>3. QED
      BY <3>1, <3>2
  <2>6. QED
    BY <2>1, <2>2, <2>3, <2>4, <2>5 DEF Served
<1>4. ASSUME NEW t \in Conns, TaskEnds(t) PROVE Good(r)
  <2>1. UNCHANGED <<entries, op, agent>>
    BY <1>4 DEF TaskEnds, rest
  <2>2. \A e \in tasks[t].subscribers : conns[e].pc = "await"
    BY <1>4 DEF TaskEnds, Resolving
  <2>3. ASSUME NEW c \in Conns, conns[c].pc \in AtWork
        PROVE  conns'[c].pc \in AtWork /\ conns'[c].server = conns[c].server
    BY <1>4, <2>2, <2>3, ResolverMoves DEF AtWork, Pcs
  <2>4. QED
    BY <2>1, <2>3 DEF Served, Registered
<1>5. CASE UNCHANGED <<entries, op, agent, conns>>
  BY <1>5 DEF Served, Registered
<1>6. QED
  BY <1>1, <1>2, <1>3, <1>4, <1>5
     DEF Next, ResolverStep, TaskLeaves, ServerDies, vars, rest

\* Who is connected changes only with the status of an entry.
LEMMA SameConnected ==
  ASSUME \A s \in Servers : /\ entries'[s].there /\ entries'[s].connected
                                 <=> entries[s].there /\ entries[s].connected
  PROVE  Connected' = Connected
BY DEF Connected, Registered

\* A request of the desktop that changes who is connected announces it, or launches
\* a connect that will.
LEMMA DesktopAnnounces ==
  ASSUME IInv, \/ Bootstrap \/ CloseOld \/ Announce
               \/ \E s \in Servers : DesktopStep(s) \/ CallTool(s),
         agent' = "up"
  PROVE  /\ agent = "up"
         /\ \/ surface' = Connected'
            \/ op'.kind \in {"close", "announce"}
            \/ \E c \in Conns : /\ conns'[c].pc = "start" /\ conns'[c].server \in Servers
                                /\ entries'[conns'[c].server].there
                                /\ entries'[conns'[c].server].enabled
            \/ /\ op.kind = "idle" /\ surface' = surface /\ Connected' = Connected
               /\ \A s \in Servers : Registered(s) => entries'[s] = entries[s]
<1> USE DEF IInv, Shapes, desktopVars, rest, Registered
<1> DEFINE Soon == \E c \in Conns : /\ conns'[c].pc = "start" /\ conns'[c].server \in Servers
                                    /\ entries'[conns'[c].server].there
                                    /\ entries'[conns'[c].server].enabled
           Same == /\ op.kind = "idle" /\ surface' = surface /\ Connected' = Connected
                   /\ \A s \in Servers : Registered(s) => entries'[s] = entries[s]
           Goal == \/ surface' = Connected'
                   \/ op'.kind \in {"close", "announce"}
                   \/ Soon \/ Same
<1>1. ASSUME NEW s \in Servers, Launch({s}), entries'[s].there, entries'[s].enabled PROVE Soon
  <2>1. {s} \in SUBSET Servers
    OBVIOUS
  <2>2. \A t \in {s} : \E c \in Conns : conns'[c].pc = "start" /\ conns'[c].server = t
    BY <1>1, <2>1, Launching
  <2>3. QED
    BY <1>1, <2>2
<1>2. UNCHANGED entries => Connected' = Connected
  BY DEF Connected
<1> HIDE DEF Soon
<1>3. CASE Bootstrap
  <2>1. \A s \in Servers : entries[s] = Missing
    BY <1>3 DEF Bootstrap, Attached
  <2>2. \A s \in Servers : ~(entries'[s].there /\ entries'[s].connected)
    BY <1>3, <2>1 DEF Bootstrap, Entry, Missing
  <2>3. Connected' = Connected
    BY <2>1, <2>2, SameConnected DEF Missing
  <2>4. QED
    BY <1>3, <2>1, <2>3 DEF Bootstrap, Asks, Idle, Missing
<1>4. CASE CloseOld
  <2>1. /\ agent = "up" /\ UNCHANGED entries /\ op.server \in Servers
        /\ entries[op.server].there /\ entries[op.server].enabled = op.enabled
    BY <1>4 DEF CloseOld, Attached, Requests
  <2>2. CASE op.enabled
    BY <1>1, <1>4, <2>1, <2>2 DEF CloseOld, Soon
  <2>3. CASE ~op.enabled
    BY <1>4, <2>1, <2>3 DEF CloseOld
  <2>4. QED
    BY <2>2, <2>3
<1>5. CASE Announce
  BY <1>2, <1>5 DEF Announce
<1>6. ASSUME NEW s \in Servers, NEW enabled \in BOOLEAN, Register(s, enabled)
      PROVE  agent = "up" /\ Goal
  <2>1. ~entries[s].there
    BY <1>6 DEF Register, Booked
  <2>2. \A r \in Servers \ {s} : entries'[r] = entries[r]
    BY <1>6 DEF Register
  <2>3. ~entries'[s].connected
    BY <1>6 DEF Register, Entry
  <2>4. Connected' = Connected
    BY <2>1, <2>2, <2>3, SameConnected
  <2>5. QED
    BY <1>6, <2>1, <2>2, <2>4 DEF Register, Asks, Idle
<1>7. ASSUME NEW s \in Servers, NEW flag \in {"on", "off", "absent"}, Update(s, flag)
      PROVE  agent = "up" /\ Goal
  BY <1>2, <1>7 DEF Update, Asks, Idle
<1>8. ASSUME NEW s \in Servers, NEW flag \in {"on", "off"}, SetEnabled(s, flag)
      PROVE  agent = "up" /\ Goal
  <2>1. agent = "up" /\ ~Wedge(s)
    BY <1>8 DEF SetEnabled, Asks, Wedge
  <2>2. CASE flag = "on" /\ Connect(s)
    <3>1. entries'[s] = [entries[s] EXCEPT !.enabled = TRUE]
      BY <1>8, <2>2 DEF SetEnabled, Connect
    <3>2. entries[s] \in Entries
      BY <2>2, Registering DEF Connect
    <3>3. entries'[s].there /\ entries'[s].enabled
      BY <3>1, <3>2 DEF Entries
    <3>4. QED
      BY <1>1, <2>1, <2>2, <3>3 DEF Connect
  <2>3. CASE flag = "off" /\ Disconnect(s)
    BY <2>1, <2>3 DEF Disconnect
  <2>4. QED
    BY <1>8, <2>1, <2>2, <2>3 DEF SetEnabled
<1>9. ASSUME NEW s \in Servers, RetryResolution(s) PROVE agent = "up" /\ Goal
  BY <1>1, <1>9 DEF RetryResolution, Connect, Asks
<1>10. ASSUME NEW s \in Servers, Unregister(s) PROVE agent = "up" /\ Goal
  BY <1>2, <1>10 DEF Unregister, Asks, Idle
<1>11. ASSUME NEW s \in Servers, CallTool(s) PROVE agent = "up" /\ Goal
  <2>1. agent = "up" /\ UNCHANGED <<op, entries, surface>> /\ Connected' = Connected
    BY <1>2, <1>11 DEF CallTool
  <2>2. QED
    BY <2>1 DEF Requests
<1>12. QED
  BY <1>3, <1>4, <1>5, <1>6, <1>7, <1>8, <1>9, <1>10, <1>11 DEF DesktopStep, Soon

\* Every step keeps the agents' surface up to date, or somebody at work on it.
LEMMA FollowedStep == IInv /\ [Next]_vars => Followed'
<1> DEFINE Soon(c) == \/ conns'[c].pc \in {"connecting", "notify"}
                      \/ /\ conns'[c].pc = "start"
                         /\ entries'[conns'[c].server].there /\ entries'[conns'[c].server].enabled
           Good == \/ surface' = Connected'
                   \/ op'.kind \in {"close", "announce"}
                   \/ \E c \in Conns : Soon(c)
<1> SUFFICES ASSUME IInv, [Next]_vars, agent' = "up" PROVE Good
  BY DEF Followed, Registered
<1> USE DEF IInv, Shapes
<1>1. CASE Restart
  BY <1>1 DEF Restart, Missing, Connected, Registered
<1>2. CASE Bootstrap \/ CloseOld \/ Announce \/ \E s \in Servers : DesktopStep(s) \/ CallTool(s)
  <2>1. CASE /\ agent = "up" /\ op.kind = "idle" /\ surface' = surface /\ Connected' = Connected
             /\ \A s \in Servers : Registered(s) => entries'[s] = entries[s]
    <3>1. ASSUME NEW c \in Conns, conns[c].pc \in {"start", "connecting", "notify"}
          PROVE  conns'[c] = conns[c] /\ conns[c].server \in Servers
      BY <1>2, <3>1, WorkGoesOn, Living
    <3>2. QED
      BY <2>1, <3>1 DEF Followed, Registered
  <2>2. QED
    BY <1>2, <2>1, DesktopAnnounces
<1>3. ASSUME NEW c \in Conns, ConnectStep(c) PROVE Good
  <2>1. /\ agent = "up" /\ UNCHANGED op
        /\ \A d \in Conns \ {c} : conns'[d] = conns[d]
        /\ conns[c] \in Started /\ conns[c].pc \notin {"free", "done"}
    BY <1>3, ConnectMoves, ConnectFrame
  <2>2. PICK s \in Servers : conns[c].server = s /\ conns'[c].server = s
    BY <1>3, <2>1, ConnectMoves, Living
  <2>3. CASE Attach(c) \/ RecordConnectionError(c) \/ Lookup(c) \/ Notify(c)
    <3>1. CASE Attach(c) \/ RecordConnectionError(c)
      <4>1. conns[c].pc \in {"attach", "fail"}
        BY <3>1 DEF Attach, RecordConnectionError, At
      <4>2. conns'[c].pc = "notify"
        BY <3>1, <4>1, <2>1, Moving DEF Attach, RecordConnectionError, Moved, Pcs, Started
      <4>3. QED
        BY <4>2
    <3>2. CASE Lookup(c) \/ Notify(c)
      BY <3>2 DEF Lookup, Notify, Connected, Registered
    <3>3. QED
      BY <2>3, <3>1, <3>2
  <2>4. CASE ~(Attach(c) \/ RecordConnectionError(c) \/ Lookup(c) \/ Notify(c))
    <3>1. UNCHANGED surface
      BY <1>3, <2>4 DEF ConnectStep, ReadSpec, ResolveLoad, ResolveStore, ResolveReload, Record,
         Handshake
    <3>2. ASSUME NEW r \in Servers
          PROVE  \/ entries'[r] = entries[r]
                 \/ /\ Registered(r) /\ entries'[r].there
                    /\ entries'[r].enabled = entries[r].enabled
                    /\ entries'[r].connected = entries[r].connected
      BY <1>3, <2>4, ConnectEntries
    <3>3. Connected' = Connected
      BY <3>2, SameConnected DEF Registered
    <3>4. conns[c].pc \notin {"connecting", "notify"}
      BY <1>3, <2>2, <2>4, ConnectPlaces
    <3>5. conns[c].pc = "start" /\ Registered(s) /\ entries[s].enabled => conns'[c].pc = "connecting"
      BY <1>3, <2>2, <2>4, ConnectPlaces
    <3>6. ASSUME NEW d \in Conns, conns[d].pc = "start",
                 Registered(conns[d].server), entries[conns[d].server].enabled, d # c
          PROVE  Soon(d)
      <4>1. conns'[d] = conns[d] /\ conns[d].server \in Servers
        BY <2>1, <3>6, Living
      <4>2. QED
        BY <3>2, <3>6, <4>1 DEF Registered
    <3>7. QED
      BY <2>1, <2>2, <3>1, <3>3, <3>4, <3>5, <3>6 DEF Followed
  <2>5. QED
    BY <2>3, <2>4
<1>4. ASSUME NEW t \in Conns, TaskEnds(t) PROVE Good
  <2>1. UNCHANGED <<entries, op, agent, surface>>
    BY <1>4 DEF TaskEnds, rest
  <2>2. \A e \in tasks[t].subscribers : conns[e].pc = "await"
    BY <1>4 DEF TaskEnds, Resolving
  <2>3. ASSUME NEW c \in Conns, conns[c].pc \in {"start", "connecting", "notify"}
        PROVE  conns'[c] = conns[c]
    BY <1>4, <2>2, <2>3, ResolverMoves
  <2>4. QED
    BY <2>1, <2>3 DEF Followed, Registered, Connected
<1>5. CASE UNCHANGED <<entries, op, agent, surface, conns>>
  BY <1>5 DEF Followed, Registered, Connected
<1>6. QED
  BY <1>1, <1>2, <1>3, <1>4, <1>5
     DEF Next, ResolverStep, TaskLeaves, ServerDies, vars, rest

(***************************************************************************)
(* The theorems.                                                           *)
(***************************************************************************)

\* The agent and the desktop start with nothing registered.
LEMMA InitIInv == Init => IInv
<1> SUFFICES ASSUME Init PROVE IInv
  OBVIOUS
<1>1. Shapes
  <2>1. /\ [pc |-> "free"] \in Blank /\ NoTask \in Results
        /\ [state |-> "none"] \in Clients /\ Idle \in Requests
    BY DEF Blank, Results, NoTask, Clients, ClientStates, Requests, Idle
  <2>2. 1 \in 1..MaxSpecs /\ 0 \in 0..MaxRestarts
    BY ConstantsAssumption
  <2>3. QED
    BY <2>1, <2>2 DEF Init, Shapes
<1>2. Attached /\ Booked /\ Served
  BY DEF Init, Attached, Booked, Served, Missing, Registered, Idle
<1>3. Dated
  <2>1. [pc |-> "free"] \notin Started
    BY DEF Started
  <2>2. QED
    BY <2>1 DEF Init, Dated, Missing, Registered
<1>4. Resolving
  BY DEF Init, Resolving, NoTask
<1>5. Followed
  BY DEF Init, Followed, Connected, Registered, Missing
<1>6. QED
  BY <1>1, <1>2, <1>3, <1>4, <1>5 DEF IInv

\* The invariant holds of every state the registry, its connects, its resolver and
\* the desktop reach, and is preserved by each of their steps.
THEOREM Inductive == Spec => []IInv
<1>1. IInv /\ [Next]_vars => IInv'
  BY ShapesStep, AttachedStep, BookedStep, DatedStep, ResolvingStep, ServedStep, FollowedStep
     DEF IInv
<1>2. QED
  BY InitIInv, <1>1, PTL DEF Spec

\* However connects, edits, toggles, crashes and restarts interleave, and however many
\* servers there are: calls go over clients that the registry has not closed, an enabled
\* server is connected, shows an error or is being worked on, the agents are offered
\* the tools of the connected servers once all is quiet, no server is installed twice at
\* once and no connect waits for a task that is over (mcp/registry.go Update, SetEnabled;
\* registry_resolve.go connectServer; launcher.go Resolve, attachSubscriber;
\* handler_mcp.go OnMcpConnectionChanged).
THEOREM Serving == Spec => []ServersAreServed
<1>1. IInv => ServersAreServed
  <2> SUFFICES ASSUME IInv PROVE ServersAreServed
    OBVIOUS
  <2> USE DEF IInv
  <2>1. ASSUME NEW s \in Servers, Registered(s)
        PROVE  /\ entries[s].client # None => clients[entries[s].client].state # "none"
               /\ entries[s].connected => clients[entries[s].client].state \in {"open", "dead"}
    BY <2>1 DEF Attached, Gave
  <2>2. ASSUME NEW c \in Conns
        PROVE  /\ conns[c].pc \in Pcs
               /\ clients[c].state \in {"none", "open", "closed", "dead"}
               /\ tasks[c].state \in {"none", "running", "done"}
    <3>1. clients[c] \in Clients /\ tasks[c] \in Results
      BY DEF Shapes
    <3>2. QED
      BY <3>1, Living DEF Shapes, Clients, ClientStates, Results
  <2>3. op.kind \in {"idle", "close", "announce"}
    BY DEF Shapes, Requests
  <2>4. TypeOK
    BY <2>1, <2>2, <2>3 DEF TypeOK, Shapes, Dated
  <2>5. ConnectedIsOpen
    BY <2>1 DEF ConnectedIsOpen, Connected
  <2>6. EnabledIsServed
    BY DEF Served, EnabledIsServed, AtWork, InFlight
  <2>7. SurfaceFollows
    BY DEF Followed, SurfaceFollows, InFlight, Idle
  <2>8. OneInstall
    BY DEF OneInstall, Resolving
  <2>9. NoSubscriberHangs
    BY DEF NoSubscriberHangs, Resolving
  <2>10. QED
    BY <2>4, <2>5, <2>6, <2>7, <2>8, <2>9 DEF ServersAreServed
<1>2. QED
  BY Inductive, <1>1, PTL

(***************************************************************************)
(* McpLauncher: the inductive invariant.                                   *)
(***************************************************************************)
Words == {"-y", "pkg", "tool"}
Runner(s) == s.command \in {"npx", "uvx"}

\* A resolver works for a line that names the package it works on; at the end of its
\* work the package is whole on the disk.
AtInstall ==
    /\ L!NamesPackage(spec.args) /\ Runner(spec)
    /\ package = spec.args[L!PackageAt(spec.args)]
    /\ stage = "inspect" => package \in disk
    /\ res.status # "ready"

\* A line that is ready is that of a program on the disk, with the words behind the
\* package's name where npx has named it; a server at an address needs no line.
Launched ==
    \/ spec.command = "url"
    \/ /\ L!NamesPackage(spec.args) /\ Runner(spec)
       /\ spec.args[L!PackageAt(spec.args)] \in disk
       /\ spec.command = "npx" => res = L!Resolution("ready", "node",
             <<spec.args[L!PackageAt(spec.args)]>> \o L!ExtraArgs(spec.args))

LauncherInv ==
    /\ spec \in [command : L!Commands, args : L!ArgLists] \cup {L!NoSpec}
    /\ spec = L!NoSpec => res = L!Unresolved("none")
    /\ stage \in {"idle", "view", "install", "inspect"}
    /\ res.status \in {"none", "ready", "failed", "unsupported"}
    /\ res.status # "ready" => res = L!Unresolved(res.status)
    /\ disk \subseteq Words \ {"-y"} /\ resolves \in 0 .. MaxResolves
    /\ stage # "idle" => AtInstall
    /\ stage = "idle" /\ res.status = "ready" => Launched

\* The package of a line that names one is no flag: it is the first such word.
LEMMA PackageIsNoFlag ==
    ASSUME NEW args \in L!ArgLists, L!NamesPackage(args)
    PROVE  args[L!PackageAt(args)] \in Words \ {"-y"}
<1> DEFINE First(i) == /\ args[i] \notin {"-y"} /\ \A j \in 1 .. i - 1 : args[j] \in {"-y"}
<1>1. args \in Seq(Words) /\ Len(args) <= 2 /\ Len(args) \in Nat
  <2>1. PICK n \in 0 .. 2 : args \in [1 .. n -> Words]
    BY DEF L!ArgLists, Words
  <2>2. args \in Seq(Words) /\ Len(args) = n
    BY <2>1
  <2>3. QED
    BY <2>2
<1>2. \E i \in 1 .. Len(args) : First(i)
  <2>1. PICK i \in 1 .. Len(args) : args[i] \notin {"-y"}
    BY DEF L!NamesPackage
  <2>2. i = 1 \/ i = 2
    BY <1>1
  <2>3. First(1) \/ First(2)
    BY <2>1, <2>2
  <2>4. QED
    BY <1>1, <2>1, <2>2, <2>3
<1>3. L!PackageAt(args) \in 1 .. Len(args) /\ First(L!PackageAt(args))
  <2> DEFINE k == CHOOSE i \in 1 .. Len(args) : First(i)
  <2>1. k \in 1 .. Len(args) /\ First(k)
    BY <1>2
  <2>2. QED
    BY <2>1 DEF L!PackageAt
<1>4. QED
  BY <1>1, <1>3

\* A resolution that has answered with no line is what Unresolved says.
LEMMA Unresolved ==
    ASSUME NEW status
    PROVE  L!Unresolved(status).status = status
BY DEF L!Unresolved, L!Resolution

\* The launcher starts with no line and nothing resolved.
LEMMA LauncherInit ==
    ASSUME L!Init
    PROVE  LauncherInv
<1>1. MaxResolves \in Nat
  BY PartsAssumption DEF PartsAssumption, L!LauncherAssumption
<1>2. spec = L!NoSpec /\ stage = "idle" /\ res = L!Unresolved("none") /\ disk = {} /\ resolves = 0
  BY DEF L!Init, L!Unresolved, L!Resolution
<1>3. QED
  BY <1>1, <1>2, Unresolved DEF LauncherInv

\* A change of the line, and each command of a resolver, keeps the invariant.
LEMMA LauncherStep ==
    ASSUME LauncherInv, L!Next
    PROVE  LauncherInv'
<1>0. MaxResolves \in Nat
  BY PartsAssumption DEF PartsAssumption, L!LauncherAssumption
<1> USE DEF LauncherInv
<1>7. stage # "idle" => spec # L!NoSpec
  BY DEF AtInstall, Runner, L!NoSpec
<1>1. ASSUME NEW c \in L!Commands, NEW args \in L!ArgLists, L!SetSpec(c, args) PROVE LauncherInv'
  <2>1. /\ spec' = [command |-> c, args |-> args] /\ stage = "idle"
        /\ UNCHANGED <<stage, package, disk, resolves>>
        /\ (spec' = spec /\ res' = res) \/ res' = L!Unresolved("none")
    BY <1>1 DEF L!SetSpec
  <2>2. spec' \in [command : L!Commands, args : L!ArgLists] /\ spec' # L!NoSpec
    <3>1. spec' \in [command : L!Commands, args : L!ArgLists] /\ spec'.command = c
      BY <2>1
    <3>2. c # "none" /\ L!NoSpec.command = "none"
      BY DEF L!Commands, L!NoSpec
    <3>3. QED
      BY <3>1, <3>2
  <2>3. CASE res' = L!Unresolved("none")
    BY <2>1, <2>2, <2>3, Unresolved DEF LauncherInv
  <2>4. CASE spec' = spec /\ res' = res
    BY <2>1, <2>2, <2>4 DEF LauncherInv, Launched
  <2>5. QED
    BY <2>1, <2>3, <2>4
<1>2. CASE L!Resolve
  <2>1. /\ stage = "idle" /\ spec # L!NoSpec /\ res.status # "ready" /\ resolves < MaxResolves
        /\ resolves' = resolves + 1 /\ UNCHANGED <<spec, disk>>
    BY <1>2 DEF L!Resolve
  <2>2. resolves' \in 0 .. MaxResolves
    BY <1>0, <2>1 DEF LauncherInv
  <2>3. CASE Runner(spec) /\ L!NamesPackage(spec.args)
    <3>1. /\ package' = spec.args[L!PackageAt(spec.args)] /\ res' = res
          /\ stage' \in {"view", "install"}
      BY <1>2, <2>3 DEF L!Resolve, Runner
    <3>2. QED
      BY <2>1, <2>2, <2>3, <3>1 DEF LauncherInv, AtInstall, Runner, L!NamesPackage, L!PackageAt
  <2>4. CASE ~(Runner(spec) /\ L!NamesPackage(spec.args))
    <3>1. res' = L!Immediate(spec) /\ UNCHANGED <<package, stage>>
      BY <1>2, <2>4 DEF L!Resolve, Runner
    <3>2. spec.command \in L!Commands
      BY <2>1 DEF LauncherInv
    <3>3. \/ res' = L!Unresolved("unsupported")
          \/ res' = L!Unresolved("ready") /\ spec.command = "url"
      BY <3>1, <3>2 DEF L!Immediate, L!Commands
    <3>4. QED
      BY <2>1, <2>2, <3>1, <3>3, Unresolved DEF LauncherInv, Launched
  <2>5. QED
    BY <2>3, <2>4
<1>3. CASE L!View
  <2>1. stage = "view" /\ UNCHANGED <<spec, package, disk, resolves>>
    BY <1>3 DEF L!View
  <2>2. CASE stage' = "install" /\ UNCHANGED res
    BY <2>1, <2>2 DEF LauncherInv, AtInstall, Runner, L!NamesPackage, L!PackageAt
  <2>3. CASE L!Fails
    BY <1>7, <2>1, <2>3, Unresolved DEF L!Fails
  <2>4. QED
    BY <1>3, <2>2, <2>3 DEF L!View
<1>4. CASE L!Install
  <2>1. stage = "install" /\ UNCHANGED <<spec, package, resolves>> /\ AtInstall
    BY <1>4 DEF L!Install, LauncherInv
  <2>2. package \in Words \ {"-y"}
    <3>1. spec \in [command : L!Commands, args : L!ArgLists]
      BY <2>1 DEF LauncherInv, AtInstall, L!NoSpec, Runner
    <3>2. QED
      BY <2>1, <3>1, PackageIsNoFlag DEF AtInstall
  <2>3. CASE stage' = "inspect" /\ disk' = disk \cup {package} /\ UNCHANGED res
    <3>1. AtInstall'
      BY <2>1, <2>3 DEF AtInstall, Runner, L!NamesPackage, L!PackageAt
    <3>2. QED
      BY <1>7, <2>1, <2>2, <2>3, <3>1
  <2>4. CASE L!Fails /\ disk' \in {disk, disk \ {package}}
    BY <1>7, <2>1, <2>4, Unresolved DEF L!Fails
  <2>5. QED
    BY <1>4, <2>3, <2>4 DEF L!Install
<1>5. CASE L!Inspect
  <2>1. stage = "inspect" /\ UNCHANGED <<spec, package, disk, resolves>> /\ AtInstall
    BY <1>5 DEF L!Inspect, LauncherInv
  <2>2. CASE L!Fails
    BY <1>7, <2>1, <2>2, Unresolved DEF L!Fails
  <2>3. CASE stage' = "idle" /\ res' = IF spec.command = "npx" THEN L!NpxLine ELSE L!UvxLine
    <3>1. res'.status = "ready"
      BY <2>3 DEF L!NpxLine, L!UvxLine, L!Resolution
    <3>2. spec.command = "npx" => res' = L!Resolution("ready", "node",
             <<spec.args[L!PackageAt(spec.args)]>> \o L!ExtraArgs(spec.args))
      BY <2>1, <2>3 DEF L!NpxLine, AtInstall, L!Program
    <3>3. Launched'
      <4>1. /\ L!NamesPackage(spec.args) /\ Runner(spec)
            /\ spec.args[L!PackageAt(spec.args)] \in disk
        BY <2>1 DEF AtInstall
      <4>2. QED
        BY <2>1, <3>2, <4>1 DEF Launched, Runner
    <3>4. spec # L!NoSpec
      BY <2>1 DEF AtInstall, Runner, L!NoSpec
    <3>5. QED
      BY <2>1, <2>3, <3>1, <3>3, <3>4 DEF LauncherInv
  <2>4. QED
    BY <1>5, <2>2, <2>3 DEF L!Inspect
<1>6. QED
  BY <1>1, <1>2, <1>3, <1>4, <1>5 DEF L!Next

\* What the launcher promises follows from the invariant.
LEMMA LauncherKeepsItsWord ==
    ASSUME LauncherInv
    PROVE  L!TypeOK /\ L!ReadyIsInstalled /\ L!StartsTheNpxServer
<1>1. L!TypeOK
  BY DEF LauncherInv, L!TypeOK, Words
<1>2. L!ReadyIsInstalled
  BY DEF LauncherInv, L!ReadyIsInstalled, Launched
<1>3. L!StartsTheNpxServer
  <2> SUFFICES ASSUME L!Starts, spec.command # "uvx" PROVE L!Serves(L!LaunchLine, spec)
    BY DEF L!StartsTheNpxServer
  <2>1. CASE res.status # "ready"
    BY <2>1 DEF L!LaunchLine, L!Serves
  <2>2. CASE res.status = "ready"
    <3>1. /\ L!NamesPackage(spec.args)
          /\ res = L!Resolution("ready", "node",
               <<spec.args[L!PackageAt(spec.args)]>> \o L!ExtraArgs(spec.args))
      BY <2>2 DEF LauncherInv, Launched, L!Starts, Runner
    <3>2. L!LaunchLine = [command |-> "node",
             args |-> <<spec.args[L!PackageAt(spec.args)]>> \o L!ExtraArgs(spec.args)]
      BY <2>2, <3>1 DEF L!LaunchLine, L!Resolution
    <3>3. QED
      BY <3>1, <3>2 DEF L!Serves, L!Program, L!ExtraArgs
  <2>3. QED
    BY <2>1, <2>2
<1>4. QED
  BY <1>1, <1>2, <1>3

(***************************************************************************)
(* ToolSurface: the inductive invariant.                                   *)
(***************************************************************************)
Scans == {r \in [found : SUBSET {1}, on : SUBSET {1}] : r.on \subseteq r.found}

\* A registry as a function; whether it holds the skills, or the servers, there are.
IsRegistry(reg) == U!Registry(reg) /\ reg = [n \in DOMAIN reg |-> reg[n]]
Holds(reg, S) == (DOMAIN reg) \cap S # {}
SkillsRight(reg) ==
    \A k \in {1} : /\ k \in DOMAIN reg <=> k \in U!Current.on
                   /\ k \in DOMAIN reg => reg[k] = Len(scans)
ServersRight(reg) == (DOMAIN reg) \cap {3} = up

SurfaceShapes ==
    /\ off \subseteq {1} /\ up \subseteq {3} /\ built \subseteq Sessions
    /\ scans \in Seq(Scans) /\ scans # <<>>
    /\ pending \in 0 .. MaxPending /\ fresh \in {"no", "maybe", "yes"}
    /\ refresh \in U!Refreshes \cup {None}
    /\ DOMAIN queued = Sessions /\ queued = [s \in Sessions |-> queued[s]]
    /\ DOMAIN scoped = Sessions /\ scoped = [s \in Sessions |-> scoped[s]]
    /\ \A s \in Sessions : queued[s] # None => s \in built
    /\ \A s \in Sessions : scoped[s] # None => s \in built /\ U!Registry(scoped[s])
    /\ IsRegistry(tools)

\* The refresh that holds the lock is about to do this to the shared registry.
Before(step) == refresh # None /\ refresh.target = "shared" /\ refresh.step = step

\* Since no change has come after the refresh began, what it has done to the shared
\* registry stands; and what one that has gone through it leaves is what there is.
Progress ==
    /\ fresh # "no" =>
         /\ Before("skills_in") => ~Holds(tools, {1})
         /\ Before("mcp_out") => SkillsRight(tools)
         /\ Before("mcp_in") => SkillsRight(tools) /\ ~Holds(tools, {3})
    /\ fresh = "yes" =>
         /\ ~Before("skills_in") => SkillsRight(tools)
         /\ ~Before("mcp_in") => ServersRight(tools)

SurfaceInv == SurfaceShapes /\ Progress

\* The assumptions of the instance.
LEMMA Surface ==
    /\ MCOnDisk \in [{r1, r2} -> SUBSET {1}] /\ MaxPending \in Nat /\ None \notin U!Refreshes
BY PartsAssumption
   DEF PartsAssumption, U!DisksAreSkills, U!BoundIsNumber, U!NoneIsNothing

\* There is a latest scan, and what is on in it was found by it.
LEMMA Scanned ==
    ASSUME SurfaceShapes
    PROVE  /\ Len(scans) \in Nat \ {0} /\ U!Current \in Scans
           /\ \A i \in 1 .. Len(scans) : scans[i] \in Scans
<1>1. Len(scans) \in Nat \ {0}
  BY DEF SurfaceShapes
<1>2. \A i \in 1 .. Len(scans) : scans[i] \in Scans
  BY DEF SurfaceShapes
<1>3. QED
  BY <1>1, <1>2 DEF U!Current

\* Taking out a plugin's tools leaves those of the other as they are.
LEMMA TakenOut ==
    ASSUME NEW reg, U!Registry(reg), NEW S
    PROVE  LET r == U!Minus(reg, S) IN
           /\ IsRegistry(r) /\ ~Holds(r, S)
           /\ S = {1} /\ ServersRight(reg) => ServersRight(r)
           /\ S = {3} /\ SkillsRight(reg) => SkillsRight(r)
<1> DEFINE r == U!Minus(reg, S)
<1>1. r = [n \in (DOMAIN reg) \ S |-> reg[n]]
  BY DEF U!Minus, U!Restrict
<1>2. IsRegistry(r) /\ ~Holds(r, S)
  BY <1>1 DEF IsRegistry, Holds, U!Registry
<1>3. S = {1} /\ ServersRight(reg) => ServersRight(r)
  BY <1>1 DEF ServersRight
<1>4. S = {3} /\ SkillsRight(reg) => SkillsRight(r)
  BY <1>1 DEF SkillsRight
<1>5. QED
  BY <1>2, <1>3, <1>4

\* Registering the skills adds those there are to a registry without any, and none to
\* one that has them.
LEMMA SkillsPutIn ==
    ASSUME SurfaceShapes, NEW reg, U!Registry(reg)
    PROVE  LET r == U!WithSkills(reg) IN
           /\ IsRegistry(r)
           /\ ~Holds(reg, {1}) \/ SkillsRight(reg) => SkillsRight(r)
           /\ ServersRight(reg) => ServersRight(r)
           /\ ~Holds(reg, {3}) => ~Holds(r, {3})
<1> DEFINE on == U!Current.on
           names == {k \in on : \A j \in on \cap (DOMAIN reg) : k < j}
           r == U!WithSkills(reg)
<1>1. r = [n \in (DOMAIN reg) \cup names |-> IF n \in DOMAIN reg THEN reg[n] ELSE Len(scans)]
  BY DEF U!WithSkills, U!PluginSkills, U!Extended
<1>2. /\ on \subseteq {1} /\ on \subseteq scans[Len(scans)].found /\ names \subseteq on
      /\ Len(scans) \in 1 .. Len(scans)
  BY Scanned DEF Scans, U!Current
<1>3. 1 \in DOMAIN reg => 1 \notin names
  BY <1>2
<1>4. ~Holds(reg, {1}) => names = on
  BY <1>2 DEF Holds
<1> HIDE DEF names
<1>5. IsRegistry(r)
  BY <1>1, <1>2 DEF IsRegistry, U!Registry
<1>6. ~Holds(reg, {1}) \/ SkillsRight(reg) => SkillsRight(r)
  BY <1>1, <1>2, <1>3, <1>4 DEF Holds, SkillsRight
<1>7. ServersRight(reg) => ServersRight(r)
  BY <1>1, <1>2 DEF ServersRight
<1>8. ~Holds(reg, {3}) => ~Holds(r, {3})
  BY <1>1, <1>2 DEF Holds
<1>9. QED
  BY <1>5, <1>6, <1>7, <1>8

\* ... and so does registering the servers.
LEMMA ServersPutIn ==
    ASSUME SurfaceShapes, NEW reg, U!Registry(reg), NEW r \in U!WithServers(reg)
    PROVE  /\ IsRegistry(r)
           /\ ~Holds(reg, {3}) \/ ServersRight(reg) => ServersRight(r)
           /\ SkillsRight(reg) => SkillsRight(r)
<1>1. PICK S \in SUBSET up :
        /\ r = [n \in (DOMAIN reg) \cup S |-> IF n \in DOMAIN reg THEN reg[n] ELSE 0]
        /\ ~Holds(reg, {3}) => S = up
  <2>1. CASE up \cap (DOMAIN reg) = {}
    BY <2>1 DEF U!WithServers, U!Extended
  <2>2. CASE up \cap (DOMAIN reg) # {}
    <3>1. Holds(reg, {3})
      BY <2>2 DEF SurfaceShapes, Holds
    <3>2. PICK S \in SUBSET (up \ (DOMAIN reg)) : r = U!Extended(reg, S, 0)
      BY <2>2 DEF U!WithServers
    <3>3. QED
      BY <3>1, <3>2 DEF U!Extended
  <2>3. QED
    BY <2>1, <2>2
<1>2. S \subseteq {3} /\ up \subseteq {3}
  BY DEF SurfaceShapes
<1>3. IsRegistry(r)
  BY <1>1, <1>2 DEF IsRegistry, U!Registry
<1>4. ~Holds(reg, {3}) \/ ServersRight(reg) => ServersRight(r)
  BY <1>1, <1>2 DEF Holds, ServersRight
<1>5. SkillsRight(reg) => SkillsRight(r)
  BY <1>1, <1>2 DEF SkillsRight
<1>6. QED
  BY <1>3, <1>4, <1>5

\* At startup one workspace is scanned and no tool is registered.
LEMMA SurfaceInit ==
    ASSUME U!Init
    PROVE  SurfaceInv
<1>1. PICK x \in {r1, r2} : scans = <<U!Scan(x)>>
  BY DEF U!Init
<1>2. U!Scan(x) \in Scans
  BY Surface DEF U!Scan, Scans
<1>3. scans \in Seq(Scans) /\ scans # <<>>
  BY <1>1, <1>2
<1>4. IsRegistry(tools)
  BY DEF U!Init, U!Empty, IsRegistry, U!Registry
<1>5. SurfaceShapes
  BY <1>3, <1>4, Surface DEF U!Init, SurfaceShapes
<1>6. Progress
  BY DEF U!Init, Progress
<1>7. QED
  BY <1>5, <1>6 DEF SurfaceInv

\* New scans, and skills turned on or off, leave what the registries hold in order.
LEMMA Rescanned ==
    ASSUME SurfaceShapes, scans' \in Seq(Scans), scans' # <<>>, Len(scans') >= Len(scans),
           \A i \in 1 .. Len(scans) : scans'[i].found = scans[i].found,
           UNCHANGED <<up, tools, built, queued, scoped, refresh>>,
           off' \subseteq {1}, pending' \in 0 .. MaxPending, fresh' \in {"no", "maybe", "yes"}
    PROVE  SurfaceShapes'
<1>1. Len(scans) \in Nat /\ Len(scans') \in Nat
  BY DEF SurfaceShapes
<1>2. \A i \in 1 .. Len(scans) : i \in 1 .. Len(scans')
  BY <1>1
<1>3. IsRegistry(tools)'
  BY <1>2 DEF SurfaceShapes, IsRegistry, U!Registry
<1>4. \A s \in Sessions : scoped'[s] # None => s \in built' /\ U!Registry(scoped[s])'
  BY <1>2 DEF SurfaceShapes, U!Registry
<1>5. QED
  BY <1>3, <1>4 DEF SurfaceShapes

\* A change makes what a refresh has done so far worth nothing, and the next refresh due.
LEMMA ChangesKeep ==
    ASSUME SurfaceInv,
           \/ \E k \in {1}, on \in BOOLEAN : U!SetEnabled(k, on)
           \/ U!PushFlags
           \/ \E r \in {r1, r2} : U!SetWorkspace(r)
           \/ \E v \in {3} : U!ServerChanges(v)
    PROVE  SurfaceInv'
<1> USE DEF SurfaceInv
<1>1. /\ SurfaceShapes /\ Len(scans) \in Nat \ {0} /\ U!Current \in Scans
      /\ \A i \in 1 .. Len(scans) : scans[i] \in Scans
  BY Scanned
<1>2. ASSUME U!Changed PROVE pending' \in 0 .. MaxPending /\ fresh' = "no"
  BY <1>2, Surface DEF U!Changed, SurfaceShapes
<1>3. fresh' = "no" => Progress'
  BY DEF Progress
<1>4. ASSUME NEW on \in SUBSET {1}, on \subseteq scans[Len(scans)].found,
             scans' = [scans EXCEPT ![Len(scans)].on = on]
      PROVE  /\ scans' \in Seq(Scans) /\ scans' # <<>> /\ Len(scans') >= Len(scans)
             /\ \A i \in 1 .. Len(scans) : scans'[i].found = scans[i].found
  <2> DEFINE last == [scans[Len(scans)] EXCEPT !.on = on]
  <2>1. scans[Len(scans)] \in Scans
    BY <1>1 DEF U!Current
  <2>2. last \in Scans /\ last.found = scans[Len(scans)].found
    BY <1>4, <2>1 DEF Scans
  <2>3. scans' = [scans EXCEPT ![Len(scans)] = last]
    BY <1>4
  <2> HIDE DEF last
  <2>4. scans' \in Seq(Scans) /\ Len(scans') = Len(scans) /\ scans' # <<>>
    BY <1>1, <2>2, <2>3 DEF SurfaceShapes
  <2>5. \A i \in 1 .. Len(scans) : scans'[i] = IF i = Len(scans) THEN last ELSE scans[i]
    BY <1>1, <2>3 DEF SurfaceShapes
  <2>6. QED
    BY <1>1, <2>2, <2>4, <2>5
<1>5. ASSUME NEW k \in {1}, NEW flag \in BOOLEAN, U!SetEnabled(k, flag) PROVE SurfaceInv'
  <2>1. off' \subseteq {1} /\ UNCHANGED <<up, tools, built, queued, scoped, refresh>>
    BY <1>1, <1>5 DEF U!SetEnabled, SurfaceShapes
  <2>2. CASE k \in U!Current.found
    <3> DEFINE on == IF flag THEN U!Current.on \cup {k} ELSE U!Current.on \ {k}
    <3>1. U!Changed /\ scans' = [scans EXCEPT ![Len(scans)].on = on]
      BY <1>5, <2>2 DEF U!SetEnabled, U!Current
    <3>2. on \in SUBSET {1} /\ on \subseteq scans[Len(scans)].found
      BY <1>1, <2>2 DEF Scans, U!Current
    <3> HIDE DEF on
    <3>3. QED
      BY <1>1, <1>2, <1>3, <1>4, <2>1, <3>1, <3>2, Rescanned
  <2>3. CASE k \notin U!Current.found
    <3>1. UNCHANGED <<scans, pending, fresh>>
      BY <1>5, <2>3 DEF U!SetEnabled
    <3>2. QED
      BY <2>1, <3>1
         DEF SurfaceShapes, Progress, Before, IsRegistry, U!Registry, SkillsRight, ServersRight,
             Holds, U!Current
  <2>4. QED
    BY <2>2, <2>3
<1>6. CASE U!PushFlags
  <2> DEFINE on == (U!Current.on \ (off \cap {1})) \cup {k \in {1} \cap U!Current.found : k \notin off}
  <2>1. /\ scans' = [scans EXCEPT ![Len(scans)].on = on] /\ fresh' = "no"
        /\ UNCHANGED <<off, up, tools, built, queued, scoped, pending, refresh>>
    BY <1>6 DEF U!PushFlags, U!Current
  <2>2. on \in SUBSET {1} /\ on \subseteq scans[Len(scans)].found
    BY <1>1 DEF Scans, U!Current
  <2> HIDE DEF on
  <2>3. off' \subseteq {1} /\ pending' \in 0 .. MaxPending
    BY <2>1 DEF SurfaceShapes
  <2>4. QED
    BY <1>1, <1>3, <1>4, <2>1, <2>2, <2>3, Rescanned
<1>7. ASSUME NEW r \in {r1, r2}, U!SetWorkspace(r) PROVE SurfaceInv'
  <2>1. /\ scans' = Append(scans, U!Scan(r)) /\ U!Changed
        /\ UNCHANGED <<off, up, tools, built, queued, scoped, refresh>>
    BY <1>7 DEF U!SetWorkspace
  <2>2. U!Scan(r) \in Scans
    BY Surface DEF U!Scan, Scans
  <2>3. /\ scans' \in Seq(Scans) /\ scans' # <<>> /\ Len(scans') >= Len(scans)
        /\ \A i \in 1 .. Len(scans) : scans'[i].found = scans[i].found
    BY <1>1, <2>1, <2>2 DEF SurfaceShapes
  <2>4. off' \subseteq {1}
    BY <2>1 DEF SurfaceShapes
  <2>5. QED
    BY <1>1, <1>2, <1>3, <2>1, <2>3, <2>4, Rescanned
<1>8. ASSUME NEW v \in {3}, U!ServerChanges(v) PROVE SurfaceInv'
  <2>1. /\ up' \subseteq {3} /\ U!Changed
        /\ UNCHANGED <<off, scans, tools, built, queued, scoped, refresh>>
    BY <1>1, <1>8 DEF U!ServerChanges, SurfaceShapes
  <2>2. SurfaceShapes'
    BY <1>1, <1>2, <2>1 DEF SurfaceShapes, IsRegistry, U!Registry
  <2>3. QED
    BY <1>2, <1>3, <2>1, <2>2
<1>9. QED
  BY <1>5, <1>6, <1>7, <1>8

\* An agent that is built registers what is there again, and changes nothing.
LEMMA EnsureKeeps ==
    ASSUME SurfaceInv, NEW s \in Sessions, U!Ensure(s), UNCHANGED <<scans, up, fresh, refresh>>
    PROVE  /\ built \subseteq built' /\ built' \subseteq Sessions /\ s \in built'
           /\ IsRegistry(tools)' /\ Progress'
<1> USE DEF SurfaceInv
<1>1. built \subseteq built' /\ built' \subseteq Sessions /\ s \in built' /\ refresh = None
  BY DEF U!Ensure, SurfaceShapes
<1>2. CASE tools' = tools
  BY <1>1, <1>2
     DEF SurfaceShapes, Progress, Before, IsRegistry, U!Registry, SkillsRight, ServersRight,
         Holds, U!Current
<1>3. CASE tools' \in U!Surfaces
  <2> DEFINE mid == U!WithSkills(tools)
  <2>1. U!Registry(tools)
    BY DEF SurfaceShapes, IsRegistry
  <2>2. /\ IsRegistry(mid)
        /\ SkillsRight(tools) => SkillsRight(mid)
        /\ ServersRight(tools) => ServersRight(mid)
    BY <2>1, SkillsPutIn
  <2>3. PICK r \in U!WithServers(mid) : tools' = r
    BY <1>3 DEF U!Surfaces
  <2> HIDE DEF mid
  <2>4. U!Registry(mid)
    BY <2>2 DEF IsRegistry
  <2>5. /\ IsRegistry(r)
        /\ SkillsRight(tools) => SkillsRight(r)
        /\ ServersRight(tools) => ServersRight(r)
    BY <2>2, <2>4, ServersPutIn
  <2>6. /\ IsRegistry(tools)'
        /\ SkillsRight(tools) => SkillsRight(tools)'
        /\ ServersRight(tools) => ServersRight(tools)'
    BY <2>3, <2>5 DEF IsRegistry, U!Registry, SkillsRight, ServersRight, U!Current
  <2>7. Progress'
    BY <1>1, <2>6 DEF Progress, Before
  <2>8. QED
    BY <1>1, <2>6, <2>7
<1>4. QED
  BY <1>2, <1>3 DEF U!Ensure

\* A step of a refresh that changes a registry of a turn, or none, keeps the shared one.
LEMMA ElsewhereKeeps ==
    ASSUME SurfaceInv, refresh # None, refresh.target # "shared",
           NEW to \in {"next", "skills_in", "mcp_out", "mcp_in"},
           refresh' = [refresh EXCEPT !.step = to],
           UNCHANGED <<off, scans, up, tools, built, queued, pending, fresh>>,
           \/ scoped' = scoped
           \/ \E t \in Sessions : \E r : /\ scoped[t] # None /\ U!Registry(r)
                                                 /\ scoped' = [scoped EXCEPT ![t] = r]
    PROVE  SurfaceInv'
<1> USE DEF SurfaceInv
<1>1. refresh' \in U!Refreshes /\ refresh'.target # "shared"
  BY DEF SurfaceShapes, U!Refreshes
<1>2. IsRegistry(tools)'
  BY DEF SurfaceShapes, IsRegistry, U!Registry
<1>3. /\ DOMAIN scoped' = Sessions /\ scoped' = [s \in Sessions |-> scoped'[s]]
      /\ \A s \in Sessions : scoped'[s] # None => s \in built' /\ U!Registry(scoped[s])'
  <2>1. CASE scoped' = scoped
    BY <2>1 DEF SurfaceShapes, U!Registry
  <2>2. CASE \E t \in Sessions : \E r : /\ scoped[t] # None /\ U!Registry(r)
                                        /\ scoped' = [scoped EXCEPT ![t] = r]
    BY <2>2 DEF SurfaceShapes, U!Registry
  <2>3. QED
    BY <2>1, <2>2
<1>4. SurfaceShapes'
  BY <1>1, <1>2, <1>3 DEF SurfaceShapes
<1>5. Progress'
  BY <1>1 DEF Progress, Before, SkillsRight, ServersRight, Holds, U!Current
<1>6. QED
  BY <1>4, <1>5

\* A step that changes the shared registry keeps what is not the invariant of progress.
LEMMA SharedKeeps ==
    ASSUME SurfaceInv, refresh # None, refresh.target = "shared",
           NEW to \in {"next", "skills_in", "mcp_out", "mcp_in"},
           refresh' = [refresh EXCEPT !.step = to],
           NEW r, IsRegistry(r), tools' = r, fresh' \in {"no", "maybe", "yes"},
           UNCHANGED <<off, scans, up, scoped, built, queued, pending>>
    PROVE  /\ SurfaceShapes'
           /\ refresh'.step = to /\ refresh'.target = "shared" /\ refresh' # None
           /\ SkillsRight(r) => SkillsRight(tools)'
           /\ ServersRight(r) => ServersRight(tools)'
           /\ \A S : ~Holds(r, S) => ~Holds(tools', S)
<1> USE DEF SurfaceInv
<1>1. refresh' \in U!Refreshes /\ refresh'.step = to /\ refresh'.target = "shared"
  BY DEF SurfaceShapes, U!Refreshes
<1>2. IsRegistry(tools)'
  BY DEF IsRegistry, U!Registry
<1>3. \A s \in Sessions : scoped'[s] # None => s \in built' /\ U!Registry(scoped[s])'
  BY DEF SurfaceShapes, U!Registry
<1>4. SurfaceShapes'
  BY <1>1, <1>2, <1>3 DEF SurfaceShapes
<1>5. /\ SkillsRight(r) => SkillsRight(tools)'
      /\ ServersRight(r) => ServersRight(tools)'
      /\ \A S : ~Holds(r, S) => ~Holds(tools', S)
  BY DEF SkillsRight, ServersRight, Holds, U!Current
<1>6. QED
  BY <1>1, <1>4, <1>5, Surface

\* The four steps of a refresh, on the shared registry or on that of a turn.
LEMMA RefreshKeeps ==
    ASSUME SurfaceInv, U!SkillsOut \/ U!SkillsIn \/ U!McpOut \/ U!McpIn
    PROVE  SurfaceInv'
<1> USE DEF SurfaceInv
<1>1. U!Registry(tools) /\ SurfaceShapes
  BY DEF SurfaceShapes, IsRegistry
<1>2. /\ refresh # None /\ refresh \in U!Refreshes /\ fresh' \in {"no", "maybe", "yes"}
      /\ UNCHANGED <<off, scans, up, built, queued, pending>>
  BY <1>1 DEF U!SkillsOut, U!SkillsIn, U!McpOut, U!McpIn, U!Step, SurfaceShapes
<1>3. CASE refresh.target = "shared"
  <2>1. CASE U!SkillsOut
    <3> DEFINE r == U!Minus(tools, {1})
    <3>1. /\ refresh.step = "skills_out" /\ refresh' = [refresh EXCEPT !.step = "skills_in"]
          /\ tools' = r /\ UNCHANGED <<scoped, fresh>>
      BY <1>3, <2>1 DEF U!SkillsOut, U!Step
    <3>2. IsRegistry(r) /\ ~Holds(r, {1}) /\ (ServersRight(tools) => ServersRight(r))
      BY <1>1, TakenOut
    <3> HIDE DEF r
    <3>3. /\ SurfaceShapes' /\ refresh'.step = "skills_in" /\ refresh'.target = "shared"
          /\ refresh' # None /\ ~Holds(tools', {1})
          /\ ServersRight(tools) => ServersRight(tools)'
      BY <1>2, <1>3, <3>1, <3>2, SharedKeeps
    <3>4. Progress'
      BY <3>1, <3>3 DEF Progress, Before, Holds
    <3>5. QED
      BY <3>3, <3>4
  <2>2. CASE U!SkillsIn
    <3> DEFINE r == U!WithSkills(tools)
    <3>1. /\ refresh.step = "skills_in" /\ refresh' = [refresh EXCEPT !.step = "mcp_out"]
          /\ tools' = r /\ UNCHANGED <<scoped, fresh>>
      BY <1>3, <2>2 DEF U!SkillsIn, U!Step
    <3>2. /\ IsRegistry(r) /\ (~Holds(tools, {1}) => SkillsRight(r))
          /\ ServersRight(tools) => ServersRight(r)
      BY <1>1, SkillsPutIn
    <3> HIDE DEF r
    <3>3. /\ SurfaceShapes' /\ refresh'.step = "mcp_out" /\ refresh'.target = "shared"
          /\ refresh' # None /\ (~Holds(tools, {1}) => SkillsRight(tools)')
          /\ ServersRight(tools) => ServersRight(tools)'
      BY <1>2, <1>3, <3>1, <3>2, SharedKeeps
    <3>4. Progress'
      BY <1>2, <1>3, <3>1, <3>3 DEF Progress, Before
    <3>5. QED
      BY <3>3, <3>4
  <2>3. CASE U!McpOut
    <3> DEFINE r == U!Minus(tools, {3})
    <3>1. /\ refresh.step = "mcp_out" /\ refresh' = [refresh EXCEPT !.step = "mcp_in"]
          /\ tools' = r /\ UNCHANGED <<scoped, fresh>>
      BY <1>3, <2>3 DEF U!McpOut, U!Step
    <3>2. IsRegistry(r) /\ ~Holds(r, {3}) /\ (SkillsRight(tools) => SkillsRight(r))
      BY <1>1, TakenOut
    <3> HIDE DEF r
    <3>3. /\ SurfaceShapes' /\ refresh'.step = "mcp_in" /\ refresh'.target = "shared"
          /\ refresh' # None /\ ~Holds(tools', {3})
          /\ SkillsRight(tools) => SkillsRight(tools)'
      BY <1>2, <1>3, <3>1, <3>2, SharedKeeps
    <3>4. Progress'
      BY <1>2, <1>3, <3>1, <3>3 DEF Progress, Before, Holds
    <3>5. QED
      BY <3>3, <3>4
  <2>4. CASE U!McpIn
    <3>1. /\ refresh.step = "mcp_in" /\ refresh' = [refresh EXCEPT !.step = "next"]
          /\ UNCHANGED scoped /\ fresh' = IF fresh = "maybe" THEN "yes" ELSE fresh
      BY <1>3, <2>4 DEF U!McpIn, U!Step
    <3>2. PICK r \in U!WithServers(tools) : tools' = r
      BY <1>3, <2>4 DEF U!McpIn, U!Step
    <3>3. /\ IsRegistry(r) /\ (SkillsRight(tools) => SkillsRight(r))
          /\ ~Holds(tools, {3}) => ServersRight(r)
      BY <1>1, ServersPutIn
    <3>4. /\ SurfaceShapes' /\ refresh'.step = "next" /\ refresh' # None
          /\ (SkillsRight(tools) => SkillsRight(tools)')
          /\ ~Holds(tools, {3}) => ServersRight(tools)'
      BY <1>2, <1>3, <3>1, <3>2, <3>3, SharedKeeps
    <3>5. fresh' = "yes" => SkillsRight(tools) /\ ~Holds(tools, {3})
      BY <1>2, <1>3, <3>1 DEF Progress, Before
    <3>6. Progress'
      BY <3>4, <3>5 DEF Progress, Before
    <3>7. QED
      BY <3>4, <3>6
  <2>5. QED
    BY <2>1, <2>2, <2>3, <2>4
<1>4. CASE refresh.target # "shared"
  <2> DEFINE t == refresh.target
  <2>1. tools' = tools /\ fresh' = fresh
    BY <1>4 DEF U!SkillsOut, U!SkillsIn, U!McpOut, U!McpIn, U!Step
  <2>2. \E to \in {"next", "skills_in", "mcp_out", "mcp_in"} :
          refresh' = [refresh EXCEPT !.step = to]
    BY DEF U!SkillsOut, U!SkillsIn, U!McpOut, U!McpIn, U!Step
  <2>3. CASE scoped' = scoped
    BY <1>2, <1>4, <2>1, <2>2, <2>3, ElsewhereKeeps
  <2>4. CASE scoped' # scoped
    <3>1. scoped[t] # None
      BY <1>4, <2>4 DEF U!SkillsOut, U!SkillsIn, U!McpOut, U!McpIn, U!Step
    <3>2. \E r \in {U!Minus(scoped[t], {1}), U!WithSkills(scoped[t]), U!Minus(scoped[t], {3})}
                     \cup U!WithServers(scoped[t]) :
             scoped' = [scoped EXCEPT ![t] = r]
      BY <1>4, <3>1 DEF U!SkillsOut, U!SkillsIn, U!McpOut, U!McpIn, U!Step
    <3>3. t \in Sessions
      <4>1. t \notin DOMAIN scoped => scoped' = scoped
        BY <3>2, <1>1 DEF SurfaceShapes
      <4>2. QED
        BY <1>1, <2>4, <4>1 DEF SurfaceShapes
    <3>4. U!Registry(scoped[t])
      BY <1>1, <3>1, <3>3 DEF SurfaceShapes
    <3>5. \A r \in {U!Minus(scoped[t], {1}), U!WithSkills(scoped[t]), U!Minus(scoped[t], {3})}
                     \cup U!WithServers(scoped[t]) : U!Registry(r)
      BY <1>1, <3>4, TakenOut, SkillsPutIn, ServersPutIn DEF IsRegistry
    <3>6. \E s \in Sessions : \E r : /\ scoped[s] # None /\ U!Registry(r)
                                                 /\ scoped' = [scoped EXCEPT ![s] = r]
      BY <3>1, <3>2, <3>3, <3>5
    <3>7. QED
      BY <1>2, <1>4, <2>1, <2>2, <3>6, ElsewhereKeeps
  <2>5. QED
    BY <2>3, <2>4
<1>5. QED
  BY <1>3, <1>4

\* What a step that leaves the scans, the servers and the shared registry alone is to show.
LEMMA UntouchedKeeps ==
    ASSUME SurfaceShapes, UNCHANGED <<off, scans, up, tools>>
    PROVE  /\ IsRegistry(tools)' /\ off' \subseteq {1} /\ up' \subseteq {3}
           /\ scans' \in Seq(Scans) /\ scans' # <<>>
           /\ SkillsRight(tools) <=> SkillsRight(tools)'
           /\ ServersRight(tools) <=> ServersRight(tools)'
           /\ \A reg : U!Registry(reg) => U!Registry(reg)'
BY DEF SurfaceShapes, IsRegistry, U!Registry, SkillsRight, ServersRight, U!Current

\* A refresh that takes the lock, reads a session or ends changes no registry.
LEMMA LockKeeps ==
    ASSUME SurfaceInv,
           U!RefreshBegin \/ (\E s \in Sessions : U!RefreshSession(s)) \/ U!RefreshEnd
    PROVE  SurfaceInv'
<1> USE DEF SurfaceInv
<1>1. UNCHANGED <<off, scans, up, tools, built, queued, scoped>>
  BY DEF U!RefreshBegin, U!RefreshSession, U!RefreshEnd
<1>2. /\ pending' \in 0 .. MaxPending /\ refresh' \in U!Refreshes \cup {None}
      /\ fresh' \in {"no", "maybe", "yes"}
  <2>1. CASE U!RefreshBegin
    BY <2>1, Surface DEF U!RefreshBegin, U!Refreshes, SurfaceShapes
  <2>2. CASE (\E s \in Sessions : U!RefreshSession(s)) \/ U!RefreshEnd
    BY <2>2 DEF U!RefreshSession, U!RefreshEnd, U!Refreshes, SurfaceShapes
  <2>3. QED
    BY <2>1, <2>2
<1>3. SurfaceShapes'
  <2>1. \A s \in Sessions : scoped'[s] # None => s \in built' /\ U!Registry(scoped[s])'
    BY <1>1 DEF SurfaceShapes, U!Registry
  <2>2. QED
    BY <1>1, <1>2, <2>1, UntouchedKeeps DEF SurfaceShapes
<1>4. /\ ~Before("skills_in") /\ ~Before("mcp_out") /\ ~Before("mcp_in")
      /\ ~Before("skills_in")' /\ ~Before("mcp_out")' /\ ~Before("mcp_in")'
      /\ fresh' = "yes" => fresh = "yes"
  BY DEF U!RefreshBegin, U!RefreshSession, U!RefreshEnd, Before
<1>5. Progress'
  BY <1>1, <1>4, UntouchedKeeps DEF Progress
<1>6. QED
  BY <1>3, <1>5

\* Agents that are built or evicted and skill turns keep the shared registry.
LEMMA TurnsKeep ==
    ASSUME SurfaceInv,
           \/ \E s \in Sessions : U!Build(s) \/ U!Evict(s) \/ U!StartTurn(s) \/ U!EndTurn(s)
           \/ \E s \in Sessions, k \in {1} : U!Invoke(s, k)
    PROVE  SurfaceInv'
<1> USE DEF SurfaceInv
<1>1. ASSUME NEW s \in Sessions, U!Ensure(s), UNCHANGED <<off, scans, up, scoped, pending, refresh, fresh>>,
             \/ queued' = queued
             \/ \E names : queued' = [queued EXCEPT ![s] = names]
      PROVE  SurfaceInv'
  <2>1. /\ built \subseteq built' /\ built' \subseteq Sessions /\ s \in built'
        /\ IsRegistry(tools)' /\ Progress'
    BY <1>1, EnsureKeeps
  <2>2. \A t \in Sessions : scoped'[t] # None => t \in built' /\ U!Registry(scoped[t])'
    BY <1>1, <2>1 DEF SurfaceShapes, U!Registry
  <2>3. /\ DOMAIN queued' = Sessions /\ queued' = [t \in Sessions |-> queued'[t]]
        /\ \A t \in Sessions : queued'[t] # None => t \in built'
    BY <1>1, <2>1 DEF SurfaceShapes
  <2>4. SurfaceShapes'
    BY <1>1, <2>1, <2>2, <2>3 DEF SurfaceShapes
  <2>5. QED
    BY <2>1, <2>4
<1>2. ASSUME NEW s \in Sessions, U!Build(s) PROVE SurfaceInv'
  BY <1>1, <1>2 DEF U!Build
<1>3. ASSUME NEW s \in Sessions, NEW k \in {1}, U!Invoke(s, k) PROVE SurfaceInv'
  <2>1. /\ U!Ensure(s) /\ UNCHANGED <<off, scans, up, scoped, pending, refresh, fresh>>
        /\ queued' = [queued EXCEPT ![s] = DOMAIN tools]
    BY <1>3 DEF U!Invoke
  <2>2. QED
    BY <1>1, <2>1
<1>4. ASSUME UNCHANGED <<off, scans, up, tools, pending, refresh, fresh>>, built' \subseteq Sessions,
             DOMAIN queued' = Sessions, queued' = [s \in Sessions |-> queued'[s]],
             DOMAIN scoped' = Sessions, scoped' = [s \in Sessions |-> scoped'[s]],
             \A s \in Sessions : queued'[s] # None => s \in built',
             \A s \in Sessions : scoped'[s] # None => s \in built' /\ U!Registry(scoped'[s])
      PROVE  SurfaceInv'
  <2>1. \A s \in Sessions : scoped'[s] # None => s \in built' /\ U!Registry(scoped[s])'
    BY <1>4 DEF U!Registry
  <2>2. SurfaceShapes'
    BY <1>4, <2>1, UntouchedKeeps DEF SurfaceShapes
  <2>3. Progress'
    BY <1>4, UntouchedKeeps DEF Progress, Before, Holds
  <2>4. QED
    BY <2>2, <2>3
<1>5. ASSUME NEW s \in Sessions, U!Evict(s) PROVE SurfaceInv'
  <2>1. /\ UNCHANGED <<off, scans, up, tools, pending, refresh, fresh, scoped>>
        /\ built' = built \ {s} /\ scoped[s] = None /\ queued' = [queued EXCEPT ![s] = None]
    BY <1>5 DEF U!Evict
  <2>2. \A t \in Sessions : queued'[t] # None => t \in built'
    BY <2>1 DEF SurfaceShapes
  <2>3. \A t \in Sessions : scoped'[t] # None => t \in built' /\ U!Registry(scoped'[t])
    BY <2>1 DEF SurfaceShapes
  <2>4. QED
    BY <1>4, <2>1, <2>2, <2>3 DEF SurfaceShapes
<1>6. ASSUME NEW s \in Sessions, U!StartTurn(s) PROVE SurfaceInv'
  <2> DEFINE r == [n \in (DOMAIN tools) \cap queued[s] |-> tools[n]]
  <2>1. /\ UNCHANGED <<off, scans, up, tools, built, pending, refresh, fresh>>
        /\ queued[s] # None /\ scoped' = [scoped EXCEPT ![s] = r]
        /\ queued' = [queued EXCEPT ![s] = None]
    BY <1>6 DEF U!StartTurn, U!Restrict
  <2>2. U!Registry(r)
    BY DEF SurfaceShapes, IsRegistry, U!Registry
  <2> HIDE DEF r
  <2>3. \A t \in Sessions : queued'[t] # None => t \in built'
    BY <2>1 DEF SurfaceShapes
  <2>4. \A t \in Sessions : scoped'[t] # None => t \in built' /\ U!Registry(scoped'[t])
    BY <2>1, <2>2 DEF SurfaceShapes
  <2>5. QED
    BY <1>4, <2>1, <2>3, <2>4 DEF SurfaceShapes
<1>7. ASSUME NEW s \in Sessions, U!EndTurn(s) PROVE SurfaceInv'
  <2>1. /\ UNCHANGED <<off, scans, up, tools, built, queued, pending, refresh, fresh>>
        /\ scoped' = [scoped EXCEPT ![s] = None]
    BY <1>7 DEF U!EndTurn
  <2>2. \A t \in Sessions : scoped'[t] # None => t \in built' /\ U!Registry(scoped'[t])
    BY <2>1 DEF SurfaceShapes
  <2>3. QED
    BY <1>4, <2>1, <2>2 DEF SurfaceShapes
<1>8. QED
  BY <1>2, <1>3, <1>5, <1>6, <1>7

\* Each step of the tool surface keeps the invariant.
LEMMA SurfaceStep ==
    ASSUME SurfaceInv, U!Next
    PROVE  SurfaceInv'
BY ChangesKeep, RefreshKeeps, LockKeeps, TurnsKeep DEF U!Next

\* Between refreshes a registry with the right skills and servers is the one wanted.
LEMMA RightIsWanted ==
    ASSUME SurfaceInv
    PROVE  U!TypeOK /\ U!RefreshIsEnough
<1> USE DEF SurfaceInv
<1>1. U!TypeOK
  <2>1. \A i \in 1 .. Len(scans) : scans[i].on \subseteq scans[i].found
    BY Scanned DEF Scans
  <2>2. QED
    BY <2>1 DEF U!TypeOK, SurfaceShapes, IsRegistry
<1>2. ASSUME fresh = "yes", refresh = None PROVE tools = U!Wanted
  <2>1. SkillsRight(tools) /\ ServersRight(tools)
    BY <1>2 DEF Progress, Before
  <2>2. U!Wanted = [n \in U!Current.on \cup up |-> IF n \in U!Current.on THEN Len(scans) ELSE 0]
    BY DEF U!Wanted, U!Extended, U!Empty
  <2>3. U!Current.on \subseteq {1} /\ up \subseteq {3}
    BY Scanned DEF Scans, SurfaceShapes
  <2>4. DOMAIN tools = U!Current.on \cup up
    <3>1. DOMAIN tools \subseteq {1, 3}
      BY DEF SurfaceShapes, IsRegistry, U!Registry
    <3>2. QED
      BY <2>1, <2>3, <3>1 DEF SkillsRight, ServersRight
  <2>5. \A n \in DOMAIN tools : tools[n] = IF n \in U!Current.on THEN Len(scans) ELSE 0
    <3>1. \A n \in DOMAIN tools : n \in {3} => tools[n] = 0
      BY DEF SurfaceShapes, IsRegistry, U!Registry
    <3>2. QED
      BY <2>1, <2>3, <2>4, <3>1 DEF SkillsRight
  <2>6. tools = [n \in DOMAIN tools |-> tools[n]]
    BY DEF SurfaceShapes, IsRegistry
  <2>7. QED
    BY <2>2, <2>4, <2>5, <2>6
<1>3. QED
  BY <1>1, <1>2 DEF U!RefreshIsEnough

\* Whatever changes while a resolver installs a server or a refresh holds the lock, and
\* however refreshes, agent builds and skill turns interleave: a server that is started
\* is installed and is the one its user wrote, and once the refreshes have ended the
\* agents are offered a tool per enabled skill and per connected server
\* (mcp/launcher.go, registry_resolve.go connectServer; sessionmgr.go RefreshAllTools;
\* plugins/skill.go and plugins/mcp.go Register).
THEOREM Offering == MCSpec => []ToolsAreOffered
<1> DEFINE OInv == LauncherInv /\ SurfaceInv
<1>1. MCInit => OInv
  BY LauncherInit, SurfaceInit DEF MCInit
<1>2. OInv /\ [MCNext]_<<vars, launcherVars, surfaceVars, harnessVars, part>> => OInv'
  <2> SUFFICES ASSUME OInv, [MCNext]_<<vars, launcherVars, surfaceVars, harnessVars, part>>
               PROVE  OInv'
    OBVIOUS
  <2>1. ASSUME UNCHANGED launcherVars PROVE LauncherInv'
    BY <2>1
       DEF launcherVars, LauncherInv, AtInstall, Launched, Runner, L!NamesPackage, L!PackageAt,
           L!ExtraArgs
  <2>2. ASSUME UNCHANGED surfaceVars PROVE SurfaceInv'
    BY <2>2
       DEF surfaceVars, SurfaceInv, SurfaceShapes, Progress, Before, IsRegistry, U!Registry,
           SkillsRight, ServersRight, Holds, U!Current
  <2>3. LauncherInv'
    BY <2>1, LauncherStep DEF MCNext
  <2>4. SurfaceInv'
    BY <2>2, SurfaceStep DEF MCNext
  <2>5. QED
    BY <2>3, <2>4
<1>3. OInv => ToolsAreOffered
  BY LauncherKeepsItsWord, RightIsWanted DEF ToolsAreOffered
<1>4. QED
  BY <1>1, <1>2, <1>3, PTL DEF MCSpec

(***************************************************************************)
(* Harness: the inductive invariant.                                       *)
(***************************************************************************)
Busy == [pc : {"register", "record", "unregister"}, plugin : {p1, p2}, harness : MCBuilds]
Reasons == {"forced_plugin", "forced_default_plugin", "auto_plugin",
            "implicit_plugin_unsupported", "implicit_plugin_unavailable",
            "default_plugin_unavailable", "auto_embedded_fallback"}
Decisions == [harness : H!Harnesses, context : MCContexts, reason : Reasons]
Running == [pc : {"running"}, session : {"s"}, gen : Nat]
Refused == [pc : {"refused"}, session : {"s"}, bound : Decisions]
Ended == [pc : {"ended"}, session : {"s"}, status : {"ok", "timeout", "aborted", "error"},
          superseded : BOOLEAN]

\* Registrations are filed under their ids and were verified; the harness a worker
\* carries, or the manager has loaded, is one that the plugin built.
Filed ==
    /\ \A i \in DOMAIN registry :
         /\ registry[i] \in H!Harnesses /\ registry[i].id = i /\ registry[i].verified
         /\ registry[i].declares \in {NoPlugin, registry[i].plugin}
    /\ DOMAIN loaded \subseteq {p1, p2}
    /\ \A p \in DOMAIN loaded : loaded[p] \in MCBuilds /\ loaded[p].plugin = p
    /\ work \in [Workers -> Busy \cup {H!Idle}]
    /\ \A w \in Workers : work[w] \in Busy => work[w].harness.plugin = work[w].plugin

\* A registered harness has an owner that is loaded, or a worker that has registered it
\* and is to record it, or that has taken it from the loaded ones and is to unregister it.
Owned(i) ==
    \/ registry[i].plugin = NoPlugin
    \/ registry[i].plugin \in DOMAIN loaded
    \/ \E w \in Workers : /\ work[w] \in Busy /\ work[w].pc \in {"record", "unregister"}
                          /\ work[w].plugin = registry[i].plugin
AllOwned == H!OneIdEach => \A i \in DOMAIN registry : Owned(i)

\* What selection hands to a session was asked for, or is the fallback, or can host it.
Picked(b) ==
    \/ {b.context.explicit, b.context.default, b.context.requested} # {NoId}
    \/ b.harness.id = 1
    \/ H!Hosts(b.harness, b.context.verbs)
Bindings ==
    /\ bound \in [{"s"} -> Decisions \cup {None}]
    /\ \A s \in {"s"} : bound[s] # None => bound[s] \in Decisions /\ Picked(bound[s])

\* An attempt belongs to a generation its session has reached; one that was overtaken
\* belongs to an earlier one, or has told so.
Attempted ==
    /\ gen \in [{"s"} -> 0 .. MaxGen] /\ overtaken \subseteq Slots
    /\ attempt \in [Slots -> {H!NoAttempt} \cup Running \cup Refused \cup Ended]
    /\ \A a \in Slots :
         /\ attempt[a].pc = "running" => attempt[a].gen <= gen[attempt[a].session]
         /\ attempt[a].pc = "refused" =>
              Picked(attempt[a].bound) /\ ~H!Hosts(attempt[a].bound.harness, attempt[a].bound.context.verbs)
    /\ \A a \in overtaken :
         /\ attempt[a].pc = "running" => attempt[a].gen < gen[attempt[a].session]
         /\ attempt[a].pc = "ended" => attempt[a].superseded

HarnessInv == Filed /\ AllOwned /\ Bindings /\ Attempted

\* The harnesses have ids that can be compared, and two priorities; those the program
\* registers by itself are in order.
LEMMA Harnesses ==
    /\ \A h \in H!Harnesses : h.id \in 1 .. 3 /\ h.priority \in 1 .. 2
    /\ \A h \in MCBuiltIns : h.verified /\ h.declares = NoPlugin
    /\ NoId \notin Nat /\ NoPlugin \notin {p1, p2} /\ MaxGen \in Nat
<1>1. \A h \in H!Harnesses : h.id \in 1 .. 3 /\ h.priority \in 1 .. 2
  BY DEF H!Harnesses, MCBuiltIns, MCBuilds, Plug
<1>2. \A h \in MCBuiltIns : h.verified /\ h.declares = NoPlugin
  BY DEF MCBuiltIns, Plug
<1>3. NoId \notin Nat /\ NoPlugin \notin {p1, p2} /\ MaxGen \in Nat
  BY PartsAssumption DEF PartsAssumption, H!IdsAreNumbers, H!PluginsAreNamed, H!BoundIsNumber
<1>4. QED
  BY <1>1, <1>2, <1>3

\* At startup only harnesses of the program itself are registered.
LEMMA HarnessInit ==
    ASSUME H!Init
    PROVE  HarnessInv
<1>1. PICK S \in SUBSET MCBuiltIns :
        registry = [i \in {h.id : h \in S} |-> CHOOSE h \in S : h.id = i]
  BY DEF H!Init
<1>2. \A i \in DOMAIN registry : registry[i] \in S /\ registry[i].id = i
  BY <1>1
<1>3. \A i \in DOMAIN registry : registry[i].plugin = NoPlugin
  BY <1>2 DEF MCBuiltIns, Plug
<1>4. loaded = <<>> /\ DOMAIN loaded = {}
  BY DEF H!Init
<1>5. Filed
  BY <1>2, <1>4, Harnesses DEF H!Init, Filed, H!Harnesses, H!Idle, Busy
<1>6. AllOwned
  BY <1>3 DEF AllOwned, Owned
<1>7. Bindings
  BY DEF Bindings, H!Init
<1>8. Attempted
  BY Harnesses DEF Attempted, H!Init, H!NoAttempt
<1>9. QED
  BY <1>5, <1>6, <1>7, <1>8 DEF HarnessInv

\* Whatever is ranked, one harness beats the others: the ids tell any two apart.
LEMMA BestIsRanked ==
    ASSUME Filed, NEW c, H!Rank(c) # {}
    PROVE  H!Best(c) \in H!Rank(c)
<1> DEFINE R == H!Rank(c)
           High == {h \in R : h.priority = 2}
           Top == IF High = {} THEN R ELSE High
           Least(k) == \E h \in Top : h.id = k /\ \A g \in Top : g.id >= k
<1>1. \A h \in R : /\ h.id \in 1 .. 3 /\ h.priority \in 1 .. 2
                   /\ h = registry[h.id] /\ h.id \in DOMAIN registry
  BY Harnesses DEF Filed, H!Rank, H!Range
<1>2. Top # {} /\ Top \subseteq R
  OBVIOUS
<1>3. Least(1) \/ Least(2) \/ Least(3)
  <2>1. \A h \in Top : h.id \in 1 .. 3
    BY <1>1, <1>2
  <2>2. QED
    BY <1>2, <2>1
<1>4. PICK h \in Top : \A g \in Top : g.id >= h.id
  BY <1>3
<1>5. \A g \in R \ {h} : g.id # h.id
  BY <1>1, <1>2
<1>6. \A g \in R \ {h} : H!Beats(h, g)
  <2>1. \A g \in R : g.priority <= h.priority
    BY <1>1, <1>2
  <2>2. \A g \in R : g.priority = h.priority => g \in Top
    BY <1>1, <1>2
  <2>3. QED
    BY <1>1, <1>2, <1>4, <1>5, <2>1, <2>2 DEF H!Beats
<1> HIDE DEF R
<1>7. h \in R /\ \A g \in R \ {h} : H!Beats(h, g)
  BY <1>2, <1>6
<1>8. QED
  BY <1>7 DEF R, H!Best

\* A decision names a registered harness, and one that ranking has picked hosts the
\* facilities that were asked for.
LEMMA SelectionPicks ==
    ASSUME Filed, NEW c \in MCContexts, NEW d \in H!SelectHarness(c)
    PROVE  d \in Decisions /\ Picked(d)
<1>1. \A i \in DOMAIN registry : registry[i] \in H!Harnesses /\ registry[i].id = i
  BY DEF Filed
<1>2. ASSUME NEW h \in H!Harnesses, NEW r \in Reasons,
             \/ {c.explicit, c.default, c.requested} # {NoId}
             \/ h.id = 1
             \/ H!Hosts(h, c.verbs)
      PROVE  H!Decision(h, c, r) \in Decisions /\ Picked(H!Decision(h, c, r))
  BY <1>2 DEF H!Decision, Decisions, Picked
<1>3. \A i : H!Registered(i) => registry[i] \in H!Harnesses /\ registry[i].id = i
  BY <1>1 DEF H!Registered
<1>4. H!Rank(c) \subseteq H!Harnesses /\ \A h \in H!Rank(c) : H!Hosts(h, c.verbs)
  BY <1>1 DEF H!Rank, H!Range, H!Eligible
<1>5. ASSUME NEW x, x # NoId, x \in {c.explicit, c.default, c.requested}
      PROVE  {c.explicit, c.default, c.requested} # {NoId}
  BY <1>5
<1>6. CASE c.explicit # NoId
  <2>1. H!SelectHarness(c) = IF H!Registered(c.explicit)
                               THEN {H!Decision(registry[c.explicit], c, "forced_plugin")} ELSE {}
    BY <1>6 DEF H!SelectHarness
  <2>2. H!Registered(c.explicit) /\ d = H!Decision(registry[c.explicit], c, "forced_plugin")
    BY <2>1
  <2>3. "forced_plugin" \in Reasons
    BY DEF Reasons
  <2>4. QED
    BY <1>2, <1>3, <1>5, <1>6, <2>2, <2>3
<1>7. CASE c.explicit = NoId /\ c.default # NoId /\ H!Registered(c.default)
  <2>1. H!SelectHarness(c) = {H!Decision(registry[c.default], c, "forced_default_plugin")}
    BY <1>7 DEF H!SelectHarness
  <2>2. "forced_default_plugin" \in Reasons
    BY DEF Reasons
  <2>3. QED
    BY <1>2, <1>3, <1>5, <1>7, <2>1, <2>2
<1>8. CASE c.explicit = NoId /\ ~(c.default # NoId /\ H!Registered(c.default))
  <2> DEFINE Asked == /\ c.requested # NoId /\ H!Registered(c.requested)
                      /\ H!Supports(registry[c.requested], c)
             Why == IF H!Registered(c.requested) THEN "implicit_plugin_unsupported"
                                                 ELSE "implicit_plugin_unavailable"
  <2>1. H!SelectHarness(c) =
          IF Asked THEN {H!Decision(registry[c.requested], c, "auto_plugin")}
          ELSE IF c.requested # NoId /\ H!EmbeddedHealthy THEN {H!Decision(registry[1], c, Why)}
          ELSE IF H!Rank(c) # {} \/ H!Registered(1) THEN {H!AutoDecision(c)} ELSE {}
    BY <1>8 DEF H!SelectHarness
  <2>2. CASE Asked
    <3>1. d = H!Decision(registry[c.requested], c, "auto_plugin")
      BY <2>1, <2>2
    <3>2. "auto_plugin" \in Reasons
      BY DEF Reasons
    <3>3. QED
      BY <1>2, <1>3, <1>5, <2>2, <3>1, <3>2
  <2>3. CASE ~Asked /\ c.requested # NoId /\ H!EmbeddedHealthy
    <3>1. d = H!Decision(registry[1], c, Why) /\ H!Registered(1)
      BY <2>1, <2>3 DEF H!EmbeddedHealthy
    <3>2. Why \in Reasons
      BY DEF Reasons
    <3> HIDE DEF Why
    <3>3. QED
      BY <1>2, <1>3, <1>5, <2>3, <3>1, <3>2
  <2>4. CASE ~Asked /\ ~(c.requested # NoId /\ H!EmbeddedHealthy)
    <3> DEFINE h == IF H!Rank(c) # {} THEN H!Best(c) ELSE registry[1]
               r == IF c.default # NoId THEN "default_plugin_unavailable"
                    ELSE IF h.id = 1 THEN "auto_embedded_fallback" ELSE "auto_plugin"
    <3>1. (H!Rank(c) # {} \/ H!Registered(1)) /\ d = H!AutoDecision(c)
      BY <2>1, <2>4
    <3>2. h \in H!Harnesses /\ (h.id = 1 \/ H!Hosts(h, c.verbs))
      BY <1>3, <1>4, <3>1, BestIsRanked
    <3>3. r \in Reasons
      BY DEF Reasons
    <3>4. d = H!Decision(h, c, r)
      BY <3>1 DEF H!AutoDecision
    <3> HIDE DEF h, r
    <3>5. QED
      BY <1>2, <3>2, <3>3, <3>4
  <2>5. QED
    BY <2>2, <2>3, <2>4
<1>9. QED
  BY <1>6, <1>7, <1>8

\* Loading and unloading: what is registered stays filed under its id.
LEMMA FiledKept ==
    ASSUME Filed,
           \/ \E w \in Workers, p \in {p1, p2}, h \in MCBuilds : H!LoadStart(w, p, h)
           \/ \E w \in Workers : H!LoadRegister(w) \/ H!LoadRecord(w) \/ H!UnloadRegistry(w)
           \/ \E w \in Workers, p \in {p1, p2} : H!UnloadTake(w, p)
    PROVE  Filed'
<1> USE DEF Filed
<1>1. ASSUME NEW w \in Workers, NEW p \in {p1, p2}, NEW h \in MCBuilds, H!LoadStart(w, p, h)
      PROVE  Filed'
  <2>1. [pc |-> "register", plugin |-> p, harness |-> h] \in Busy
    BY DEF Busy
  <2>2. QED
    BY <1>1, <2>1 DEF H!LoadStart
<1>2. ASSUME NEW w \in Workers, H!LoadRegister(w) PROVE Filed'
  <2>1. work[w] \in Busy /\ work[w].harness \in MCBuilds
    BY <1>2 DEF H!LoadRegister, Busy, H!Idle
  <2>2. [work[w] EXCEPT !.pc = "record"] \in Busy
    BY <2>1 DEF Busy
  <2>3. /\ work' \in [Workers -> Busy \cup {H!Idle}] /\ loaded' = loaded
        /\ \A v \in Workers : work'[v] \in Busy => work'[v].harness.plugin = work'[v].plugin
    BY <1>2, <2>1, <2>2 DEF H!LoadRegister, Busy, H!Idle
  <2>4. CASE ~H!Registrable(work[w].harness, work[w].plugin)
    BY <1>2, <2>3, <2>4 DEF H!LoadRegister
  <2>5. CASE H!Registrable(work[w].harness, work[w].plugin)
    <3> DEFINE g == work[w].harness
    <3>1. registry' = [i \in (DOMAIN registry) \cup {g.id} |-> IF i = g.id THEN g ELSE registry[i]]
      BY <1>2, <2>5 DEF H!LoadRegister
    <3>2. g \in H!Harnesses /\ g.verified /\ g.declares \in {NoPlugin, g.plugin}
      BY <2>1, <2>5 DEF H!Registrable, H!Harnesses
    <3>3. QED
      BY <2>3, <3>1, <3>2
  <2>6. QED
    BY <2>4, <2>5
<1>3. ASSUME NEW w \in Workers, H!LoadRecord(w) PROVE Filed'
  <2>1. /\ work[w] \in Busy /\ work[w].harness \in MCBuilds /\ work[w].plugin \in {p1, p2}
        /\ work[w].harness.plugin = work[w].plugin
    BY <1>3 DEF H!LoadRecord, Busy, H!Idle
  <2>2. /\ work' \in [Workers -> Busy \cup {H!Idle}] /\ registry' = registry
        /\ \A v \in Workers : work'[v] \in Busy => work'[v].harness.plugin = work'[v].plugin
    BY <1>3 DEF H!LoadRecord, Busy, H!Idle
  <2>3. loaded' = [p \in (DOMAIN loaded) \cup {work[w].plugin} |->
                     IF p = work[w].plugin THEN work[w].harness ELSE loaded[p]]
    BY <1>3 DEF H!LoadRecord
  <2>4. QED
    BY <2>1, <2>2, <2>3
<1>4. ASSUME NEW w \in Workers, NEW p \in {p1, p2}, H!UnloadTake(w, p) PROVE Filed'
  <2>1. [pc |-> "unregister", plugin |-> p, harness |-> loaded[p]] \in Busy
    BY <1>4 DEF H!UnloadTake, Busy
  <2>2. loaded' = [q \in (DOMAIN loaded) \ {p} |-> loaded[q]] /\ registry' = registry
    BY <1>4 DEF H!UnloadTake, H!Without, H!Restrict
  <2>3. QED
    BY <1>4, <2>1, <2>2 DEF H!UnloadTake
<1>5. ASSUME NEW w \in Workers, H!UnloadRegistry(w) PROVE Filed'
  <2>1. registry' = [i \in (DOMAIN registry) \ {work[w].harness.id} |-> registry[i]]
    BY <1>5 DEF H!UnloadRegistry, H!Without, H!Restrict
  <2>2. QED
    BY <1>5, <2>1 DEF H!UnloadRegistry, Busy, H!Idle
<1>6. QED
  BY <1>1, <1>2, <1>3, <1>4, <1>5

\* ... and what is registered has an owner: an Unload that takes a harness off the
\* registry takes off whatever its plugin has registered.
LEMMA OwnedKept ==
    ASSUME Filed, AllOwned,
           \/ \E w \in Workers, p \in {p1, p2}, h \in MCBuilds : H!LoadStart(w, p, h)
           \/ \E w \in Workers : H!LoadRegister(w) \/ H!LoadRecord(w) \/ H!UnloadRegistry(w)
           \/ \E w \in Workers, p \in {p1, p2} : H!UnloadTake(w, p)
    PROVE  AllOwned'
<1> SUFFICES ASSUME H!OneIdEach, NEW i \in DOMAIN registry'
             PROVE  Owned(i)'
  BY DEF AllOwned, H!OneIdEach
<1>0. \A j \in DOMAIN registry : Owned(j)
  BY DEF AllOwned
<1>1. ASSUME NEW w \in Workers, NEW p \in {p1, p2}, NEW h \in MCBuilds, H!LoadStart(w, p, h)
      PROVE  Owned(i)'
  <2>1. /\ UNCHANGED <<registry, loaded>> /\ work[w] = H!Idle
        /\ \A v \in Workers \ {w} : work'[v] = work[v]
    BY <1>1 DEF H!LoadStart, Filed
  <2>2. work[w] \notin Busy
    BY <2>1 DEF H!Idle, Busy
  <2>3. QED
    BY <1>0, <2>1, <2>2 DEF Owned
<1>2. ASSUME NEW w \in Workers, H!LoadRegister(w) PROVE Owned(i)'
  <2>1. work[w] \in Busy /\ work[w].pc = "register" /\ work[w].harness.plugin = work[w].plugin
    BY <1>2 DEF H!LoadRegister, Busy, H!Idle, Filed
  <2>2. loaded' = loaded /\ \A v \in Workers \ {w} : work'[v] = work[v]
    BY <1>2 DEF H!LoadRegister, Filed
  <2>3. CASE i \in DOMAIN registry /\ registry'[i] = registry[i]
    BY <1>0, <2>1, <2>2, <2>3 DEF Owned
  <2>4. CASE ~(i \in DOMAIN registry /\ registry'[i] = registry[i])
    <3> DEFINE g == work[w].harness
    <3>1. H!Registrable(g, work[w].plugin)
      BY <1>2, <2>4 DEF H!LoadRegister
    <3>2. /\ registry' = [j \in (DOMAIN registry) \cup {g.id} |-> IF j = g.id THEN g ELSE registry[j]]
          /\ work' = [work EXCEPT ![w].pc = "record"]
      BY <1>2, <3>1 DEF H!LoadRegister
    <3>3. registry'[i] = g
      BY <2>4, <3>2
    <3>4. work'[w] = [work[w] EXCEPT !.pc = "record"] /\ work'[w] \in Busy
      BY <2>1, <3>2 DEF Busy, Filed
    <3>5. work'[w].pc = "record" /\ work'[w].plugin = work[w].plugin
      BY <2>1, <3>4 DEF Busy
    <3>6. QED
      BY <2>1, <3>3, <3>4, <3>5 DEF Owned
  <2>5. QED
    BY <2>3, <2>4
<1>3. ASSUME NEW w \in Workers, H!LoadRecord(w) PROVE Owned(i)'
  <2>1. registry' = registry /\ DOMAIN loaded' = (DOMAIN loaded) \cup {work[w].plugin}
    BY <1>3 DEF H!LoadRecord
  <2>2. \A v \in Workers \ {w} : work'[v] = work[v]
    BY <1>3 DEF H!LoadRecord, Filed
  <2>3. QED
    BY <1>0, <2>1, <2>2 DEF Owned
<1>4. ASSUME NEW w \in Workers, NEW p \in {p1, p2}, H!UnloadTake(w, p) PROVE Owned(i)'
  <2>1. registry' = registry /\ DOMAIN loaded' = (DOMAIN loaded) \ {p}
    BY <1>4 DEF H!UnloadTake, H!Without, H!Restrict
  <2>2. work[w] \notin Busy /\ \A v \in Workers \ {w} : work'[v] = work[v]
    BY <1>4 DEF H!UnloadTake, Filed, Busy, H!Idle
  <2>3. work'[w] = [pc |-> "unregister", plugin |-> p, harness |-> loaded[p]] /\ work'[w] \in Busy
    BY <1>4 DEF H!UnloadTake, Filed, Busy
  <2>4. QED
    BY <1>0, <2>1, <2>2, <2>3 DEF Owned
<1>5. ASSUME NEW w \in Workers, H!UnloadRegistry(w) PROVE Owned(i)'
  <2>1. registry' = [j \in (DOMAIN registry) \ {work[w].harness.id} |-> registry[j]]
    BY <1>5 DEF H!UnloadRegistry, H!Without, H!Restrict
  <2>2. loaded' = loaded /\ \A v \in Workers \ {w} : work'[v] = work[v]
    BY <1>5 DEF H!UnloadRegistry, Filed
  <2>3. /\ i \in DOMAIN registry /\ registry'[i] = registry[i] /\ registry[i].id # work[w].harness.id
        /\ registry[i] \in H!Harnesses
    BY <2>1 DEF Filed
  <2>4. work[w].harness \in H!Harnesses /\ work[w].harness.plugin = work[w].plugin
    BY <1>5 DEF H!UnloadRegistry, H!Harnesses, Filed, Busy, H!Idle
  <2>5. registry[i].plugin # work[w].plugin
    BY <2>3, <2>4 DEF H!OneIdEach
  <2>6. QED
    BY <1>0, <2>2, <2>3, <2>5 DEF Owned
<1>6. QED
  BY <1>1, <1>2, <1>3, <1>4, <1>5

\* An attempt starts in the generation of its session, and ends having told of a reset.
LEMMA AttemptedKept ==
    ASSUME Bindings, Attempted,
           \/ \E a \in Slots, s \in {"s"} : H!Start(a, s)
           \/ \E a \in Slots, outcome \in H!Outcomes : H!Finish(a, outcome)
           \/ \E s \in {"s"} : H!ResetAll(s)
    PROVE  Attempted'
<1> USE DEF Attempted
<1>1. ASSUME NEW a \in Slots, NEW s \in {"s"}, H!Start(a, s) PROVE Attempted'
  <2> DEFINE b == bound[s]
             v == IF H!Hosts(b.harness, b.context.verbs)
                    THEN [pc |-> "running", session |-> s, gen |-> gen[s]]
                    ELSE [pc |-> "refused", session |-> s, bound |-> b]
  <2>1. /\ attempt' = [attempt EXCEPT ![a] = v] /\ gen' = gen
        /\ overtaken' = overtaken \ {a} /\ b # None
    BY <1>1 DEF H!Start
  <2>2. b \in Decisions /\ Picked(b)
    BY <2>1 DEF Bindings
  <2>3. v \in Running \cup Refused
    BY <2>2 DEF Running, Refused
  <2>4. /\ v.pc = "running" => v.gen <= gen[v.session]
        /\ v.pc = "refused" => Picked(v.bound) /\ ~H!Hosts(v.bound.harness, v.bound.context.verbs)
    BY <2>2
  <2> HIDE DEF v
  <2>5. QED
    BY <2>1, <2>3, <2>4
<1>2. ASSUME NEW a \in Slots, NEW outcome \in H!Outcomes, H!Finish(a, outcome) PROVE Attempted'
  <2>1. attempt[a] \in Running
    BY <1>2 DEF H!Finish, H!NoAttempt, Refused, Ended
  <2> DEFINE v == [pc |-> "ended", session |-> attempt[a].session, status |-> H!StatusFor(outcome),
                   superseded |-> gen[attempt[a].session] # attempt[a].gen]
  <2>2. attempt' = [attempt EXCEPT ![a] = v] /\ UNCHANGED <<gen, overtaken>>
    BY <1>2 DEF H!Finish
  <2>3. H!StatusFor(outcome) \in {"ok", "timeout", "aborted", "error"}
    BY DEF H!StatusFor, H!Outcomes
  <2>4. v \in Ended
    BY <2>1, <2>3 DEF Ended, Running
  <2>5. a \in overtaken => v.superseded
    <3>1. attempt[a].pc = "running" /\ attempt[a].gen \in Nat /\ attempt[a].session = "s"
      BY <2>1 DEF Running
    <3>2. gen["s"] \in Nat
      BY Harnesses
    <3>3. a \in overtaken => gen[attempt[a].session] # attempt[a].gen
      BY <3>1, <3>2
    <3>4. v.superseded = (gen[attempt[a].session] # attempt[a].gen)
      OBVIOUS
    <3>5. QED
      BY <3>3, <3>4 DEF Attempted
  <2>6. v.pc = "ended"
    OBVIOUS
  <2> HIDE DEF v
  <2>7. QED
    BY <2>2, <2>4, <2>5, <2>6
<1>3. ASSUME NEW s \in {"s"}, H!ResetAll(s) PROVE Attempted'
  <2>1. /\ gen[s] \in 0 .. MaxGen /\ gen[s] < MaxGen /\ gen' = [gen EXCEPT ![s] = gen[s] + 1]
        /\ attempt' = attempt
        /\ overtaken' = overtaken \cup {a \in Slots : attempt[a].pc = "running" /\ attempt[a].session = s}
    BY <1>3 DEF H!ResetAll, H!Bumped
  <2>2. gen' \in [{"s"} -> 0 .. MaxGen] /\ gen["s"] < gen'["s"] /\ gen["s"] \in Nat /\ gen'["s"] \in Nat
    BY <2>1, Harnesses
  <2>3. \A a \in Slots : attempt[a].pc = "running" => attempt[a].session = "s" /\ attempt[a].gen \in Nat
    BY DEF Running, H!NoAttempt, Refused, Ended
  <2>4. QED
    BY <2>1, <2>2, <2>3
<1>4. QED
  BY <1>1, <1>2, <1>3

\* Each step of the harness layer keeps the invariant.
LEMMA HarnessStep ==
    ASSUME HarnessInv, H!Next
    PROVE  HarnessInv'
<1> USE DEF HarnessInv
<1>1. CASE \/ \E w \in Workers, p \in {p1, p2}, h \in MCBuilds : H!LoadStart(w, p, h)
           \/ \E w \in Workers : H!LoadRegister(w) \/ H!LoadRecord(w) \/ H!UnloadRegistry(w)
           \/ \E w \in Workers, p \in {p1, p2} : H!UnloadTake(w, p)
  <2>1. UNCHANGED <<bound, gen, attempt, overtaken>>
    BY <1>1 DEF H!LoadStart, H!LoadRegister, H!LoadRecord, H!UnloadRegistry, H!UnloadTake
  <2>2. Bindings' /\ Attempted'
    BY <2>1 DEF Bindings, Attempted
  <2>3. QED
    BY <1>1, <2>2, FiledKept, OwnedKept
<1>2. CASE \E s \in {"s"}, c \in MCContexts : H!Select(s, c)
  <2>1. PICK s \in {"s"}, c \in MCContexts : H!Select(s, c)
    BY <1>2
  <2>2. PICK d \in H!SelectHarness(c) : bound' = [bound EXCEPT ![s] = d]
    BY <2>1 DEF H!Select
  <2>3. Bindings'
    BY <2>2, SelectionPicks DEF Bindings
  <2>4. UNCHANGED <<registry, loaded, work, gen, attempt, overtaken>>
    BY <2>1 DEF H!Select
  <2>5. QED
    BY <2>3, <2>4 DEF Filed, AllOwned, Owned, Attempted
<1>3. CASE \/ \E a \in Slots, s \in {"s"} : H!Start(a, s)
           \/ \E a \in Slots, outcome \in H!Outcomes : H!Finish(a, outcome)
           \/ \E s \in {"s"} : H!ResetAll(s)
  <2>1. UNCHANGED <<registry, loaded, work, bound>>
    BY <1>3 DEF H!Start, H!Finish, H!ResetAll
  <2>2. QED
    BY <1>3, <2>1, AttemptedKept DEF Filed, AllOwned, Owned, Bindings
<1>4. QED
  BY <1>1, <1>2, <1>3 DEF H!Next

\* However the loads and unloads of plugins, the selections, the attempts and the resets
\* interleave: no harness of an unloaded plugin stays registered, an attempt is refused
\* only under a harness that was asked for or is the fallback, and an attempt that was
\* overtaken by a reset says so (harness/manager.go Load, Unload; selection.go
\* SelectHarness; lifecycle.go RunAttemptWithLifecycle).
THEOREM Selecting == MCSpec => []HarnessIsSelected
<1>1. MCInit => HarnessInv
  BY HarnessInit DEF MCInit
<1>2. HarnessInv /\ [MCNext]_<<vars, launcherVars, surfaceVars, harnessVars, part>> => HarnessInv'
  <2> SUFFICES ASSUME HarnessInv, [MCNext]_<<vars, launcherVars, surfaceVars, harnessVars, part>>
               PROVE  HarnessInv'
    OBVIOUS
  <2>1. CASE H!Next
    BY <2>1, HarnessStep
  <2>2. CASE UNCHANGED harnessVars
    BY <2>2 DEF harnessVars, HarnessInv, Filed, AllOwned, Owned, Bindings, Attempted
  <2>3. QED
    BY <2>1, <2>2 DEF MCNext
<1>3. HarnessInv => HarnessIsSelected
  <2> SUFFICES ASSUME HarnessInv PROVE HarnessIsSelected
    OBVIOUS
  <2> USE DEF HarnessInv
  <2>1. H!TypeOK
    BY DEF H!TypeOK, Filed, Attempted
  <2>2. H!NothingLeftBehind
    <3>1. \A w \in Workers : work[w] \in Busy => work[w] # H!Idle
      BY DEF Busy, H!Idle
    <3>2. QED
      BY <3>1 DEF H!NothingLeftBehind, AllOwned, Owned
  <2>3. H!RankedIsNotRefused
    BY DEF H!RankedIsNotRefused, Attempted, Picked
  <2>4. H!ResetIsReported
    BY DEF H!ResetIsReported, Attempted
  <2>5. QED
    BY <2>1, <2>2, <2>3, <2>4 DEF HarnessIsSelected
<1>4. QED
  BY <1>1, <1>2, <1>3, PTL DEF MCSpec
==============================================================================
