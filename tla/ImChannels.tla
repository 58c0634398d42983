--------------------------- MODULE ImChannels ---------------------------
(***************************************************************************)
(* The IM channels: im/manager.go with the polling connector               *)
(* (im/weixin/weixin.go) and the path of a message through a session's     *)
(* loop and back (sessionmgr.go SubmitForIM, loop.go executeTurn).         *)
(*                                                                         *)
(* The gateway's only connection handles one operation on a channel at a   *)
(* time; the connectors' poll goroutines and the sessions' loops run       *)
(* beside it and read the manager's maps between its steps.  The chat      *)
(* service is external: it keeps each channel's messages and hands out     *)
(* those after the cursor it is given.                                     *)
(***************************************************************************)
EXTENDS Naturals, Sequences

CONSTANTS Ids,          \* configured instances
          Peers,
          None,
          MaxConns,     \* bound: connectors built in one life of the process
          MaxMessages,  \* bound: messages the peers of an instance write
          MaxTurns,     \* bound: turns a session executes or has parked
          MaxOps,       \* bound: operations on the channels
          MaxRestarts   \* bound: crashes of the process

Modes == {"open", "allowlist", "disabled"}
Row == [on: BOOLEAN, mode: Modes, allow: SUBSET Peers]

ConstantsAssumption ==
    /\ None \notin Ids \cup Peers \cup Nat \cup Row
    /\ MaxConns \in Nat /\ MaxMessages \in Nat /\ MaxTurns \in Nat /\ MaxOps \in Nat /\ MaxRestarts \in Nat

VARIABLES
    rows,      \* table im_channels
    byID,      \* Manager.byID: the manager's copy of a row
    live,      \* Manager.instances: the tracked connector
    conn,      \* every connector built in this life of the process
    op,        \* the operation in progress
    failed,    \* the instance's last build, start or delete failed
    inbox,     \* external: the messages of an instance, by sender
    queue,     \* how many turns the session's loop executes or has parked
    sending,   \* the connector the session's reply is handed to
    ops, restarts

memory == <<byID, live, conn, op, failed, queue, sending>>
sessions == <<queue, sending>>
vars == <<rows, memory, inbox, ops, restarts>>

Session == Ids \X Peers
Conns == DOMAIN conn
Idle == [kind |-> "none", id |-> None, at |-> "done", old |-> None, todo |-> {}]

Stopped(k) == conn[k].told

-----------------------------------------------------------------------------
Init ==
    /\ rows \in [Ids -> {None} \cup {r \in Row : r.mode = "open" /\ r.allow = {}}]
    /\ byID = [i \in Ids |-> None] /\ live = [i \in Ids |-> None] /\ conn = <<>>
    /\ op = [Idle EXCEPT !.kind = "reload", !.at = "next", !.todo = Ids]
    /\ failed = [i \in Ids |-> FALSE]
    /\ inbox = [i \in Ids |-> <<>>]
    /\ queue = [s \in Session |-> 0] /\ sending = [s \in Session |-> None]
    /\ ops = 0 /\ restarts = 0

-----------------------------------------------------------------------------
(* The operations.                                                         *)

Begin(kind, i, at) ==
    /\ op = Idle /\ ops < MaxOps
    /\ ops' = ops + 1
    /\ op' = [Idle EXCEPT !.kind = kind, !.id = i, !.at = at]

Goto(at) == op' = [op EXCEPT !.at = at]

\* The row is inserted and published; an enabled one is built.
Create(i) ==
    /\ rows[i] = None
    /\ \E r \in {r \in Row : r.mode # "allowlist" => r.allow = {}} :
         /\ Begin("create", i, IF r.on THEN "build" ELSE "done")
         /\ rows' = [rows EXCEPT ![i] = r]
         /\ byID' = [byID EXCEPT ![i] = r]
    /\ UNCHANGED <<live, conn, failed, sessions, inbox, restarts>>

\* Fault: the manager's copy keeps the mode the row had.
PublishedKeepsMode(i, r) == [rows[i] EXCEPT !.on = rows[i].on]

\* The copy Update publishes: the row it read, with the mode of the patch; the
\* allowlist of the patch is not copied.
Published(i, r) == [rows[i] EXCEPT !.mode = r.mode]

\* An edit of the row, which leaves its enabled flag alone.
Update(i) ==
    /\ rows[i] # None
    /\ \E r \in Row :
         /\ r.on = rows[i].on
         /\ Begin("update", i, IF r.on /\ live[i] # None THEN "untrack" ELSE "done")
         /\ rows' = [rows EXCEPT ![i] = r]
         /\ byID' = [byID EXCEPT ![i] = Published(i, r)]
    /\ UNCHANGED <<live, conn, failed, sessions, inbox, restarts>>

\* Both the row and the copy take the flag.  The caller's own view of the flag
\* may be old: nothing here compares it with the row.
SetEnabled(i, on) ==
    /\ rows[i] # None
    /\ Begin("enable", i, IF on THEN "build" ELSE "untrack")
    /\ rows' = [rows EXCEPT ![i].on = on]
    /\ byID' = [byID EXCEPT ![i] = [rows[i] EXCEPT !.on = on]]
    /\ UNCHANGED <<live, conn, failed, sessions, inbox, restarts>>

\* Connector and copy leave the maps under one lock.
Delete(i) ==
    /\ rows[i] # None
    /\ op = Idle /\ ops < MaxOps
    /\ ops' = ops + 1
    /\ op' = [Idle EXCEPT !.kind = "delete", !.id = i, !.at = "stop", !.old = live[i]]
    /\ live' = [live EXCEPT ![i] = None]
    /\ byID' = [byID EXCEPT ![i] = None]
    /\ UNCHANGED <<rows, conn, failed, sessions, inbox, restarts>>

\* Fault: the connector is stopped while the manager still hands it out.
UntrackAfterStop ==
    /\ op.at = "untrack"
    /\ op' = [op EXCEPT !.at = "stop", !.old = live[op.id]]
    /\ conn' = IF live[op.id] = None THEN conn ELSE [conn EXCEPT ![live[op.id]].told = TRUE]
    /\ UNCHANGED <<rows, byID, live, failed, sessions, inbox, ops, restarts>>

\* The old connector leaves the map before it is stopped.
Untrack ==
    /\ op.at = "untrack"
    /\ op' = [op EXCEPT !.at = "stop", !.old = live[op.id]]
    /\ live' = [live EXCEPT ![op.id] = None]
    /\ UNCHANGED <<rows, byID, conn, failed, sessions, inbox, ops, restarts>>

\* Stop only closes the channel the poll loop looks at.
StopOld ==
    /\ op.at = "stop"
    /\ conn' = IF op.old = None THEN conn ELSE [conn EXCEPT ![op.old].told = TRUE]
    /\ Goto(CASE op.kind = "delete" -> "row" [] op.kind = "update" -> "build" [] OTHER -> "done")
    /\ UNCHANGED <<rows, byID, live, failed, sessions, inbox, ops, restarts>>

\* The row goes last; a failing statement leaves it behind.
DeleteRow ==
    /\ op.at = "row"
    /\ \E works \in BOOLEAN :
         /\ rows' = IF works THEN [rows EXCEPT ![op.id] = None] ELSE rows
         /\ failed' = [failed EXCEPT ![op.id] = ~works]
    /\ Goto("done")
    /\ UNCHANGED <<byID, live, conn, sessions, inbox, ops, restarts>>

\* Reload publishes each row and builds the enabled ones.
ReloadRow(i) ==
    /\ op.kind = "reload" /\ op.at = "next" /\ i \in op.todo
    /\ byID' = [byID EXCEPT ![i] = rows[i]]
    /\ op' = [op EXCEPT !.todo = @ \ {i}, !.id = i,
                        !.at = IF rows[i] # None /\ rows[i].on THEN "build" ELSE "next"]
    /\ UNCHANGED <<rows, live, conn, failed, sessions, inbox, ops, restarts>>

Next1 == IF op.kind = "reload" THEN "next" ELSE "done"

\* The builder refuses the configuration.
BuildFails ==
    /\ op.at = "build"
    /\ failed' = [failed EXCEPT ![op.id] = TRUE]
    /\ Goto(Next1)
    /\ UNCHANGED <<rows, byID, live, conn, sessions, inbox, ops, restarts>>

\* The new connector is tracked before it is started, over whatever was there.
Build ==
    /\ op.at = "build" /\ Len(conn) < MaxConns
    /\ conn' = Append(conn, [id |-> op.id, told |-> FALSE, loop |-> "none",
                             cursor |-> 0, batch |-> <<>>])
    /\ live' = [live EXCEPT ![op.id] = Len(conn) + 1]
    /\ Goto("start")
    /\ UNCHANGED <<rows, byID, failed, sessions, inbox, ops, restarts>>

\* Start without a token, or with one the service refuses, runs no poll loop;
\* buildInstance only logs the error.
Start ==
    /\ op.at = "start"
    /\ \E works \in BOOLEAN :
         /\ conn' = [conn EXCEPT ![live[op.id]].loop = IF works THEN "top" ELSE "none"]
         /\ failed' = [failed EXCEPT ![op.id] = ~works]
    /\ Goto(Next1)
    /\ UNCHANGED <<rows, byID, live, sessions, inbox, ops, restarts>>

\* The answer goes out, and the next request of the connection is read.
Done ==
    /\ op.at = "done" \/ (op.kind = "reload" /\ op.at = "next" /\ op.todo = {})
    /\ op # Idle
    /\ op' = Idle
    /\ UNCHANGED <<rows, byID, live, conn, failed, sessions, inbox, ops, restarts>>

-----------------------------------------------------------------------------
(* A connector's poll loop.                                                *)

\* The select at the head of the loop.
Look(k) ==
    /\ conn[k].loop = "top"
    /\ conn' = [conn EXCEPT ![k].loop = IF conn[k].told THEN "ended" ELSE "polling"]
    /\ UNCHANGED <<rows, byID, live, op, failed, sessions, inbox, ops, restarts>>

\* fetchUpdates: the cursor moves before the messages are handled.  Without a
\* cursor the service decides where to begin.
Fetched(k) ==
    /\ conn[k].loop = "polling"
    /\ LET box == inbox[conn[k].id]
       IN \E from \in (IF conn[k].cursor = 0 THEN 0 .. Len(box) ELSE {conn[k].cursor}) :
            conn' = [conn EXCEPT ![k].loop = "handling", ![k].cursor = Len(box),
                                 ![k].batch = SubSeq(box, from + 1, Len(box))]
    /\ UNCHANGED <<rows, byID, live, op, failed, sessions, inbox, ops, restarts>>

\* The service no longer knows the session (-14): the cursor is forgotten.
FetchTimesOut(k) ==
    /\ conn[k].loop = "polling"
    /\ conn' = [conn EXCEPT ![k].loop = "top", ![k].cursor = 0]
    /\ UNCHANGED <<rows, byID, live, op, failed, sessions, inbox, ops, restarts>>

\* Any other error: the loop sleeps for the backoff and looks again.
FetchFails(k) ==
    /\ conn[k].loop = "polling"
    /\ conn' = [conn EXCEPT ![k].loop = "top"]
    /\ UNCHANGED <<rows, byID, live, op, failed, sessions, inbox, ops, restarts>>

\* The manager's copy of the row lets this sender in.
Authorized(i, p) ==
    /\ byID[i] # None
    /\ byID[i].mode # "disabled"
    /\ byID[i].mode = "allowlist" => p \in byID[i].allow

\* handleInbound: the policy is read in one step ...
Inbound(k) ==
    /\ conn[k].loop = "handling"
    /\ conn' = [conn EXCEPT ![k].loop =
                  IF conn[k].batch = <<>> THEN "top"
                  ELSE IF Authorized(conn[k].id, Head(conn[k].batch)) THEN "submit"
                  ELSE "next"]
    /\ UNCHANGED <<rows, byID, live, op, failed, sessions, inbox, ops, restarts>>

\* ... and the turn submitted in another, after the session row was written.
\* A session whose loop was just closed refuses it, which is only logged.
Submit(k) ==
    /\ conn[k].loop = "submit"
    /\ conn' = [conn EXCEPT ![k].loop = "next"]
    /\ queue' \in LET s == <<conn[k].id, Head(conn[k].batch)>>
                  IN {queue} \cup {q \in {[queue EXCEPT ![s] = @ + 1]} : q[s] <= MaxTurns}
    /\ UNCHANGED <<rows, byID, live, op, failed, sending, inbox, ops, restarts>>

Handled(k) ==
    /\ conn[k].loop = "next"
    /\ conn' = [conn EXCEPT ![k].loop = "handling", ![k].batch = Tail(@)]
    /\ UNCHANGED <<rows, byID, live, op, failed, sessions, inbox, ops, restarts>>

-----------------------------------------------------------------------------
(* The session's loop and the way back.                                    *)

\* The run settles: its text goes to the sink, which looks up the connector that
\* is tracked now.  No text, or no connector, and the reply is dropped.
Settle(s) ==
    /\ queue[s] > 0 /\ sending[s] = None
    /\ \/ /\ live[s[1]] # None
          /\ sending' = [sending EXCEPT ![s] = live[s[1]]]
          /\ queue' = queue
       \/ /\ queue' = [queue EXCEPT ![s] = @ - 1]
          /\ sending' = sending
    /\ UNCHANGED <<rows, byID, live, conn, op, failed, inbox, ops, restarts>>

\* Send returns; the executed turn ends with it.
Sent(s) ==
    /\ sending[s] # None
    /\ sending' = [sending EXCEPT ![s] = None]
    /\ queue' = [queue EXCEPT ![s] = @ - 1]
    /\ UNCHANGED <<rows, byID, live, conn, op, failed, inbox, ops, restarts>>

\* Abort drops the parked turns, whose sinks are never called.
AbortSession(s) ==
    /\ queue[s] > 1
    /\ queue' = [queue EXCEPT ![s] = 1]
    /\ UNCHANGED <<rows, byID, live, conn, op, failed, sending, inbox, ops, restarts>>

-----------------------------------------------------------------------------
\* External: a peer writes.
PeerWrites(i, p) ==
    /\ Len(inbox[i]) < MaxMessages
    /\ inbox' = [inbox EXCEPT ![i] = Append(@, p)]
    /\ UNCHANGED <<rows, memory, ops, restarts>>

\* The process ends and another one reloads the table.
Restart ==
    /\ restarts < MaxRestarts
    /\ restarts' = restarts + 1
    /\ byID' = [i \in Ids |-> None] /\ live' = [i \in Ids |-> None] /\ conn' = <<>>
    /\ op' = [Idle EXCEPT !.kind = "reload", !.at = "next", !.todo = Ids]
    /\ failed' = [i \in Ids |-> FALSE]
    /\ queue' = [s \in Session |-> 0] /\ sending' = [s \in Session |-> None]
    /\ UNCHANGED <<rows, inbox, ops>>

Operate == Untrack \/ StopOld \/ DeleteRow \/ BuildFails \/ Build \/ Start \/ Done
           \/ \E i \in Ids : ReloadRow(i)
PollStep(k) == Look(k) \/ Fetched(k) \/ FetchTimesOut(k) \/ FetchFails(k)
               \/ Inbound(k) \/ Submit(k) \/ Handled(k)

Next ==
    \/ \E i \in Ids : Create(i) \/ Update(i) \/ Delete(i) \/ \E on \in BOOLEAN : SetEnabled(i, on)
    \/ Operate
    \/ \E k \in Conns : PollStep(k)
    \/ \E s \in Session : Settle(s) \/ Sent(s) \/ AbortSession(s)
    \/ \E i \in Ids, p \in Peers : PeerWrites(i, p)
    \/ Restart

Spec == Init /\ [][Next]_vars

-----------------------------------------------------------------------------
(* Properties.                                                             *)

Connector == [id: Ids, told: BOOLEAN, cursor: 0 .. MaxMessages,
              loop: {"none", "top", "polling", "handling", "submit", "next", "ended"},
              batch: UNION {[1 .. n -> Peers] : n \in 0 .. MaxMessages}]

\* Shapes: rows, the manager's maps, every connector and the operation.
TypeOK ==
    /\ rows \in [Ids -> {None} \cup Row]
    /\ byID \in [Ids -> {None} \cup Row]
    /\ Len(conn) <= MaxConns /\ \A k \in Conns : conn[k] \in Connector
    /\ \A i \in Ids : live[i] # None => live[i] \in Conns /\ conn[live[i]].id = i
    /\ \A s \in Session : sending[s] # None => sending[s] \in Conns /\ queue[s] > 0
    /\ op.at \in {"next", "build", "start", "untrack", "stop", "row", "done"}
    /\ op.kind \in {"none", "create", "update", "enable", "delete", "reload"}

\* Once an operation, or the reload after a crash, has answered, the tracked
\* connectors are those of the enabled rows, but for the builds that failed
\* (manager.go SetEnabled, Update, Delete, Reload).
TrackedFollowsRows ==
    op = Idle =>
      \A i \in Ids :
        /\ live[i] # None => rows[i] # None /\ rows[i].on
        /\ rows[i] # None /\ rows[i].on /\ byID[i] # None /\ ~failed[i] => live[i] # None

\* The manager never hands out a connector it has stopped, so a reply that looks
\* its connector up while a channel is edited, disabled or deleted finds a
\* running one or none (manager.go sendReply against Update, SetEnabled, Delete).
TrackedIsNotStopped == \A i \in Ids : live[i] # None => ~Stopped(live[i])

\* Between operations a message is let in by the mode the table holds, whatever
\* was edited, toggled or restarted before (manager.go authorized, Update).
AcceptedUnderStoredMode ==
    [][\A k \in Conns \cap DOMAIN conn' :
         op = Idle /\ conn[k].loop = "handling" /\ conn'[k].loop = "submit"
         => rows[conn[k].id] # None /\ rows[conn[k].id].mode # "disabled"]_<<conn>>

=============================================================================
