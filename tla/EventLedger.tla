--------------------------- MODULE EventLedger ---------------------------
(***************************************************************************)
(* The way of events to the user interface: the event ledger               *)
(* (gateway/eventledger.go) and the WebSocket connections it writes to     *)
(* (gateway/client.go, gateway/server.go).  Its writers are one goroutine  *)
(* for each session, fed by the session's bus, and the callers of          *)
(* Broadcast, here the scheduler's tick.                                   *)
(*                                                                         *)
(* A bus drops its oldest event when the ledger's channel is full          *)
(* (EventBus.tla); which one it drops does not matter here, so the channel *)
(* is the number of its events.  The peers are external: a peer reads its  *)
(* socket, is wedged (its buffers are full) or has gone.                   *)
(***************************************************************************)
EXTENDS Naturals, FiniteSets

CONSTANTS Sessions,     \* sessions with a runtime, one ledger goroutine each
          Clients,      \* WebSocket connections, one *client each
          None, Tick,   \* no client; the goroutine that calls Broadcast
          Cap,          \* capacity of the ledger's channel (64)
          MaxEvents,    \* bound: events of a session, and broadcasts
          MaxMoves      \* bound: requests of the peers and changes of their state

Writers == Sessions \cup {Tick}

ConstantsAssumption ==
    /\ None \notin Clients /\ Tick \notin Sessions
    /\ Cap \in Nat \ {0} /\ MaxEvents \in Nat /\ MaxMoves \in Nat

VARIABLES
    emitted,     \* events each writer was given
    waiting,     \* how many of them are still in its channel
    fwd,         \* each writer's event: the connections it still goes to, and the
                 \* one being written to
    bySession,   \* EventLedger.bySession
    allConns,    \* EventLedger.allConns
    conn,        \* client.conn
    reader,      \* the connection's read loop
    writeMu,     \* who holds client.writeMu: a writer, the reader, nobody
    peer,        \* external: the other end of the socket
    moves,
    taken,       \* history: events the ledger took for the session
    upTo         \* history: how far in them the peer is: counted on from where it
                 \* subscribed, by one for each event it was sent

sources == <<emitted, waiting>>
ledger == <<bySession, allConns>>
sockets == <<conn, reader, writeMu, peer, moves>>
history == <<taken, upTo>>
vars == <<sources, fwd, ledger, sockets, history>>

Idle == [todo |-> {}, on |-> None]

Init ==
    /\ emitted = [w \in Writers |-> 0] /\ waiting = [s \in Sessions |-> 0]
    /\ fwd = [w \in Writers |-> Idle]
    /\ bySession = [s \in Sessions |-> {}] /\ allConns = {}
    /\ conn = [c \in Clients |-> "none"] /\ reader = [c \in Clients |-> "over"]
    /\ writeMu = [c \in Clients |-> None] /\ peer = [c \in Clients |-> "reads"] /\ moves = 0
    /\ taken = [s \in Sessions |-> 0] /\ upTo = [s \in Sessions |-> [c \in Clients |-> 0]]

-----------------------------------------------------------------------------
(* The writers.                                                            *)

\* External: the session's bus delivers, or drops its oldest event for it.
Emit(s) ==
    /\ emitted[s] < MaxEvents /\ emitted' = [emitted EXCEPT ![s] = @ + 1]
    /\ waiting' = [waiting EXCEPT ![s] = IF @ = Cap THEN @ ELSE @ + 1]
    /\ UNCHANGED <<fwd, ledger, sockets, history>>

\* The session's goroutine takes an event; it goes to whoever is subscribed now.
Publish(s) ==
    /\ fwd[s] = Idle /\ waiting[s] > 0
    /\ waiting' = [waiting EXCEPT ![s] = @ - 1] /\ taken' = [taken EXCEPT ![s] = @ + 1]
    /\ fwd' = [fwd EXCEPT ![s].todo = bySession[s]]
    /\ UNCHANGED <<emitted, ledger, sockets, upTo>>

\* A notification for every connection, written by the goroutine it comes from.
Broadcast ==
    /\ fwd[Tick] = Idle /\ emitted[Tick] < MaxEvents
    /\ emitted' = [emitted EXCEPT ![Tick] = @ + 1]
    /\ fwd' = [fwd EXCEPT ![Tick].todo = allConns]
    /\ UNCHANGED <<waiting, ledger, sockets, history>>

\* The write to c is over.
Written(w, c) == [fwd EXCEPT ![w] = [todo |-> @.todo \ {c}, on |-> None]]

\* SendNotification takes writeMu and starts the write; a connection that was
\* torn down has no conn any more.
WriteStart(w, c) ==
    /\ fwd[w].on = None /\ c \in fwd[w].todo /\ writeMu[c] = None
    /\ IF conn[c] = "nil"
       THEN fwd' = Written(w, c) /\ UNCHANGED writeMu
       ELSE fwd' = [fwd EXCEPT ![w].on = c] /\ writeMu' = [writeMu EXCEPT ![c] = w]
    /\ UNCHANGED <<sources, ledger, conn, reader, peer, moves, history>>

\* No write deadline is set: a wedged peer holds the write until it reads again
\* or the connection is closed.
WriteEnd(w, c) ==
    /\ fwd[w].on = c /\ (peer[c] # "wedged" \/ conn[c] = "nil")
    /\ fwd' = Written(w, c) /\ writeMu' = [writeMu EXCEPT ![c] = None]
    /\ upTo' = IF w \in Sessions /\ conn[c] = "open" /\ peer[c] = "reads"
               THEN [upTo EXCEPT ![w][c] = @ + 1] ELSE upTo
    /\ UNCHANGED <<sources, ledger, conn, reader, peer, moves, taken>>

-----------------------------------------------------------------------------
(* A connection: one request at a time, answered before the next is read.  *)

Connect(c) ==
    /\ conn[c] = "none" /\ conn' = [conn EXCEPT ![c] = "open"]
    /\ reader' = [reader EXCEPT ![c] = "read"]
    /\ allConns' = allConns \cup {c}
    /\ UNCHANGED <<sources, fwd, bySession, writeMu, peer, moves, history>>

Asked(c) ==
    /\ reader[c] = "read" /\ peer[c] # "gone" /\ moves < MaxMoves /\ moves' = moves + 1
    /\ UNCHANGED <<sources, fwd, allConns, conn, writeMu, peer, taken>>

SubscribeEvents(c, s) ==
    /\ Asked(c)
    /\ bySession' = [bySession EXCEPT ![s] = @ \cup {c}]
    /\ reader' = [reader EXCEPT ![c] = "reply"]
    /\ upTo' = IF c \in bySession[s] THEN upTo ELSE [upTo EXCEPT ![s][c] = taken[s]]

\* Any other request; one that takes longer than the read deadline leaves the
\* connection with a deadline that has passed.
OtherRequest(c) ==
    /\ Asked(c)
    /\ \E r \in {"reply", "late"} : reader' = [reader EXCEPT ![c] = r]
    /\ UNCHANGED <<bySession, upTo>>

Reply(c) ==
    /\ reader[c] \in {"reply", "late"} /\ writeMu[c] = None /\ peer[c] = "reads"
    /\ reader' = [reader EXCEPT ![c] = IF @ = "late" THEN "expired" ELSE "read"]
    /\ UNCHANGED <<sources, fwd, ledger, conn, writeMu, peer, moves, history>>

ReplyBlocks(c) ==
    /\ reader[c] \in {"reply", "late"} /\ writeMu[c] = None /\ peer[c] = "wedged"
    /\ reader' = [reader EXCEPT ![c] = "blocked"] /\ writeMu' = [writeMu EXCEPT ![c] = c]
    /\ UNCHANGED <<sources, fwd, ledger, conn, peer, moves, history>>

ReplyUnblocks(c) ==
    /\ reader[c] = "blocked" /\ peer[c] # "wedged"
    /\ reader' = [reader EXCEPT ![c] = "read"] /\ writeMu' = [writeMu EXCEPT ![c] = None]
    /\ UNCHANGED <<sources, fwd, ledger, conn, peer, moves, history>>

\* The read loop returns: UnsubscribeAll, then the conn pointer, then Close.
TearDown(c) ==
    /\ bySession' = [s \in Sessions |-> bySession[s] \ {c}] /\ allConns' = allConns \ {c}
    /\ conn' = [conn EXCEPT ![c] = "nil"] /\ reader' = [reader EXCEPT ![c] = "over"]
    /\ peer' = [peer EXCEPT ![c] = "gone"]
    /\ upTo' = [s \in Sessions |-> [upTo[s] EXCEPT ![c] = 0]]
    /\ UNCHANGED <<sources, fwd, writeMu, moves, taken>>

\* ReadMessage fails: the peer closed, or did not answer a ping within the
\* deadline, or the deadline passed while a request was handled.
ReadFails(c) ==
    /\ \/ reader[c] = "read" /\ peer[c] \in {"gone", "wedged"}
       \/ reader[c] = "expired"
    /\ TearDown(c)

ReplyFails(c) ==
    /\ reader[c] \in {"reply", "late"} /\ writeMu[c] = None /\ peer[c] = "gone"
    /\ TearDown(c)

-----------------------------------------------------------------------------
(* External: the peers.                                                    *)

PeerTurns(c) ==
    /\ conn[c] = "open" /\ peer[c] # "gone" /\ moves < MaxMoves /\ moves' = moves + 1
    /\ \E p \in {"reads", "wedged", "gone"} \ {peer[c]} : peer' = [peer EXCEPT ![c] = p]
    /\ UNCHANGED <<sources, fwd, ledger, conn, reader, writeMu, history>>

-----------------------------------------------------------------------------
WriteSteps(w) == \E c \in Clients : WriteStart(w, c) \/ WriteEnd(w, c)
ReaderSteps(c) ==
    Reply(c) \/ ReplyBlocks(c) \/ ReplyUnblocks(c) \/ ReadFails(c) \/ ReplyFails(c)

Next ==
    \/ \E s \in Sessions : Emit(s) \/ Publish(s)
    \/ Broadcast \/ \E w \in Writers : WriteSteps(w)
    \/ \E c \in Clients :
         \/ Connect(c) \/ OtherRequest(c) \/ ReaderSteps(c) \/ PeerTurns(c)
         \/ \E s \in Sessions : SubscribeEvents(c, s)

Spec == Init /\ [][Next]_vars

\* The scheduler runs the goroutines that can run, and a mutex is handed over in
\* the order it was asked for.  What the peers do is not fair.
Fairness ==
    /\ \A s \in Sessions : WF_vars(Publish(s))
    /\ \A w \in Writers : SF_vars(WriteSteps(w))
    /\ \A c \in Clients : WF_vars(ReaderSteps(c))

FairSpec == Spec /\ Fairness

-----------------------------------------------------------------------------
(* Every variable has its type, at most one goroutine writes to a          *)
(* connection, and it is the one that holds the connection's mutex.        *)
TypeOK ==
    /\ \A s \in Sessions : waiting[s] \in 0 .. Cap /\ bySession[s] \subseteq allConns
    /\ allConns = {c \in Clients : conn[c] = "open"}
    /\ \A w \in Writers : fwd[w].todo \subseteq Clients /\ (fwd[w].on # None => fwd[w].on \in fwd[w].todo)
    /\ \A c \in Clients :
         /\ conn[c] \in {"none", "open", "nil"} /\ peer[c] \in {"reads", "wedged", "gone"}
         /\ reader[c] \in {"read", "reply", "late", "blocked", "expired", "over"}
         /\ \A w \in Writers : writeMu[c] = w <=> fwd[w].on = c
         /\ writeMu[c] = c <=> reader[c] = "blocked"

(* What a subscribed connection was sent is exactly what the ledger took   *)
(* for the session since it subscribed, without a gap, save the event      *)
(* being written: that other connections come, go and wedge, that the same *)
(* connection is written to for another session or by a broadcast, does    *)
(* not show (eventledger.go:105-137, client.go:46-60).                     *)
SubscribersMissNothing ==
    \A s \in Sessions, c \in Clients :
      c \in bySession[s] /\ peer[c] # "gone" =>
        upTo[s][c] = taken[s] - (IF c \in fwd[s].todo THEN 1 ELSE 0)

(* Events flow as long as no peer is wedged: a connection that closed, or  *)
(* closes while it is written to, holds no writer up (client.go:46-60,     *)
(* 92-100).                                                                *)
EventsFlow ==
    \A w \in Writers :
      fwd[w].todo # {} ~> fwd[w].todo = {} \/ \E c \in Clients : peer[c] = "wedged"
=============================================================================
