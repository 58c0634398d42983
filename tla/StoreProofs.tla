----------------------------- MODULE StoreProofs -----------------------------
(***************************************************************************)
(* Proofs about the parts of MCStore: the channels, then the catalog, then *)
(* the conversation.                                                       *)
(***************************************************************************)
EXTENDS MCStore, SequenceTheorems, FiniteSetTheorems, NaturalsInduction,
        WellFoundedInduction, TLAPS

\* Where the loop of a connector is.
Loops == {"none", "top", "polling", "handling", "submit", "next", "ended"}
\* A connector as it is recorded, an operation, and the sessions (channel and peer).
Connected == [id : Ids, told : BOOLEAN, loop : Loops, cursor : 0 .. MaxMessages, batch : Seq(Peers)]
Ops == [kind : {"none", "create", "update", "enable", "delete", "reload"}, id : Ids \cup {None},
        at : {"next", "build", "start", "untrack", "stop", "row", "done"},
        old : (1 .. Len(conn)) \cup {None}, todo : SUBSET Ids]
Peering == Ids \X Peers

\* What each variable of the channels ranges over.
ChannelShapes ==
  /\ imRows \in [Ids -> I!Row \cup {None}] /\ byID \in [Ids -> I!Row \cup {None}]
  /\ conn \in Seq(Connected) /\ Len(conn) <= MaxConns
  /\ imLive \in [Ids -> (1 .. Len(conn)) \cup {None}]
  /\ op \in Ops /\ imFailed \in [Ids -> BOOLEAN]
  /\ inbox \in [Ids -> Seq(Peers)] /\ \A i \in Ids : Len(inbox[i]) <= MaxMessages
  /\ queue \in [Peering -> Nat] /\ sending \in [Peering -> (1 .. Len(conn)) \cup {None}]
  /\ \A s \in Peering : sending[s] # None => queue[s] > 0

\* What a connector has fetched fits its inbox, and a message it is about to hand on is there.
Batches ==
  \A k \in 1 .. Len(conn) :
    /\ Len(conn[k].batch) <= MaxMessages
    /\ conn[k].loop \in {"submit", "next"} => conn[k].batch # <<>>

\* Where the operation is, it is about a channel whose row says what is to be done.
Operating ==
  /\ op.at \in {"build", "start", "untrack", "stop", "row"} => op.id \in Ids
  /\ op.at \in {"build", "start"} => imRows[op.id] # None /\ imRows[op.id].on
  /\ op.at = "start" => imLive[op.id] # None
  /\ op.at = "stop" => imLive[op.id] = None /\ (op.old # None => conn[op.old].id = op.id)
  /\ op.at \in {"stop", "untrack"} /\ op.kind = "update" => imRows[op.id] # None /\ imRows[op.id].on
  /\ op.at \in {"stop", "row"} /\ op.kind = "delete" => byID[op.id] = None /\ imLive[op.id] = None
  /\ op.at = "row" => op.kind = "delete"
  /\ op.at = "untrack" => op.kind \in {"update", "enable"}
  /\ op.at = "stop" => op.kind \in {"update", "enable", "delete"}
  /\ op.at \in {"stop", "untrack"} /\ op.kind = "enable" =>
       imRows[op.id] # None /\ ~imRows[op.id].on
  /\ op.kind = "none" => op = I!Idle
  /\ op.kind = "reload" => op.at \in {"next", "build", "start"}
  /\ op.kind # "reload" => op.at # "next"

\* The operation has still to give channel i a connector, or to take its row away.
Owing(i) ==
  \/ op.kind = "reload" /\ op.at \in {"next", "build", "start"} /\ i \in op.todo
  \/ op.id = i /\ op.at \in {"build", "stop", "row"}

\* What is tracked for a channel is its own connector, not stopped, and its row is enabled
\* unless a disable has still to let go of it; an enabled row has one, or is owed one.
Tracked ==
  \A i \in Ids :
    /\ imLive[i] # None =>
         /\ conn[imLive[i]].id = i /\ ~conn[imLive[i]].told
         /\ imRows[i] # None
         /\ imRows[i].on \/ (op.kind = "enable" /\ op.id = i /\ op.at = "untrack")
    /\ imRows[i] # None /\ imRows[i].on /\ ~imFailed[i] => imLive[i] # None \/ Owing(i)

\* The manager's copy has the mode of the row.
Copied ==
  \A i \in Ids : byID[i] # None => imRows[i] # None /\ byID[i].mode = imRows[i].mode

ChannelInv == ChannelShapes /\ Batches /\ Operating /\ Tracked /\ Copied

\* The assumptions on the constants, in one place.
LEMMA Channels ==
  /\ None \notin Ids /\ None \notin Peers /\ None \notin Nat /\ None \notin I!Row
  /\ MaxConns \in Nat /\ MaxMessages \in Nat
BY PartsAssumption DEF PartsAssumption, I!ConstantsAssumption

\* Before anything is configured.
LEMMA InitChannels == I!Init => ChannelInv
<1> SUFFICES ASSUME I!Init PROVE ChannelInv
  OBVIOUS
<1>1. Len(conn) = 0 /\ conn = <<>>
  BY DEF I!Init
<1>2. ChannelShapes
  <2>1. imRows \in [Ids -> I!Row \cup {None}] /\ byID \in [Ids -> I!Row \cup {None}]
    BY DEF I!Init
  <2>2. op \in Ops
    BY DEF I!Init, I!Idle, Ops
  <2>3. QED
    BY <1>1, <2>1, <2>2, Channels DEF ChannelShapes, I!Init, I!Session, Peering
<1>3. Batches
  BY <1>1 DEF Batches
<1>4. Operating
  BY DEF Operating, I!Init, I!Idle
<1>5. Tracked /\ Copied
  BY Channels DEF Tracked, Copied, Owing, I!Init, I!Idle
<1>6. QED
  BY <1>2, <1>3, <1>4, <1>5 DEF ChannelInv

\* The operation in progress, field by field.
Record(kind, i, at, old, left) == [kind |-> kind, id |-> i, at |-> at, old |-> old, todo |-> left]

LEMMA Begins ==
  ASSUME NEW kind, NEW i, NEW at, I!Begin(kind, i, at)
  PROVE  op = I!Idle /\ op' = Record(kind, i, at, None, {})
BY DEF I!Begin, I!Idle, Record

LEMMA Goes ==
  ASSUME NEW at, op \in Ops, I!Goto(at)
  PROVE  op' = Record(op.kind, op.id, at, op.old, op.todo)
BY DEF I!Goto, Record, Ops

\* A connector's loop changes nothing else, but for the session it submits to, and
\* neither whose connector it is nor whether that was stopped.
LEMMA PollChanges ==
  ASSUME ChannelShapes, Batches, NEW k \in I!Conns, I!PollStep(k)
  PROVE  /\ UNCHANGED <<imRows, byID, imLive, op, imFailed, sending, inbox>>
         /\ conn' \in Seq(Connected) /\ Len(conn') = Len(conn)
         /\ \A l \in 1 .. Len(conn) : conn'[l].id = conn[l].id /\ conn'[l].told = conn[l].told
         /\ Batches'
         /\ \A s \in Peering : queue'[s] >= queue[s]
         /\ queue' \in [Peering -> Nat]
<1>1. k \in 1 .. Len(conn) /\ conn[k] \in Connected
  BY DEF ChannelShapes, I!Conns
<1>2. ASSUME NEW c \in Connected, conn' = [conn EXCEPT ![k] = c],
             c.id = conn[k].id, c.told = conn[k].told, Len(c.batch) <= MaxMessages,
             c.loop \in {"submit", "next"} => c.batch # <<>>
      PROVE  /\ conn' \in Seq(Connected) /\ Len(conn') = Len(conn)
             /\ \A l \in 1 .. Len(conn) : conn'[l].id = conn[l].id /\ conn'[l].told = conn[l].told
             /\ Batches'
  <2>1. conn' \in Seq(Connected) /\ Len(conn') = Len(conn)
    BY <1>1, <1>2 DEF ChannelShapes
  <2>2. \A l \in 1 .. Len(conn) : conn'[l] = IF l = k THEN c ELSE conn[l]
    BY <1>2 DEF ChannelShapes
  <2>3. QED
    BY <2>1, <2>2, <1>2 DEF Batches
<1> DEFINE old == conn[k]
<1>3. Len(old.batch) <= MaxMessages /\ old.cursor \in 0 .. MaxMessages
  BY <1>1 DEF Batches, Connected
<1>q1. \A s \in Peering : queue[s] \in Nat
  BY DEF ChannelShapes
<1>q2. queue' = queue => queue' \in [Peering -> Nat] /\ \A s \in Peering : queue'[s] >= queue[s]
  BY <1>q1 DEF ChannelShapes
<1>q3. ASSUME NEW s \in Peering, queue' = [queue EXCEPT ![s] = @ + 1]
       PROVE  queue' \in [Peering -> Nat] /\ \A t \in Peering : queue'[t] >= queue[t]
  <2>1. queue' \in [Peering -> Nat]
    BY <1>q1, <1>q3 DEF ChannelShapes
  <2>2. \A t \in Peering : queue'[t] = IF t = s THEN queue[s] + 1 ELSE queue[t]
    BY <1>q3 DEF ChannelShapes
  <2>3. QED
    BY <2>1, <2>2, <1>q1
<1>4. ASSUME NEW loop \in Loops, conn' = [conn EXCEPT ![k].loop = loop], UNCHANGED queue,
             UNCHANGED <<imRows, byID, imLive, op, imFailed, sending, inbox>>,
             loop \in {"submit", "next"} => old.batch # <<>>
      PROVE  /\ conn' \in Seq(Connected) /\ Len(conn') = Len(conn)
             /\ \A l \in 1 .. Len(conn) : conn'[l].id = conn[l].id /\ conn'[l].told = conn[l].told
             /\ Batches' /\ \A s \in Peering : queue'[s] >= queue[s]
             /\ queue' \in [Peering -> Nat]
  <2> DEFINE c == [old EXCEPT !.loop = loop]
  <2>1. conn' = [conn EXCEPT ![k] = c]
    BY <1>1, <1>4 DEF ChannelShapes
  <2>2. /\ c \in Connected /\ c.id = old.id /\ c.told = old.told /\ c.batch = old.batch
        /\ c.loop = loop
    BY <1>1 DEF Connected, Loops
  <2> HIDE DEF c
  <2>3. QED
    BY <2>1, <2>2, <1>2, <1>3, <1>4, <1>q2
<1>5. CASE I!Look(k) \/ I!FetchFails(k)
  BY <1>5, <1>4 DEF I!Look, I!FetchFails, I!sessions, Loops
<1>6. CASE I!Inbound(k)
  BY <1>6, <1>4 DEF I!Inbound, I!sessions, Loops
<1>7. CASE I!FetchTimesOut(k)
  <2> DEFINE c == [[old EXCEPT !.loop = "top"] EXCEPT !.cursor = 0]
  <2>1. conn' = [conn EXCEPT ![k] = c]
    BY <1>1, <1>7 DEF ChannelShapes, I!FetchTimesOut
  <2>2. /\ c \in Connected /\ c.id = old.id /\ c.told = old.told /\ c.batch = old.batch
        /\ c.loop = "top"
    <3> DEFINE d == [old EXCEPT !.loop = "top"]
    <3>1. /\ d \in Connected /\ d.id = old.id /\ d.told = old.told /\ d.batch = old.batch
          /\ d.loop = "top"
      BY <1>1 DEF Connected, Loops
    <3>2. 0 \in 0 .. MaxMessages
      BY Channels
    <3> HIDE DEF d
    <3>3. QED
      BY <3>1, <3>2 DEF Connected, d
  <2>3. UNCHANGED <<imRows, byID, imLive, op, imFailed, sending, inbox, queue>>
    BY <1>7 DEF I!FetchTimesOut, I!sessions
  <2> HIDE DEF c
  <2>4. QED
    BY <2>1, <2>2, <2>3, <1>2, <1>3, <1>q2
<1>8. CASE I!Fetched(k)
  <2> DEFINE box == inbox[old.id]
  <2>1. PICK from \in (IF old.cursor = 0 THEN 0 .. Len(box) ELSE {old.cursor}) :
          conn' = [conn EXCEPT ![k].loop = "handling", ![k].cursor = Len(box),
                               ![k].batch = SubSeq(box, from + 1, Len(box))]
    BY <1>8 DEF I!Fetched
  <2> DEFINE batch == SubSeq(box, from + 1, Len(box))
             c == [[[old EXCEPT !.loop = "handling"] EXCEPT !.cursor = Len(box)]
                     EXCEPT !.batch = batch]
  <2>2. box \in Seq(Peers) /\ Len(box) \in 0 .. MaxMessages /\ from \in Nat
    BY <1>1, <1>3, Channels DEF ChannelShapes, Connected
  <2>3. batch \in Seq(Peers) /\ Len(batch) <= MaxMessages
    BY <2>2, Channels
  <2>4. conn' = [conn EXCEPT ![k] = c]
    BY <1>1, <2>1 DEF ChannelShapes
  <2>5. /\ c \in Connected /\ c.id = old.id /\ c.told = old.told /\ c.batch = batch
        /\ c.loop = "handling"
    BY <1>1, <2>2, <2>3 DEF Connected, Loops
  <2>6. UNCHANGED <<imRows, byID, imLive, op, imFailed, sending, inbox, queue>>
    BY <1>8 DEF I!Fetched, I!sessions
  <2> HIDE DEF c, batch
  <2>7. QED
    BY <2>3, <2>4, <2>5, <2>6, <1>2, <1>q2
<1>9. CASE I!Submit(k)
  <2> DEFINE c == [old EXCEPT !.loop = "next"]
  <2>1. conn' = [conn EXCEPT ![k] = c]
    BY <1>1, <1>9 DEF ChannelShapes, I!Submit
  <2>2. /\ c \in Connected /\ c.id = old.id /\ c.told = old.told /\ c.batch = old.batch
        /\ c.loop = "next"
    BY <1>1 DEF Connected, Loops
  <2>3. old.batch # <<>>
    BY <1>1, <1>9 DEF I!Submit, Batches
  <2>4. UNCHANGED <<imRows, byID, imLive, op, imFailed, sending, inbox>>
    BY <1>9 DEF I!Submit
  <2>5. \/ queue' = queue
        \/ \E s \in Peering : queue' = [queue EXCEPT ![s] = @ + 1]
    <3>1. Head(old.batch) \in Peers /\ <<old.id, Head(old.batch)>> \in Peering
      BY <1>1, <2>3 DEF Connected, Peering
    <3>2. QED
      BY <1>9, <3>1 DEF I!Submit
  <2>6. queue' \in [Peering -> Nat] /\ \A s \in Peering : queue'[s] >= queue[s]
    BY <2>5, <1>q2, <1>q3
  <2> HIDE DEF c
  <2>7. QED
    BY <2>1, <2>2, <2>3, <2>4, <2>6, <1>2, <1>3
<1>10. CASE I!Handled(k)
  <2> DEFINE c == [[old EXCEPT !.loop = "handling"] EXCEPT !.batch = Tail(old.batch)]
  <2>1. conn' = [conn EXCEPT ![k] = c]
    BY <1>1, <1>10 DEF ChannelShapes, I!Handled
  <2>2. old.batch # <<>>
    BY <1>1, <1>10 DEF I!Handled, Batches
  <2>3. Tail(old.batch) \in Seq(Peers) /\ Len(Tail(old.batch)) <= MaxMessages
    BY <1>1, <1>3, <2>2, Channels DEF Connected
  <2>4. /\ c \in Connected /\ c.id = old.id /\ c.told = old.told /\ c.batch = Tail(old.batch)
        /\ c.loop = "handling"
    BY <1>1, <2>3 DEF Connected, Loops
  <2>5. UNCHANGED <<imRows, byID, imLive, op, imFailed, sending, inbox, queue>>
    BY <1>10 DEF I!Handled, I!sessions
  <2> HIDE DEF c
  <2>6. QED
    BY <2>1, <2>3, <2>4, <2>5, <1>2, <1>q2
<1>11. QED
  BY <1>5, <1>6, <1>7, <1>8, <1>9, <1>10 DEF I!PollStep

\* A step of a connector's loop.
LEMMA PollKeeps ==
  ASSUME ChannelInv, NEW k \in I!Conns, I!PollStep(k)
  PROVE  ChannelInv'
<1>1. /\ UNCHANGED <<imRows, byID, imLive, op, imFailed, sending, inbox>>
      /\ conn' \in Seq(Connected) /\ Len(conn') = Len(conn)
      /\ \A l \in 1 .. Len(conn) : conn'[l].id = conn[l].id /\ conn'[l].told = conn[l].told
      /\ Batches'
      /\ \A s \in Peering : queue'[s] >= queue[s]
      /\ queue' \in [Peering -> Nat]
  BY PollChanges DEF ChannelInv
<1>2. Ops' = Ops
  BY <1>1 DEF Ops
<1>3. ChannelShapes'
  <2>1. \A s \in Peering : sending[s] # None => queue'[s] > 0
    <3>1. \A s \in Peering : queue[s] \in Nat /\ queue'[s] \in Nat
      BY <1>1 DEF ChannelInv, ChannelShapes
    <3>2. QED
      BY <1>1, <3>1 DEF ChannelInv, ChannelShapes
  <2>2. QED
    BY <1>1, <1>2, <2>1 DEF ChannelInv, ChannelShapes
<1>4. Operating'
  <2>1. op.at = "stop" /\ op.old # None => op.old \in 1 .. Len(conn)
    BY DEF ChannelInv, ChannelShapes, Ops
  <2>2. QED
    BY <1>1, <2>1 DEF ChannelInv, Operating
<1>5. Tracked'
  <2>1. \A i \in Ids : imLive[i] # None => imLive[i] \in 1 .. Len(conn)
    BY DEF ChannelInv, ChannelShapes
  <2>2. QED
    BY <1>1, <2>1 DEF ChannelInv, Tracked, Owing
<1>6. Copied'
  BY <1>1 DEF ChannelInv, Copied
<1>7. QED
  BY <1>1, <1>3, <1>4, <1>5, <1>6 DEF ChannelInv

\* The steps of the sessions' loops and of the peers.
LEMMA SessionsKeep ==
  ASSUME ChannelInv,
         \/ \E s \in I!Session : I!Settle(s) \/ I!Sent(s) \/ I!AbortSession(s)
         \/ \E i \in Ids, p \in Peers : I!PeerWrites(i, p)
  PROVE  ChannelInv'
<1>1. UNCHANGED <<imRows, byID, imLive, conn, op, imFailed>>
  BY DEF I!Settle, I!Sent, I!AbortSession, I!PeerWrites, I!memory
<1>2. Ops' = Ops
  BY <1>1 DEF Ops
<1>3. ChannelShapes'
  <2>1. CASE \E s \in I!Session : I!Settle(s) \/ I!Sent(s) \/ I!AbortSession(s)
    <3>1. PICK s \in Peering : I!Settle(s) \/ I!Sent(s) \/ I!AbortSession(s)
      BY <2>1 DEF I!Session, Peering
    <3>2. queue[s] \in Nat /\ s[1] \in Ids
      BY DEF ChannelInv, ChannelShapes, Peering
    <3>3. /\ queue' \in [Peering -> Nat] /\ sending' \in [Peering -> (1 .. Len(conn)) \cup {None}]
          /\ \A t \in Peering : sending'[t] # None => queue'[t] > 0
      <4>1. CASE I!Settle(s)
        <5>1. CASE /\ imLive[s[1]] # None /\ queue' = queue
                   /\ sending' = [sending EXCEPT ![s] = imLive[s[1]]]
          <6>1. imLive[s[1]] \in 1 .. Len(conn) /\ queue[s] > 0
            BY <3>2, <4>1, <5>1 DEF I!Settle, ChannelInv, ChannelShapes
          <6>2. QED
            BY <5>1, <6>1 DEF ChannelInv, ChannelShapes
        <5>2. CASE queue' = [queue EXCEPT ![s] = @ - 1] /\ sending' = sending
          BY <3>2, <4>1, <5>2 DEF I!Settle, ChannelInv, ChannelShapes
        <5>3. QED
          BY <4>1, <5>1, <5>2 DEF I!Settle
      <4>2. CASE I!Sent(s)
        BY <3>2, <4>2 DEF I!Sent, ChannelInv, ChannelShapes
      <4>3. CASE I!AbortSession(s)
        BY <3>2, <4>3 DEF I!AbortSession, ChannelInv, ChannelShapes
      <4>4. QED
        BY <3>1, <4>1, <4>2, <4>3
    <3>4. inbox' = inbox
      BY <3>1 DEF I!Settle, I!Sent, I!AbortSession
    <3>5. QED
      BY <1>1, <1>2, <3>3, <3>4 DEF ChannelInv, ChannelShapes
  <2>2. CASE \E i \in Ids, p \in Peers : I!PeerWrites(i, p)
    <3>1. PICK i \in Ids, p \in Peers : I!PeerWrites(i, p)
      BY <2>2
    <3>2. /\ inbox' \in [Ids -> Seq(Peers)] /\ \A j \in Ids : Len(inbox'[j]) <= MaxMessages
      BY <3>1, Channels DEF I!PeerWrites, ChannelInv, ChannelShapes
    <3>3. UNCHANGED <<queue, sending>>
      BY <3>1 DEF I!PeerWrites, I!memory
    <3>4. QED
      BY <1>1, <1>2, <3>2, <3>3 DEF ChannelInv, ChannelShapes
  <2>3. QED
    BY <2>1, <2>2
<1>4. Batches' /\ Operating' /\ Tracked' /\ Copied'
  BY <1>1 DEF ChannelInv, Batches, Operating, Tracked, Owing, Copied
<1>5. QED
  BY <1>3, <1>4 DEF ChannelInv

\* A restart forgets the connectors and owes every enabled row a new one.
LEMMA RestartKeeps == ASSUME ChannelInv, I!Restart PROVE ChannelInv'
<1>1. /\ byID' = [i \in Ids |-> None] /\ imLive' = [i \in Ids |-> None] /\ conn' = <<>>
      /\ imFailed' = [i \in Ids |-> FALSE] /\ imRows' = imRows /\ inbox' = inbox
      /\ queue' = [s \in Peering |-> 0] /\ sending' = [s \in Peering |-> None]
  BY DEF I!Restart, I!Session, Peering
<1>2. op' = Record("reload", None, "next", None, Ids)
  BY DEF I!Restart, I!Idle, Record
<1>3. ChannelShapes'
  BY <1>1, <1>2, Channels DEF ChannelInv, ChannelShapes, Ops, Record
<1>4. Batches'
  BY <1>1 DEF Batches
<1>5. Operating' /\ Tracked' /\ Copied'
  BY <1>1, <1>2 DEF Operating, Tracked, Owing, Copied, Record
<1>6. QED
  BY <1>3, <1>4, <1>5 DEF ChannelInv

\* What an operation changes beside itself keeps the shapes.
LEMMA OpShapes ==
  ASSUME ChannelInv, UNCHANGED <<inbox, queue, sending>>,
         imRows' \in [Ids -> I!Row \cup {None}], byID' \in [Ids -> I!Row \cup {None}],
         conn' \in Seq(Connected), Len(conn') <= MaxConns, Len(conn') >= Len(conn),
         imLive' \in [Ids -> (1 .. Len(conn')) \cup {None}], op' \in Ops',
         imFailed' \in [Ids -> BOOLEAN]
  PROVE  ChannelShapes'
<1>1. (1 .. Len(conn)) \subseteq 1 .. Len(conn')
  BY DEF ChannelInv, ChannelShapes
<1>2. QED
  BY <1>1 DEF ChannelInv, ChannelShapes

\* A request begins: the connectors stay as they are.
LEMMA BeginKeeps ==
  ASSUME ChannelInv, NEW i \in Ids,
         I!Create(i) \/ I!Update(i) \/ I!Delete(i) \/ \E on \in BOOLEAN : I!SetEnabled(i, on)
  PROVE  ChannelInv'
<1>1. UNCHANGED <<conn, imFailed, inbox, queue, sending>>
  BY DEF I!Create, I!Update, I!Delete, I!SetEnabled, I!sessions
<1>2. op = I!Idle
  BY Begins DEF I!Create, I!Update, I!Delete, I!SetEnabled
<1>3. ASSUME op' \in Ops',
             imRows' \in [Ids -> I!Row \cup {None}], byID' \in [Ids -> I!Row \cup {None}],
             imLive' \in [Ids -> (1 .. Len(conn)) \cup {None}]
      PROVE  ChannelShapes' /\ Batches'
  <2>1. ChannelShapes'
    BY <1>1, <1>3, OpShapes DEF ChannelInv, ChannelShapes
  <2>2. QED
    BY <1>1, <2>1 DEF ChannelInv, Batches
<1>4. \A j \in Ids :
        /\ imLive[j] # None =>
             /\ conn[imLive[j]].id = j /\ ~conn[imLive[j]].told
             /\ imRows[j] # None /\ imRows[j].on
        /\ imRows[j] # None /\ imRows[j].on /\ ~imFailed[j] => imLive[j] # None
  BY <1>2 DEF ChannelInv, Tracked, Owing, I!Idle
<1>5. /\ imRows \in [Ids -> I!Row \cup {None}] /\ byID \in [Ids -> I!Row \cup {None}]
      /\ imLive \in [Ids -> (1 .. Len(conn)) \cup {None}]
  BY DEF ChannelInv, ChannelShapes
<1>6. CASE I!Create(i)
  <2>1. PICK r \in I!Row :
          /\ imRows[i] = None
          /\ op' = Record("create", i, IF r.on THEN "build" ELSE "done", None, {})
          /\ imRows' = [imRows EXCEPT ![i] = r] /\ byID' = [byID EXCEPT ![i] = r]
          /\ imLive' = imLive
    BY <1>6, Begins DEF I!Create
  <2>2. op' \in Ops'
    BY <2>1 DEF Ops, Record
  <2>3. ChannelShapes' /\ Batches'
    BY <1>3, <1>5, <2>1, <2>2
  <2>4. r # None
    BY Channels
  <2>5. Operating' /\ Tracked' /\ Copied'
    BY <1>1, <1>4, <1>5, <2>1, <2>4 DEF Operating, Tracked, Owing, Copied, Record, ChannelInv
  <2>6. QED
    BY <2>3, <2>5 DEF ChannelInv
<1>7. CASE I!Update(i)
  <2>1. PICK r \in I!Row :
          /\ imRows[i] # None /\ r.on = imRows[i].on
          /\ op' = Record("update", i, IF r.on /\ imLive[i] # None THEN "untrack" ELSE "done",
                          None, {})
          /\ imRows' = [imRows EXCEPT ![i] = r]
          /\ byID' = [byID EXCEPT ![i] = [imRows[i] EXCEPT !.mode = r.mode]]
          /\ imLive' = imLive
    BY <1>7, Begins DEF I!Update, I!Published
  <2>2. op' \in Ops'
    BY <2>1 DEF Ops, Record
  <2>3. imRows[i] \in I!Row
    BY <1>5, <2>1
  <2> DEFINE copy == [imRows[i] EXCEPT !.mode = r.mode]
  <2>4. copy \in I!Row /\ copy.mode = r.mode
    BY <2>3 DEF I!Row
  <2> HIDE DEF copy
  <2>5. byID' = [byID EXCEPT ![i] = copy]
    BY <2>1 DEF copy
  <2>6. ChannelShapes' /\ Batches'
    BY <1>3, <1>5, <2>1, <2>2, <2>4, <2>5
  <2>7. r # None
    BY Channels
  <2>8. Operating' /\ Tracked' /\ Copied'
    BY <1>1, <1>4, <1>5, <2>1, <2>4, <2>5, <2>7
       DEF Operating, Tracked, Owing, Copied, Record, ChannelInv
  <2>9. QED
    BY <2>6, <2>8 DEF ChannelInv
<1>8. CASE \E on \in BOOLEAN : I!SetEnabled(i, on)
  <2>1. PICK on \in BOOLEAN :
          /\ imRows[i] # None
          /\ op' = Record("enable", i, IF on THEN "build" ELSE "untrack", None, {})
          /\ imRows' = [imRows EXCEPT ![i].on = on]
          /\ byID' = [byID EXCEPT ![i] = [imRows[i] EXCEPT !.on = on]]
          /\ imLive' = imLive
    BY <1>8, Begins DEF I!SetEnabled
  <2>2. op' \in Ops'
    BY <2>1 DEF Ops, Record
  <2>3. imRows[i] \in I!Row
    BY <1>5, <2>1
  <2> DEFINE r == [imRows[i] EXCEPT !.on = on]
  <2>4. r \in I!Row /\ r.on = on
    BY <2>3 DEF I!Row
  <2>5. imRows' = [imRows EXCEPT ![i] = r] /\ byID' = [byID EXCEPT ![i] = r]
    BY <2>1
  <2> HIDE DEF r
  <2>6. ChannelShapes' /\ Batches'
    BY <1>3, <1>5, <2>1, <2>2, <2>4, <2>5
  <2>7. r # None
    BY <2>4, Channels
  <2>8. Operating' /\ Tracked' /\ Copied'
    BY <1>1, <1>4, <1>5, <2>1, <2>4, <2>5, <2>7
       DEF Operating, Tracked, Owing, Copied, Record, ChannelInv
  <2>9. QED
    BY <2>6, <2>8 DEF ChannelInv
<1>9. CASE I!Delete(i)
  <2>1. /\ op' = Record("delete", i, "stop", imLive[i], {})
        /\ imLive' = [imLive EXCEPT ![i] = None] /\ byID' = [byID EXCEPT ![i] = None]
        /\ imRows' = imRows
    BY <1>9 DEF I!Delete, I!Idle, Record
  <2>2. op' \in Ops'
    BY <1>1, <1>5, <2>1 DEF Ops, Record
  <2>3. ChannelShapes' /\ Batches'
    BY <1>3, <1>5, <2>1, <2>2
  <2>4. Operating' /\ Tracked' /\ Copied'
    BY <1>1, <1>4, <1>5, <2>1 DEF Operating, Tracked, Owing, Copied, Record, ChannelInv
  <2>5. QED
    BY <2>3, <2>4 DEF ChannelInv
<1>10. QED
  BY <1>6, <1>7, <1>8, <1>9

\* The steps of the operation in progress.
LEMMA OperateKeeps ==
  ASSUME ChannelInv, I!Operate
  PROVE  ChannelInv'
<1>1. /\ imRows \in [Ids -> I!Row \cup {None}] /\ byID \in [Ids -> I!Row \cup {None}]
      /\ conn \in Seq(Connected) /\ Len(conn) <= MaxConns /\ Len(conn) \in Nat
      /\ imLive \in [Ids -> (1 .. Len(conn)) \cup {None}]
      /\ op \in Ops /\ imFailed \in [Ids -> BOOLEAN]
  BY DEF ChannelInv, ChannelShapes
<1>2. UNCHANGED <<inbox, queue, sending>>
  BY DEF I!Operate, I!Untrack, I!StopOld, I!DeleteRow, I!BuildFails, I!Build, I!Start, I!Done,
         I!ReloadRow, I!sessions
<1>3. CASE I!Untrack
  <2>1. /\ op.at = "untrack" /\ UNCHANGED <<imRows, byID, conn, imFailed>>
        /\ imLive' = [imLive EXCEPT ![op.id] = None]
    BY <1>3 DEF I!Untrack
  <2>2. op' = Record(op.kind, op.id, "stop", imLive[op.id], op.todo)
    BY <1>1, <1>3 DEF I!Untrack, Ops, Record
  <2>3. op.id \in Ids /\ op.kind \in {"update", "enable"}
    BY <2>1 DEF ChannelInv, Operating
  <2>4. op' \in Ops'
    BY <1>1, <2>1, <2>2, <2>3 DEF Ops, Record
  <2>5. ChannelShapes' /\ Batches'
    BY <1>1, <1>2, <2>1, <2>3, <2>4, OpShapes DEF ChannelInv, Batches
  <2>6. Operating'
    BY <1>1, <2>1, <2>2, <2>3, Channels DEF ChannelInv, Operating, Tracked, Record
  <2>7. Tracked' /\ Copied'
    BY <1>1, <2>1, <2>2, <2>3 DEF ChannelInv, Tracked, Owing, Copied, Record
  <2>8. QED
    BY <2>5, <2>6, <2>7 DEF ChannelInv
<1>4. CASE I!StopOld
  <2>1. /\ op.at = "stop" /\ UNCHANGED <<imRows, byID, imLive, imFailed>>
        /\ conn' = IF op.old = None THEN conn ELSE [conn EXCEPT ![op.old].told = TRUE]
    BY <1>4 DEF I!StopOld
  <2> DEFINE next == CASE op.kind = "delete" -> "row"
                     [] op.kind = "update" -> "build"
                     [] OTHER -> "done"
  <2>2. op' = Record(op.kind, op.id, next, op.old, op.todo)
    BY <1>1, <1>4, Goes DEF I!StopOld
  <2>3. /\ op.id \in Ids /\ op.kind \in {"update", "enable", "delete"} /\ imLive[op.id] = None
        /\ op.old # None => op.old \in 1 .. Len(conn) /\ conn[op.old].id = op.id
    BY <1>1, <2>1 DEF ChannelInv, Operating, Ops
  <2>4. /\ conn' \in Seq(Connected) /\ Len(conn') = Len(conn)
        /\ \A k \in 1 .. Len(conn) :
             /\ conn'[k].id = conn[k].id /\ conn'[k].batch = conn[k].batch
             /\ conn'[k].loop = conn[k].loop
             /\ k # op.old => conn'[k].told = conn[k].told
    <3>1. CASE op.old = None
      BY <1>1, <2>1, <3>1
    <3>2. CASE op.old # None
      <4> DEFINE k == op.old
                 c == [conn[k] EXCEPT !.told = TRUE]
      <4>1. k \in 1 .. Len(conn) /\ conn[k] \in Connected
        BY <1>1, <2>3, <3>2
      <4>2. conn' = [conn EXCEPT ![k] = c]
        BY <1>1, <2>1, <3>2, <4>1
      <4>3. c \in Connected /\ c.id = conn[k].id /\ c.batch = conn[k].batch /\ c.loop = conn[k].loop
        BY <4>1 DEF Connected
      <4> HIDE DEF c
      <4>4. QED
        BY <1>1, <4>1, <4>2, <4>3
    <3>3. QED
      BY <3>1, <3>2
  <2>5. next \in {"row", "build", "done"}
    OBVIOUS
  <2>6. op' \in Ops'
    BY <1>1, <2>2, <2>4, <2>5 DEF Ops, Record
  <2>7. Batches'
    BY <2>4 DEF ChannelInv, Batches
  <2>8. ChannelShapes'
    BY <1>1, <1>2, <2>1, <2>4, <2>6, OpShapes
  <2>9. \A i \in Ids : imLive[i] # None => imLive[i] # op.old
    <3>1. SUFFICES ASSUME NEW i \in Ids, imLive[i] # None, imLive[i] = op.old PROVE FALSE
      OBVIOUS
    <3>2. conn[op.old].id = i
      BY <3>1 DEF ChannelInv, Tracked
    <3>3. QED
      BY <2>3, <3>1, <3>2
  <2>10. Operating'
    BY <2>1, <2>2, <2>3, <2>4 DEF ChannelInv, Operating, Record
  <2>11. Tracked' /\ Copied'
    <3>1. \A i \in Ids : imLive[i] # None => imLive[i] \in 1 .. Len(conn)
      BY <1>1
    <3>2. \A i \in Ids : imLive[i] # None =>
             /\ conn'[imLive[i]].id = conn[imLive[i]].id
             /\ conn'[imLive[i]].told = conn[imLive[i]].told
      BY <2>4, <2>9, <3>1
    <3>3. ASSUME NEW i \in Ids, Owing(i) PROVE Owing(i)' \/ (i = op.id /\ op.kind = "enable")
      BY <2>1, <2>2, <2>3, <3>3 DEF Owing, Record
    <3>4. op.kind = "enable" => ~imRows[op.id].on
      BY <2>1 DEF ChannelInv, Operating
    <3>5. ASSUME NEW i \in Ids, imRows[i] # None, imRows[i].on, ~imFailed[i], imLive[i] = None
          PROVE  Owing(i)'
      BY <3>3, <3>4, <3>5 DEF ChannelInv, Tracked
    <3>6. Tracked'
      <4>1. \A i \in Ids : imLive[i] # None =>
              /\ conn'[imLive[i]].id = i /\ ~conn'[imLive[i]].told
              /\ imRows[i] # None /\ imRows[i].on
        BY <2>1, <3>2 DEF ChannelInv, Tracked
      <4>2. QED
        BY <2>1, <3>5, <4>1 DEF Tracked
    <3>7. Copied'
      BY <2>1 DEF ChannelInv, Copied
    <3>8. QED
      BY <3>6, <3>7
  <2>12. QED
    BY <2>7, <2>8, <2>10, <2>11 DEF ChannelInv
<1>5. CASE I!DeleteRow
  <2>1. PICK works \in BOOLEAN :
          /\ op.at = "row" /\ UNCHANGED <<byID, imLive, conn>>
          /\ imRows' = IF works THEN [imRows EXCEPT ![op.id] = None] ELSE imRows
          /\ imFailed' = [imFailed EXCEPT ![op.id] = ~works]
    BY <1>5 DEF I!DeleteRow
  <2>2. op' = Record(op.kind, op.id, "done", op.old, op.todo)
    BY <1>1, <1>5, Goes DEF I!DeleteRow
  <2>3. op.id \in Ids /\ op.kind = "delete" /\ byID[op.id] = None /\ imLive[op.id] = None
    BY <2>1 DEF ChannelInv, Operating
  <2>4. op' \in Ops'
    BY <1>1, <2>1, <2>2 DEF Ops, Record
  <2>5. ChannelShapes' /\ Batches'
    <3>1. imRows' \in [Ids -> I!Row \cup {None}] /\ imFailed' \in [Ids -> BOOLEAN]
      BY <1>1, <2>1
    <3>2. QED
      BY <1>1, <1>2, <2>1, <2>4, <3>1, OpShapes DEF ChannelInv, Batches
  <2>6. Operating' /\ Tracked' /\ Copied'
    BY <1>1, <2>1, <2>2, <2>3 DEF ChannelInv, Operating, Tracked, Owing, Copied, Record
  <2>7. QED
    BY <2>5, <2>6 DEF ChannelInv
<1>6. CASE I!BuildFails
  <2>1. /\ op.at = "build" /\ UNCHANGED <<imRows, byID, imLive, conn>>
        /\ imFailed' = [imFailed EXCEPT ![op.id] = TRUE]
    BY <1>6 DEF I!BuildFails
  <2>2. op' = Record(op.kind, op.id, IF op.kind = "reload" THEN "next" ELSE "done", op.old, op.todo)
    BY <1>1, <1>6, Goes DEF I!BuildFails, I!Next1
  <2>3. op.id \in Ids
    BY <2>1 DEF ChannelInv, Operating
  <2>4. op' \in Ops'
    BY <1>1, <2>1, <2>2 DEF Ops, Record
  <2>5. ChannelShapes' /\ Batches'
    <3>1. imFailed' \in [Ids -> BOOLEAN]
      BY <1>1, <2>1
    <3>2. QED
      BY <1>1, <1>2, <2>1, <2>4, <3>1, OpShapes DEF ChannelInv, Batches
  <2>6. Operating' /\ Tracked' /\ Copied'
    BY <1>1, <2>1, <2>2, <2>3, Channels
       DEF ChannelInv, Operating, Tracked, Owing, Copied, Record, I!Idle
  <2>7. QED
    BY <2>5, <2>6 DEF ChannelInv
<1>7. CASE I!Build
  <2> DEFINE c == [id |-> op.id, told |-> FALSE, loop |-> "none", cursor |-> 0, batch |-> <<>>]
  <2>1. /\ op.at = "build" /\ Len(conn) < MaxConns /\ UNCHANGED <<imRows, byID, imFailed>>
        /\ conn' = Append(conn, c) /\ imLive' = [imLive EXCEPT ![op.id] = Len(conn) + 1]
    BY <1>7 DEF I!Build
  <2>2. op' = Record(op.kind, op.id, "start", op.old, op.todo)
    BY <1>1, <1>7, Goes DEF I!Build
  <2>3. op.id \in Ids /\ imRows[op.id] # None /\ imRows[op.id].on
    BY <2>1 DEF ChannelInv, Operating
  <2>4. c \in Connected /\ c.id = op.id /\ ~c.told /\ Len(c.batch) = 0 /\ c.loop = "none"
    BY <2>3, Channels DEF Connected, Loops
  <2> HIDE DEF c
  <2>5. /\ conn' \in Seq(Connected) /\ Len(conn') = Len(conn) + 1 /\ conn'[Len(conn) + 1] = c
        /\ \A k \in 1 .. Len(conn) : conn'[k] = conn[k]
    BY <1>1, <2>1, <2>4
  <2>6. op' \in Ops'
    BY <1>1, <2>2, <2>5 DEF Ops, Record
  <2>7. ChannelShapes'
    <3>1. imLive' \in [Ids -> (1 .. Len(conn')) \cup {None}]
      BY <1>1, <2>1, <2>3, <2>5
    <3>2. QED
      BY <1>1, <1>2, <2>1, <2>5, <2>6, <3>1, OpShapes, Channels
  <2>8. Batches'
    <3>1. \A k \in 1 .. Len(conn') : k \in 1 .. Len(conn) \/ k = Len(conn) + 1
      BY <1>1, <2>5
    <3>2. QED
      BY <2>4, <2>5, <3>1, Channels DEF ChannelInv, Batches
  <2>9. Operating'
    BY <1>1, <2>1, <2>2, <2>3, Channels DEF ChannelInv, Operating, Record, I!Idle
  <2>10. Tracked' /\ Copied'
    <3>1. \A i \in Ids : imLive'[i] = IF i = op.id THEN Len(conn) + 1 ELSE imLive[i]
      BY <1>1, <2>1
    <3>2. \A i \in Ids : imLive[i] # None => imLive[i] \in 1 .. Len(conn)
      BY <1>1
    <3>3. Len(conn) + 1 # None
      BY <1>1, Channels
    <3>4. QED
      BY <2>1, <2>2, <2>3, <2>4, <2>5, <3>1, <3>2, <3>3
         DEF ChannelInv, Tracked, Owing, Copied, Record
  <2>11. QED
    BY <2>7, <2>8, <2>9, <2>10 DEF ChannelInv
<1>8. CASE I!Start
  <2> DEFINE k == imLive[op.id]
  <2>1. PICK works \in BOOLEAN :
          /\ op.at = "start" /\ UNCHANGED <<imRows, byID, imLive>>
          /\ conn' = [conn EXCEPT ![k].loop = IF works THEN "top" ELSE "none"]
          /\ imFailed' = [imFailed EXCEPT ![op.id] = ~works]
    BY <1>8 DEF I!Start
  <2>2. op' = Record(op.kind, op.id, IF op.kind = "reload" THEN "next" ELSE "done", op.old, op.todo)
    BY <1>1, <1>8, Goes DEF I!Start, I!Next1
  <2>3. op.id \in Ids /\ imRows[op.id] # None /\ imRows[op.id].on /\ k # None
    BY <2>1 DEF ChannelInv, Operating
  <2>4. k \in 1 .. Len(conn) /\ conn[k] \in Connected
    BY <1>1, <2>3
  <2> DEFINE c == [conn[k] EXCEPT !.loop = IF works THEN "top" ELSE "none"]
  <2>5. conn' = [conn EXCEPT ![k] = c]
    BY <1>1, <2>1, <2>4
  <2>6. /\ c \in Connected /\ c.id = conn[k].id /\ c.told = conn[k].told /\ c.batch = conn[k].batch
        /\ c.loop \in {"top", "none"}
    BY <2>4 DEF Connected, Loops
  <2> HIDE DEF c, k
  <2>7. /\ conn' \in Seq(Connected) /\ Len(conn') = Len(conn)
        /\ \A l \in 1 .. Len(conn) :
             /\ conn'[l].id = conn[l].id /\ conn'[l].told = conn[l].told
             /\ conn'[l].batch = conn[l].batch
             /\ conn'[l].loop = conn[l].loop \/ conn'[l].loop \in {"top", "none"}
    BY <1>1, <2>4, <2>5, <2>6
  <2>8. op' \in Ops'
    BY <1>1, <2>2, <2>7 DEF Ops, Record
  <2>9. ChannelShapes'
    <3>1. imFailed' \in [Ids -> BOOLEAN]
      BY <1>1, <2>1
    <3>2. QED
      BY <1>1, <1>2, <2>1, <2>7, <2>8, <3>1, OpShapes
  <2>10. Batches'
    BY <2>7 DEF ChannelInv, Batches
  <2>11. Operating'
    BY <1>1, <2>1, <2>2, <2>3, Channels DEF ChannelInv, Operating, Record, I!Idle
  <2>12. Tracked' /\ Copied'
    <3>1. \A i \in Ids : imLive[i] # None => imLive[i] \in 1 .. Len(conn)
      BY <1>1
    <3>2. QED
      BY <1>1, <2>1, <2>2, <2>3, <2>7, <3>1 DEF ChannelInv, Tracked, Owing, Copied, Record, k
  <2>13. QED
    BY <2>9, <2>10, <2>11, <2>12 DEF ChannelInv
<1>9. CASE I!Done
  <2>1. /\ UNCHANGED <<imRows, byID, imLive, conn, imFailed>>
        /\ op' = Record("none", None, "done", None, {})
        /\ op.at = "done" \/ (op.kind = "reload" /\ op.at = "next" /\ op.todo = {})
    BY <1>9 DEF I!Done, I!Idle, Record
  <2>2. op' \in Ops'
    BY <2>1 DEF Ops, Record
  <2>3. ChannelShapes' /\ Batches'
    BY <1>1, <1>2, <2>1, <2>2, OpShapes DEF ChannelInv, Batches
  <2>4. Operating'
    BY <2>1 DEF Operating, Record, I!Idle
  <2>5. Tracked' /\ Copied'
    BY <2>1 DEF ChannelInv, Operating, Tracked, Owing, Copied, Record
  <2>6. QED
    BY <2>3, <2>4, <2>5 DEF ChannelInv
<1>10. CASE \E i \in Ids : I!ReloadRow(i)
  <2>1. PICK i \in Ids : I!ReloadRow(i)
    BY <1>10
  <2> DEFINE next == IF imRows[i] # None /\ imRows[i].on THEN "build" ELSE "next"
  <2>2. /\ op.kind = "reload" /\ op.at = "next" /\ i \in op.todo
        /\ byID' = [byID EXCEPT ![i] = imRows[i]]
        /\ UNCHANGED <<imRows, imLive, conn, imFailed>>
    BY <2>1 DEF I!ReloadRow
  <2>3. op' = Record(op.kind, i, next, op.old, op.todo \ {i})
    BY <1>1, <2>1 DEF I!ReloadRow, Ops, Record
  <2>4. op' \in Ops'
    BY <1>1, <2>2, <2>3 DEF Ops, Record
  <2>5. ChannelShapes' /\ Batches'
    <3>1. byID' \in [Ids -> I!Row \cup {None}]
      BY <1>1, <2>2
    <3>2. QED
      BY <1>1, <1>2, <2>2, <2>4, <3>1, OpShapes DEF ChannelInv, Batches
  <2>6. Operating' /\ Tracked' /\ Copied'
    BY <1>1, <2>2, <2>3 DEF ChannelInv, Operating, Tracked, Owing, Copied, Record
  <2>7. QED
    BY <2>5, <2>6 DEF ChannelInv
<1>11. QED
  BY <1>3, <1>4, <1>5, <1>6, <1>7, <1>8, <1>9, <1>10 DEF I!Operate

LEMMA ChannelStep == ChannelInv /\ [I!Next]_channelVars => ChannelInv'
<1> SUFFICES ASSUME ChannelInv, [I!Next]_channelVars PROVE ChannelInv'
  OBVIOUS
<1>1. CASE UNCHANGED channelVars
  <2>1. UNCHANGED <<imRows, byID, imLive, conn, op, imFailed, inbox, queue, sending>>
    BY <1>1 DEF channelVars
  <2>2. Ops' = Ops
    BY <2>1 DEF Ops
  <2>3. QED
    BY <2>1, <2>2 DEF ChannelInv, ChannelShapes, Batches, Operating, Tracked, Owing, Copied
<1>2. CASE I!Next
  BY <1>2, BeginKeeps, OperateKeeps, PollKeeps, SessionsKeep, RestartKeeps DEF I!Next
<1>3. QED
  BY <1>1, <1>2

\* The type invariant of the component follows.
LEMMA ChannelTypes == ChannelInv => I!TypeOK
<1> SUFFICES ASSUME ChannelInv PROVE I!TypeOK
  OBVIOUS
<1>1. ASSUME NEW k \in I!Conns PROVE conn[k] \in I!Connector
  <2>1. k \in 1 .. Len(conn) /\ conn[k] \in Connected
    BY DEF ChannelInv, ChannelShapes, I!Conns
  <2>2. conn[k].batch \in Seq(Peers) /\ Len(conn[k].batch) <= MaxMessages
    BY <2>1 DEF ChannelInv, Batches, Connected
  <2>3. conn[k].batch \in UNION {[1 .. n -> Peers] : n \in 0 .. MaxMessages}
    <3>1. Len(conn[k].batch) \in 0 .. MaxMessages
      BY <2>2, Channels
    <3>2. conn[k].batch \in [1 .. Len(conn[k].batch) -> Peers]
      BY <2>2
    <3>3. QED
      BY <3>1, <3>2
  <2>4. QED
    BY <2>1, <2>3 DEF Connected, I!Connector, Loops
<1>2. \A i \in Ids : imLive[i] # None => imLive[i] \in I!Conns /\ conn[imLive[i]].id = i
  BY DEF ChannelInv, ChannelShapes, Tracked, I!Conns
<1>3. \A s \in I!Session : sending[s] # None => sending[s] \in I!Conns /\ queue[s] > 0
  BY DEF ChannelInv, ChannelShapes, I!Session, Peering, I!Conns
<1>4. QED
  BY <1>1, <1>2, <1>3 DEF ChannelInv, ChannelShapes, I!TypeOK, Ops

\* A step of the composition is one of the channels or leaves them alone.
LEMMA ChannelsOnly == [MCNext]_<<vars, conversationVars, channelVars, part>> => [I!Next]_channelVars
BY DEF MCNext

\* ChannelInv holds in every reachable state.
LEMMA ChannelInductive == MCSpec => []ChannelInv
<1>1. MCInit => ChannelInv
  BY InitChannels DEF MCInit
<1>2. QED
  BY <1>1, ChannelsOnly, ChannelStep, PTL DEF MCSpec

\* However channels are made, edited, toggled, deleted and reloaded, with builds, starts
\* and statements that fail: once an operation has answered the tracked connectors are
\* those of the enabled rows, and none of them was stopped (im/manager.go).
THEOREM Tracking == MCSpec => []TrackedAreLive
<1>1. ChannelInv => TrackedAreLive
  <2> SUFFICES ASSUME ChannelInv PROVE TrackedAreLive
    OBVIOUS
  <2>1. I!TrackedFollowsRows
    BY DEF ChannelInv, Tracked, Owing, I!TrackedFollowsRows, I!Idle
  <2>2. I!TrackedIsNotStopped
    BY DEF ChannelInv, Tracked, I!TrackedIsNotStopped, I!Stopped
  <2>3. QED
    BY <2>1, <2>2, ChannelTypes DEF TrackedAreLive
<1>2. QED
  BY <1>1, ChannelInductive, PTL

\* Between operations a message is let in by the mode the table holds, whatever was
\* edited, toggled or restarted before (im/manager.go authorized, Update).
THEOREM Accepting == MCSpec => AcceptedUnderStoredMode
<1> DEFINE Accepted ==
      \A k \in I!Conns \cap DOMAIN conn' :
        op = I!Idle /\ conn[k].loop = "handling" /\ conn'[k].loop = "submit"
        => imRows[conn[k].id] # None /\ imRows[conn[k].id].mode # "disabled"
<1>1. ChannelInv /\ [I!Next]_channelVars => [Accepted]_<<conn>>
  <2> SUFFICES ASSUME ChannelInv, I!Next, NEW k \in I!Conns, k \in DOMAIN conn', op = I!Idle,
                      conn[k].loop = "handling", conn'[k].loop = "submit"
               PROVE  imRows[conn[k].id] # None /\ imRows[conn[k].id].mode # "disabled"
    BY DEF channelVars
  <2>1. /\ conn \in Seq(Connected) /\ k \in 1 .. Len(conn)
        /\ conn[k] \in Connected /\ conn[k].id \in Ids
    <3>1. conn \in Seq(Connected) /\ k \in 1 .. Len(conn) /\ conn[k] \in Connected
      BY DEF ChannelInv, ChannelShapes, I!Conns
    <3>2. QED
      BY <3>1 DEF Connected
  <2>2. PICK l \in I!Conns : I!PollStep(l)
    <3>1. ~I!Operate
      BY DEF I!Operate, I!Untrack, I!StopOld, I!DeleteRow, I!BuildFails, I!Build, I!Start, I!Done,
             I!ReloadRow, I!Idle
    <3>2. conn' # conn
      OBVIOUS
    <3>3. conn' # <<>>
      OBVIOUS
    <3>4. QED
      BY <3>1, <3>2, <3>3
         DEF I!Next, I!Create, I!Update, I!Delete, I!SetEnabled, I!Settle, I!Sent, I!AbortSession,
             I!PeerWrites, I!Restart, I!memory
  <2>3. l = k /\ I!Inbound(k)
    <3>1. l \in 1 .. Len(conn)
      BY <2>1 DEF I!Conns
    <3>2. \A loop : conn' = [conn EXCEPT ![l].loop = loop] => l = k /\ loop = "submit"
      BY <2>1, <3>1 DEF Connected
    <3>3. ~I!Look(l) /\ ~I!Submit(l) /\ ~I!FetchFails(l)
      BY <3>2 DEF I!Look, I!Submit, I!FetchFails
    <3>4. ~I!Fetched(l) /\ ~I!FetchTimesOut(l) /\ ~I!Handled(l)
      BY <2>1, <3>1 DEF I!Fetched, I!FetchTimesOut, I!Handled, Connected
    <3>5. I!Inbound(l)
      BY <2>2, <3>3, <3>4 DEF I!PollStep
    <3>6. QED
      BY <3>2, <3>5 DEF I!Inbound
  <2>4. I!Authorized(conn[k].id, Head(conn[k].batch))
    <3>1. \A loop : conn' = [conn EXCEPT ![k].loop = loop] => loop = "submit"
      BY <2>1 DEF Connected
    <3>2. QED
      BY <2>3, <3>1 DEF I!Inbound
  <2>5. QED
    BY <2>1, <2>4 DEF I!Authorized, ChannelInv, Copied
<1>2. QED
  BY <1>1, ChannelsOnly, ChannelInductive, PTL
     DEF MCSpec, AcceptedUnderStoredMode, I!AcceptedUnderStoredMode

-----------------------------------------------------------------------------
(***************************************************************************)
(* The catalog.                                                            *)
(***************************************************************************)

\* The statements of a delete, and those of every other request and of a start.
Tidying ==
  ({"remove", "drop", "reanchor"} \X Sessions) \cup ({"wipe"} \X Sessions \X Tables)
  \cup ({"close", "leave"} \X Workspaces) \cup {<<"activate", None>>}
Making ==
  ({"add", "seed", "ensure", "adopt", "open", "anchor"} \X Workspaces)
  \cup ({"insert"} \X Sessions \X (AgentIds \cup {None}))
  \cup ({"bind"} \X Sessions \X Workspaces) \cup ({"activate"} \X Sessions)
  \cup ({"put"} \X Sessions \X {"files", "messages"})
  \cup ({"hire"} \X UserAgents \X Workspaces) \cup ({"fire", "mark", "unmark"} \X AgentIds)
  \cup ({"default"} \X Workspaces \X AgentIds)
Queued == todo \in Seq(Tidying) \/ todo \in Seq(Making)

\* What is taken away is taken away with all that hangs off it: in a queue q, statement
\* st comes after the one at place i.
Later(q, i, st) == \E j \in 1 .. Len(q) : j > i /\ q[j] = st
Followed(q) ==
  \A i \in 1 .. Len(q) :
    /\ q[i][1] = "remove" => /\ Later(q, i, <<"drop", q[i][2]>>)
                             /\ \A t \in Tables : Later(q, i, <<"wipe", q[i][2], t>>)
    /\ q[i][1] = "drop" => Later(q, i, <<"reanchor", q[i][2]>>)
    /\ q[i][1] = "close" => Later(q, i, <<"leave", q[i][2]>>)
    /\ q[i][1] = "ensure" => i < Len(q) /\ q[i + 1] = <<"adopt", q[i][2]>>

\* In a queue q, what is to be opened is among the workspaces W, and what is to be activated
\* among the sessions S, or is inserted before; a session may be activated without a row.
Inserted(q, i) == \E j \in 1 .. Len(q) : j < i /\ q[j][1] = "insert" /\ q[j][2] = q[i][2]
PromisedIn(q, W, S) ==
  \A i \in 1 .. Len(q) :
    /\ q[i][1] = "open" => q[i][2] \in W
    /\ q[i][1] = "activate" => q[i][2] \in S \cup {None} \/ Inserted(q, i)
Promised == PromisedIn(todo, DOMAIN workspaces, DOMAIN sessions \cup strays)

\* The Main Agent of a workspace belongs to it.
MainsAtHome ==
  \A w \in Workspaces : MainOf(w) \in DOMAIN agents => agents[MainOf(w)].workspace = w

\* The default of a workspace is the agent that is marked; that of an IM instance has none
\* until it is given one, and never two marks, though it comes and goes without its agents.
Bare(w) == w \in ImWorkspaces /\ workspaces[w] = None
Fits(w) == Marked(w) = {workspaces[w]} \/ Bare(w)
OneMark == \A w \in ImWorkspaces : \A a, b \in Marked(w) : a = b

\* The defaults agree, but for the workspace that is being created or given another one.
AgreedBut(w) == \A v \in DOMAIN workspaces \ {w} : Fits(v)
Unmarked(w) == Marked(w) = {} /\ MainOf(w) \notin DOMAIN agents
Creating(w) ==
  \/ Unmarked(w) /\ todo = << <<"add", w>>, <<"seed", w>>, <<"ensure", w>>, <<"adopt", w>> >>
  \/ Unmarked(w) /\ todo = << <<"seed", w>>, <<"ensure", w>>, <<"adopt", w>> >>
  \/ Unmarked(w) /\ todo = << <<"ensure", w>>, <<"adopt", w>> >>
  \/ Marked(w) = {MainOf(w)} /\ todo = << <<"adopt", w>> >>
Defaulting(w, a) ==
  \/ \E p \in DOMAIN agents :
       /\ p # a /\ Marked(w) = {p}
       /\ todo = << <<"unmark", p>>, <<"mark", a>>, <<"default", w, a>> >>
  \/ Marked(w) = {} /\ todo = << <<"mark", a>>, <<"default", w, a>> >>
  \/ Marked(w) = {a} /\ todo = << <<"default", w, a>> >>

\* Statements that leave the marks of the workspaces alone while these agree.
Agreed == \A w \in DOMAIN workspaces : Fits(w)
Harmless(st) ==
  \/ st[1] \in {"open", "anchor", "insert", "bind", "activate", "put"}
  \/ st[1] \in {"seed", "ensure", "adopt"} /\ st[2] \in DOMAIN workspaces
  \/ st[1] = "hire" /\ st[2] \notin DOMAIN agents /\ Len(todo) = 1
  \/ st[1] = "fire" /\ st[2] \in DOMAIN agents /\ ~agents[st[2]].default /\ Len(todo) = 1
Marks ==
  "agents" \notin failed =>
    /\ OneMark
    /\ \/ Agreed /\ (todo \in Seq(Tidying) \/ \A i \in 1 .. Len(todo) : Harmless(todo[i]))
       \/ \E w \in Workspaces :
            /\ AgreedBut(w)
            /\ \/ Creating(w)
               \/ \E a \in DOMAIN agents : agents[a].workspace = w /\ Defaulting(w, a)

\* What is active is there, or the statement that sees to it is still to come.
Pending(st) == Contains(todo, st)
Anchored ==
  {"active", "sessions"} \cap failed = {} =>
    /\ active.workspace \in DOMAIN workspaces \cup {None} \/ Pending(<<"leave", active.workspace>>)
    /\ active.session \in DOMAIN sessions \cup strays \cup {None} \/ Pending(<<"reanchor", active.session>>)

\* Nothing works for a deleted session but the delete, which has what is left on its list.
Gone(s) ==
  /\ turn[s] = "none" /\ s \notin compacting /\ arriving[s].at \notin {"select", "upsert"}
  /\ s \in DOMAIN sessions => Pending(<<"drop", s>>)
  /\ \A t \in Tables : <<s, t>> \in rows => Pending(<<"wipe", s, t>>)
  /\ \A i \in 1 .. Len(todo) : todo[i][1] \in {"insert", "put"} => todo[i][2] # s
Buried == \A s \in deleted \ missed : Gone(s)

CatalogInv ==
  /\ TypeOK /\ Queued /\ Followed(todo) /\ Promised /\ MainsAtHome
  /\ Marks /\ Anchored /\ Buried

\* A set of numbers has a least one: what stands in for induction below.
LEMMA Least ==
  ASSUME NEW N \in SUBSET Nat, NEW k \in N
  PROVE  \E n \in N : \A m \in N : n <= m
<1> DEFINE Less == {p \in Nat \X Nat : p[1] < p[2]}
<1>1. IsWellFoundedOn(Less, Nat)
  BY NatLessThanWellFounded DEF OpToRel
<1>2. PICK n \in N : \A m \in N : ~ (<<m, n>> \in Less)
  <2> HIDE DEF Less
  <2>1. QED
    BY <1>1, WFMin
<1>3. \A m \in N : ~ (m < n)
  BY <1>2
<1>4. QED
  BY <1>3

\* The recursion of FlattenSeq, one place at a time, and a table g of its first n.
Joined(seqs, g, i) == IF i = 1 THEN seqs[i] ELSE g[i - 1] \o seqs[i]
Joins(seqs, n, g) == g = [i \in 1 .. n |-> Joined(seqs, g, i)]

\* The fold that FlattenSeq is has a value.
LEMMA JoinsExist ==
  ASSUME NEW seqs, NEW n \in Nat
  PROVE  \E g : Joins(seqs, n, g)
<1> DEFINE Bad == {k \in Nat : ~\E g : Joins(seqs, k, g)}
<1>1. SUFFICES ASSUME n \in Bad PROVE FALSE
  OBVIOUS
<1>2. PICK m \in Bad : \A k \in Bad : m <= k
  <2> HIDE DEF Bad
  <2>1. Bad \in SUBSET Nat
    BY DEF Bad
  <2>2. QED
    BY <1>1, <2>1, Least
<1>3. m \in Nat /\ ~\E g : Joins(seqs, m, g)
  BY <1>2
<1>4. CASE m = 0
  <2> DEFINE g == [i \in 1 .. 0 |-> seqs[i]]
  <2>1. g = [i \in 1 .. 0 |-> Joined(seqs, g, i)]
    OBVIOUS
  <2>2. Joins(seqs, 0, g)
    BY <2>1 DEF Joins
  <2>3. QED
    BY <1>3, <1>4, <2>2
<1>5. CASE m # 0
  <2>1. m - 1 \in Nat /\ ~ (m <= m - 1)
    BY <1>3, <1>5
  <2>2. PICK g : Joins(seqs, m - 1, g)
    <3>1. m - 1 \notin Bad
      <4> HIDE DEF Bad
      <4>1. QED
        BY <1>2, <2>1
    <3>2. QED
      BY <2>1, <3>1
  <2>3. \A i \in 1 .. m - 1 : g[i] = Joined(seqs, g, i)
    BY <2>2 DEF Joins
  <2> DEFINE h == [i \in 1 .. m |-> Joined(seqs, g, i)]
  <2>4. \A i \in 1 .. m : Joined(seqs, h, i) = Joined(seqs, g, i)
    <3> TAKE i \in 1 .. m
    <3>1. i # 1 => i - 1 \in 1 .. m - 1 /\ i - 1 \in 1 .. m
      BY <1>3
    <3>2. i # 1 => h[i - 1] = g[i - 1]
      <4> HIDE DEF Bad
      <4>1. QED
        BY <2>3, <3>1
    <3> HIDE DEF h
    <3>3. QED
      BY <3>2 DEF Joined
  <2>5. h = [i \in 1 .. m |-> Joined(seqs, h, i)]
    BY <2>4
  <2> HIDE DEF h
  <2>6. QED
    BY <1>3, <2>5 DEF Joins
<1>6. QED
  BY <1>4, <1>5

\* What is flattened stays in a set of sequences that is closed under concatenation.
LEMMA FlattenStays ==
  ASSUME NEW G, <<>> \in G, \A p, q \in G : p \o q \in G, NEW seqs \in Seq(G)
  PROVE  FlattenSeq(seqs) \in G
<1> DEFINE N == Len(seqs)
           joined == CHOOSE g : Joins(seqs, N, g)
           Bad == {i \in 1 .. N : joined[i] \notin G}
<1>1. N \in Nat /\ \A i \in 1 .. N : seqs[i] \in G
  OBVIOUS
<1>2. CASE N = 0
  <2>1. seqs = <<>>
    BY <1>2, EmptySeq
  <2>2. FlattenSeq(seqs) = seqs
    BY <1>2 DEF FlattenSeq
  <2>3. QED
    BY <2>1, <2>2
<1>3. CASE N # 0
  <2>1. \E g : Joins(seqs, N, g)
    <3> HIDE DEF N
    <3>1. QED
      BY <1>1, JoinsExist
  <2>2. FlattenSeq(seqs) = joined[N]
    BY <1>3 DEF FlattenSeq, Joins, Joined
  <2> HIDE DEF N
  <2>3. Joins(seqs, N, joined)
    BY <2>1
  <2> HIDE DEF joined
  <2>4. \A i \in 1 .. N : joined[i] = Joined(seqs, joined, i)
    BY <2>3 DEF Joins
  <2>5. SUFFICES ASSUME NEW k \in Bad PROVE FALSE
    BY <1>1, <1>3, <2>2
  <2>6. PICK m \in Bad : \A i \in Bad : m <= i
    <3>1. Bad \in SUBSET Nat
      BY <1>1
    <3> HIDE DEF Bad
    <3>2. QED
      BY <3>1, Least
  <2>7. m \in 1 .. N /\ joined[m] \notin G
    BY <2>6
  <2>8. m # 1
    BY <1>1, <2>4, <2>7 DEF Joined
  <2>9. m - 1 \in 1 .. N /\ m - 1 \notin Bad
    BY <1>1, <2>6, <2>7, <2>8
  <2>10. joined[m - 1] \in G
    BY <2>9
  <2>11. Joined(seqs, joined, m) \in G
    BY <1>1, <2>7, <2>8, <2>10 DEF Joined
  <2>12. QED
    BY <2>4, <2>7, <2>11
<1>4. QED
  BY <1>2, <1>3

\* An order of a finite set is a sequence of its elements.
LEMMA OrdersAreSequences ==
  ASSUME NEW S, IsFiniteSet(S), NEW order \in SetToSeqs(S)
  PROVE  order \in Seq(S)
<1>1. Cardinality(S) \in Nat
  BY FS_CardinalityType
<1>2. order \in [1 .. Cardinality(S) -> S]
  BY DEF SetToSeqs
<1> DEFINE n == Cardinality(S)
<1> HIDE DEF n
<1>3. QED
  BY <1>1, <1>2, SeqDef DEF n

\* The rest of a queue.
LEMMA Rest ==
  ASSUME NEW S, NEW q \in Seq(S), q # <<>>
  PROVE  /\ Len(q) \in Nat /\ Len(q) >= 1 /\ Head(q) = q[1] /\ Head(q) \in S
         /\ Tail(q) \in Seq(S) /\ Len(Tail(q)) = Len(q) - 1
         /\ \A i \in 1 .. Len(Tail(q)) : Tail(q)[i] = q[i + 1]
         /\ \A i \in 1 .. Len(q) : i # 1 => i - 1 \in 1 .. Len(Tail(q)) /\ Tail(q)[i - 1] = q[i]
BY HeadTailProperties, EmptySeq, LenProperties

\* Two queues put together.
Appended(p, q, r) ==
  /\ Len(p) \in Nat /\ Len(q) \in Nat /\ Len(r) = Len(p) + Len(q)
  /\ \A i \in 1 .. Len(p) : i \in 1 .. Len(r) /\ r[i] = p[i]
  /\ \A i \in 1 .. Len(q) : Len(p) + i \in 1 .. Len(r) /\ r[Len(p) + i] = q[i]

\* Two sequences, one after the other.
LEMMA Together ==
  ASSUME NEW S, NEW p \in Seq(S), NEW q \in Seq(S)
  PROVE  Appended(p, q, p \o q) /\ p \o q \in Seq(S)
BY ConcatProperties, LenProperties DEF Appended

\* What is taken away is followed up in the rest of a queue, and in two put together.
LEMMA FollowedInRest ==
  ASSUME NEW S, NEW q \in Seq(S), q # <<>>, Followed(q)
  PROVE  Followed(Tail(q))
<1>1. \A i \in 1 .. Len(Tail(q)) : \A st : Later(q, i + 1, st) => Later(Tail(q), i, st)
  BY Rest DEF Later
<1>2. \A i \in 1 .. Len(Tail(q)) : i + 1 \in 1 .. Len(q) /\ Tail(q)[i] = q[i + 1]
  BY Rest
<1>3. \A i \in 1 .. Len(Tail(q)) : i + 1 < Len(q) =>
        i < Len(Tail(q)) /\ Tail(q)[i + 1] = q[i + 1 + 1]
  BY Rest
<1>4. QED
  BY <1>1, <1>2, <1>3 DEF Followed

\* Two queues that are followed up are so together.
LEMMA FollowedTogether ==
  ASSUME NEW S, NEW p \in Seq(S), NEW q \in Seq(S), Followed(p), Followed(q)
  PROVE  Followed(p \o q)
<1> DEFINE r == p \o q
<1>1. /\ Len(p) \in Nat /\ Len(q) \in Nat /\ Len(r) = Len(p) + Len(q)
      /\ \A i \in 1 .. Len(p) : i \in 1 .. Len(r) /\ r[i] = p[i]
      /\ \A i \in 1 .. Len(q) : Len(p) + i \in 1 .. Len(r) /\ r[Len(p) + i] = q[i]
  BY Together DEF Appended
<1> HIDE DEF r
<1>2. \A i \in 1 .. Len(p) : \A st : Later(p, i, st) => Later(r, i, st)
  BY <1>1 DEF Later
<1>3. \A i \in 1 .. Len(q) : \A st : Later(q, i, st) => Later(r, Len(p) + i, st)
  BY <1>1 DEF Later
<1>4. SUFFICES ASSUME NEW i \in 1 .. Len(r)
               PROVE  Followed(r)!(i)
  BY DEF Followed, r
<1>5. CASE i \in 1 .. Len(p)
  <2>1. i < Len(p) => i < Len(r) /\ r[i + 1] = p[i + 1]
    BY <1>1, <1>5
  <2>2. r[i] = p[i] /\ \A st : Later(p, i, st) => Later(r, i, st)
    BY <1>1, <1>2, <1>5
  <2>3. QED
    BY <1>5, <2>1, <2>2 DEF Followed
<1>6. CASE i \notin 1 .. Len(p)
  <2>1. i - Len(p) \in 1 .. Len(q) /\ Len(p) + (i - Len(p)) = i
    BY <1>1, <1>6
  <2>2. r[i] = q[i - Len(p)]
    BY <1>1, <2>1
  <2>3. (i - Len(p)) < Len(q) => i < Len(r) /\ r[i + 1] = q[(i - Len(p)) + 1]
    <3>1. (i - Len(p)) < Len(q) =>
            (i - Len(p)) + 1 \in 1 .. Len(q) /\ Len(p) + ((i - Len(p)) + 1) = i + 1
      BY <1>1, <2>1
    <3>2. QED
      BY <1>1, <2>1, <3>1
  <2> DEFINE k == i - Len(p)
  <2>4. k \in 1 .. Len(q) /\ \A st : Later(q, k, st) => Later(r, i, st)
    BY <1>3, <2>1
  <2>5. r[i] = q[k] /\ (k < Len(q) => i < Len(r) /\ r[i + 1] = q[k + 1])
    BY <2>2, <2>3
  <2> HIDE DEF k
  <2>6. QED
    BY <2>4, <2>5 DEF Followed
<1>7. QED
  BY <1>5, <1>6

\* The statements of a delete, and of several, one delete after the other.
Deletes == {q \in Seq(Tidying) : Followed(q)}

\* What either of two queues holds, the two together hold.
LEMMA ContainsTogether ==
  ASSUME NEW S, NEW p \in Seq(S), NEW q \in Seq(S), NEW st, Contains(p, st) \/ Contains(q, st)
  PROVE  Contains(p \o q, st)
<1> DEFINE r == p \o q
<1>1. /\ \A i \in 1 .. Len(p) : i \in 1 .. Len(r) /\ r[i] = p[i]
      /\ \A i \in 1 .. Len(q) : Len(p) + i \in 1 .. Len(r) /\ r[Len(p) + i] = q[i]
  BY Together DEF Appended
<1> HIDE DEF r
<1>2. Contains(r, st)
  BY <1>1 DEF Contains
<1>3. QED
  BY <1>2 DEF r

\* The wipes of a delete reach every table.
LEMMA WipesReachAll ==
  ASSUME NEW s \in Sessions
  PROVE  /\ Wipes(s) \in Seq({"wipe"} \X {s} \X Tables)
         /\ \A t \in Tables : Contains(Wipes(s), <<"wipe", s, t>>)
<1> DEFINE S == {"wipe"} \X {s} \X Tables
           W(t) == IF t \in Tables THEN << <<"wipe", s, t>> >> ELSE <<>>
           all == ((W("messages") \o W("files")) \o W("usage")) \o W("digests")
<1>1. \A t : W(t) \in Seq(S)
  <2> TAKE t
  <2>1. CASE t \in Tables
    <3>1. <<"wipe", s, t>> \in S /\ W(t) = << <<"wipe", s, t>> >>
      BY <2>1
    <3> HIDE DEF S
    <3>2. QED
      BY <3>1
  <2>2. CASE t \notin Tables
    <3> HIDE DEF S
    <3>1. QED
      BY <2>2, EmptySeq
  <2>3. QED
    BY <2>1, <2>2
<1>2. \A t \in Tables : Contains(W(t), <<"wipe", s, t>>)
  <2> TAKE t \in Tables
  <2>1. W(t) = << <<"wipe", s, t>> >> /\ Len(W(t)) = 1 /\ W(t)[1] = <<"wipe", s, t>>
    OBVIOUS
  <2> HIDE DEF W
  <2>2. QED
    BY <2>1 DEF Contains
<1>3. Wipes(s) = all
  BY DEF Wipes
<1> HIDE DEF S, W
<1>4. /\ W("messages") \o W("files") \in Seq(S)
      /\ (W("messages") \o W("files")) \o W("usage") \in Seq(S)
      /\ all \in Seq(S)
  BY <1>1, ConcatProperties
<1>5. \A t \in Tables : Contains(all, <<"wipe", s, t>>)
  <2> TAKE t \in Tables
  <2> DEFINE st == <<"wipe", s, t>>
  <2>1. Contains(W(t), st)
    BY <1>2
  <2>2. t \in {"messages", "files", "usage", "digests"}
    BY CatalogAssumption
  <2> HIDE DEF st
  <2>3. Contains(W("messages") \o W("files"), st) \/ t \in {"usage", "digests"}
    BY <1>1, <2>1, <2>2, ContainsTogether
  <2>4. Contains((W("messages") \o W("files")) \o W("usage"), st) \/ t = "digests"
    BY <1>1, <1>4, <2>1, <2>3, ContainsTogether
  <2>5. Contains(all, st)
    BY <1>1, <1>4, <2>1, <2>4, ContainsTogether
  <2>6. QED
    BY <2>5 DEF st
<1>6. QED
  BY <1>3, <1>4, <1>5 DEF S

\* The statements of a delete are followed up (handleDeleteSession).
LEMMA Deleting ==
  ASSUME NEW s \in Sessions
  PROVE  DeleteStatements(s) \in Deletes
<1> DEFINE w == Wipes(s)
           n == Len(w)
           first == << <<"remove", s>>, <<"drop", s>> >>
           q == (first \o w) \o << <<"reanchor", s>> >>
<1>1. DeleteStatements(s) = q
  BY DEF DeleteStatements
<1>2. w \in Seq({"wipe"} \X {s} \X Tables) /\ \A t \in Tables : Contains(w, <<"wipe", s, t>>)
  BY WipesReachAll
<1>3. w \in Seq(Tidying) /\ n \in Nat /\ \A j \in 1 .. n : w[j][1] = "wipe"
  <2>1. ({"wipe"} \X {s} \X Tables) \subseteq Tidying
    BY DEF Tidying
  <2>2. \A st \in {"wipe"} \X {s} \X Tables : st[1] = "wipe"
    OBVIOUS
  <2>3. n \in Nat /\ \A j \in 1 .. n : w[j] \in {"wipe"} \X {s} \X Tables
    <3> HIDE DEF w
    <3>1. QED
      BY <1>2, ElementOfSeq, LenProperties
  <2>4. QED
    BY <1>2, <2>1, <2>2, <2>3, SeqMonotonic
<1>4. /\ first \in Seq(Tidying) /\ << <<"reanchor", s>> >> \in Seq(Tidying)
      /\ Len(first) = 2 /\ first[1] = <<"remove", s>> /\ first[2] = <<"drop", s>>
      /\ Len(<< <<"reanchor", s>> >>) = 1 /\ << <<"reanchor", s>> >>[1] = <<"reanchor", s>>
  <2>1. <<"remove", s>> \in Tidying /\ <<"drop", s>> \in Tidying /\ <<"reanchor", s>> \in Tidying
    BY DEF Tidying
  <2>2. QED
    BY <2>1
<1> DEFINE last == << <<"reanchor", s>> >>
<1> HIDE DEF w, first, last, n
<1>5. first \o w \in Seq(Tidying) /\ Len(first \o w) = 2 + n
      /\ (first \o w)[1] = <<"remove", s>> /\ (first \o w)[2] = <<"drop", s>>
      /\ \A j \in 1 .. n : (first \o w)[2 + j] = w[j]
  <2>1. Len(w) = n
    BY DEF n
  <2>2. first \o w \in Seq(Tidying) /\ Appended(first, w, first \o w)
    BY <1>3, <1>4, Together
  <2>3. 1 \in 1 .. Len(first) /\ 2 \in 1 .. Len(first)
    BY <1>4
  <2>4. (first \o w)[1] = <<"remove", s>> /\ (first \o w)[2] = <<"drop", s>>
    BY <1>4, <2>2, <2>3 DEF Appended
  <2>5. \A j \in 1 .. n : (first \o w)[2 + j] = w[j]
    BY <1>4, <2>1, <2>2 DEF Appended
  <2>6. QED
    BY <1>3, <1>4, <2>1, <2>2, <2>4, <2>5 DEF Appended
<1>6. (first \o w) \o last \in Seq(Tidying) /\ Len((first \o w) \o last) = 3 + n
      /\ ((first \o w) \o last)[1] = <<"remove", s>> /\ ((first \o w) \o last)[2] = <<"drop", s>>
      /\ ((first \o w) \o last)[3 + n] = <<"reanchor", s>>
      /\ \A j \in 1 .. n : ((first \o w) \o last)[2 + j] = w[j]
  <2>1. last \in Seq(Tidying) /\ Len(last) = 1 /\ last[1] = <<"reanchor", s>>
    BY <1>4 DEF last
  <2>2. \A j \in 1 .. n : 2 + j \in 1 .. 2 + n
    BY <1>3
  <2>3. 1 \in 1 .. 2 + n /\ 2 \in 1 .. 2 + n /\ (2 + n) + 1 = 3 + n
    BY <1>3
  <2> DEFINE f == first \o w
  <2> HIDE DEF f
  <2>4. /\ f \in Seq(Tidying) /\ Len(f) = 2 + n
        /\ f[1] = <<"remove", s>> /\ f[2] = <<"drop", s>>
        /\ \A j \in 1 .. n : f[2 + j] = w[j]
    BY <1>5 DEF f
  <2>5. /\ f \o last \in Seq(Tidying) /\ Len(f \o last) = 3 + n
        /\ (f \o last)[3 + n] = <<"reanchor", s>>
        /\ \A i \in 1 .. 2 + n : (f \o last)[i] = f[i]
    <3>1. f \o last \in Seq(Tidying) /\ Appended(f, last, f \o last)
      BY <2>1, <2>4, Together
    <3>2. Len(f \o last) = 3 + n /\ \A i \in 1 .. 2 + n : (f \o last)[i] = f[i]
      BY <1>3, <2>1, <2>4, <3>1 DEF Appended
    <3>3. (f \o last)[3 + n] = <<"reanchor", s>>
      <4>1. 1 \in 1 .. Len(last) /\ Len(f) + 1 = 3 + n
        BY <1>3, <2>1, <2>4
      <4>2. (f \o last)[Len(f) + 1] = last[1]
        BY <3>1, <4>1 DEF Appended
      <4>3. QED
        BY <2>1, <4>1, <4>2
    <3>4. QED
      BY <3>1, <3>2, <3>3
  <2>6. QED
    BY <2>2, <2>3, <2>4, <2>5 DEF f
<1>7. q = (first \o w) \o last
  BY DEF last
<1> HIDE DEF q
<1>8. /\ q \in Seq(Tidying) /\ Len(q) = 3 + n
      /\ q[1] = <<"remove", s>> /\ q[2] = <<"drop", s>> /\ q[3 + n] = <<"reanchor", s>>
      /\ \A j \in 1 .. n : q[2 + j] = w[j]
  BY <1>6, <1>7
<1>9. \A t \in Tables : \E j \in 1 .. n : q[2 + j] = <<"wipe", s, t>>
  BY <1>2, <1>8 DEF Contains, n
<1>10. Followed(q)
  <2>1. \A i \in 1 .. Len(q) : i = 1 \/ i = 2 \/ i = 3 + n \/ \E j \in 1 .. n : i = 2 + j
    <3>1. \A i \in 1 .. Len(q) : i # 1 /\ i # 2 /\ i # 3 + n => i - 2 \in 1 .. n /\ i = 2 + (i - 2)
      BY <1>3, <1>8
    <3>2. QED
      BY <3>1
  <2>2. \A t \in Tables : Later(q, 1, <<"wipe", s, t>>)
    <3>1. \A j \in 1 .. n : 2 + j \in 1 .. Len(q) /\ 2 + j > 1
      BY <1>3, <1>8
    <3>2. QED
      BY <1>9, <3>1 DEF Later
  <2>3. Later(q, 1, <<"drop", s>>) /\ Later(q, 2, <<"reanchor", s>>)
    BY <1>3, <1>8 DEF Later
  <2>4. \A i \in 1 .. Len(q) :
          \/ i = 1 /\ q[i] = <<"remove", s>>
          \/ i = 2 /\ q[i] = <<"drop", s>>
          \/ q[i][1] \in {"wipe", "reanchor"}
    <3>1. \A j \in 1 .. n : q[2 + j][1] = "wipe"
      BY <1>3, <1>8
    <3>2. q[3 + n][1] = "reanchor"
      BY <1>8
    <3>3. QED
      BY <1>8, <2>1, <3>1, <3>2
  <2>5. SUFFICES ASSUME NEW i \in 1 .. Len(q)
                 PROVE  Followed(q)!(i)
    BY DEF Followed
  <2>6. CASE i = 1 /\ q[i] = <<"remove", s>>
    BY <2>2, <2>3, <2>6
  <2>7. CASE i = 2 /\ q[i] = <<"drop", s>>
    BY <2>3, <2>7
  <2>8. CASE q[i][1] \in {"wipe", "reanchor"}
    BY <2>8
  <2>9. QED
    BY <2>4, <2>6, <2>7, <2>8
<1>11. QED
  BY <1>1, <1>8, <1>10 DEF Deletes, q

\* Deletes in a row.
LEMMA DeletingMany ==
  ASSUME NEW n \in Nat, NEW order \in [1 .. n -> Sessions]
  PROVE  FlattenSeq([i \in 1 .. n |-> DeleteStatements(order[i])]) \in Deletes
<1>1. [i \in 1 .. n |-> DeleteStatements(order[i])] \in Seq(Deletes)
  <2>1. [i \in 1 .. n |-> DeleteStatements(order[i])] \in [1 .. n -> Deletes]
    BY Deleting
  <2>2. QED
    BY <2>1, SeqDef
<1>2. <<>> \in Deletes
  BY EmptySeq DEF Deletes, Followed
<1>3. \A p, q \in Deletes : p \o q \in Deletes
  BY ConcatProperties, FollowedTogether DEF Deletes
<1>4. QED
  BY <1>1, <1>2, <1>3, FlattenStays

\* The statements of a start, which are about workspaces that have a row.
Boots(W) ==
  {q \in Seq(Making) :
     Followed(q) /\ \A i \in 1 .. Len(q) : q[i][1] \in {"seed", "ensure", "adopt"} /\ q[i][2] \in W}

\* The statements of a start, whatever the order of the workspaces.
LEMMA Booting ==
  ASSUME NEW W \in SUBSET Workspaces, NEW order \in SetToSeqs(W)
  PROVE  FlattenSeq([i \in DOMAIN order |->
           << <<"seed", order[i]>>, <<"ensure", order[i]>>, <<"adopt", order[i]>> >>]) \in Boots(W)
<1> DEFINE Boot(w) == << <<"seed", w>>, <<"ensure", w>>, <<"adopt", w>> >>
<1>1. order \in Seq(W)
  BY CatalogAssumption, FS_Subset, OrdersAreSequences DEF CatalogAssumption
<1>2. ASSUME NEW w \in W PROVE Boot(w) \in Boots(W)
  <2>1. <<"seed", w>> \in Making /\ <<"ensure", w>> \in Making /\ <<"adopt", w>> \in Making
    BY DEF Making
  <2> DEFINE q == Boot(w)
  <2>2. /\ q \in Seq(Making) /\ Len(q) = 3
        /\ q[1] = <<"seed", w>> /\ q[2] = <<"ensure", w>> /\ q[3] = <<"adopt", w>>
    BY <2>1
  <2> HIDE DEF q
  <2>3. \A i \in 1 .. Len(q) : i = 1 \/ i = 2 \/ i = 3
    BY <2>2
  <2>4. \A i \in 1 .. Len(q) : q[i][1] \in {"seed", "ensure", "adopt"} /\ q[i][2] = w
    BY <2>2, <2>3
  <2>5. \A i \in 1 .. Len(q) : q[i][1] = "ensure" => i < Len(q) /\ q[i + 1] = <<"adopt", w>>
    BY <2>2, <2>3
  <2>6. Followed(q)
    BY <2>4, <2>5 DEF Followed
  <2>7. q \in Boots(W)
    BY <2>2, <2>4, <2>6 DEF Boots
  <2>8. QED
    BY <2>7 DEF q
<1>3. [i \in DOMAIN order |-> Boot(order[i])] \in Seq(Boots(W))
  <2>1. Len(order) \in Nat /\ DOMAIN order = 1 .. Len(order) /\ \A i \in 1 .. Len(order) : order[i] \in W
    BY <1>1, LenProperties, ElementOfSeq
  <2> HIDE DEF Boot
  <2>2. [i \in DOMAIN order |-> Boot(order[i])] \in [1 .. Len(order) -> Boots(W)]
    BY <1>2, <2>1
  <2>3. QED
    BY <2>1, <2>2, SeqDef
<1>4. <<>> \in Boots(W)
  BY EmptySeq DEF Boots, Followed
<1>5. \A p, q \in Boots(W) : p \o q \in Boots(W)
  <2> TAKE p, q \in Boots(W)
  <2> DEFINE r == p \o q
  <2>1. /\ p \in Seq(Making) /\ q \in Seq(Making) /\ Followed(p) /\ Followed(q)
        /\ \A i \in 1 .. Len(p) : p[i][1] \in {"seed", "ensure", "adopt"} /\ p[i][2] \in W
        /\ \A i \in 1 .. Len(q) : q[i][1] \in {"seed", "ensure", "adopt"} /\ q[i][2] \in W
    BY DEF Boots
  <2>2. r \in Seq(Making) /\ Followed(r) /\ Appended(p, q, r)
    BY <2>1, Together, FollowedTogether
  <2> HIDE DEF r
  <2>3. \A i \in 1 .. Len(r) : i \in 1 .. Len(p) \/ (i - Len(p) \in 1 .. Len(q) /\ Len(p) + (i - Len(p)) = i)
    BY <2>2 DEF Appended
  <2>4. \A i \in 1 .. Len(r) : r[i][1] \in {"seed", "ensure", "adopt"} /\ r[i][2] \in W
    <3> TAKE i \in 1 .. Len(r)
    <3>1. \/ r[i] = p[i] /\ i \in 1 .. Len(p)
          \/ r[i] = q[i - Len(p)] /\ i - Len(p) \in 1 .. Len(q)
      BY <2>2, <2>3 DEF Appended
    <3>2. QED
      BY <2>1, <3>1
  <2>5. r \in Boots(W)
    BY <2>2, <2>4 DEF Boots
  <2>6. QED
    BY <2>5 DEF r
<1>6. FlattenSeq([i \in DOMAIN order |-> Boot(order[i])]) \in Boots(W)
  <2> HIDE DEF Boot
  <2>1. QED
    BY <1>3, <1>4, <1>5, FlattenStays
<1>7. QED
  BY <1>6

\* What the arguments of a statement are, by what it does.
Args(st) ==
  /\ st[1] \in {"add", "seed", "ensure", "adopt", "open", "anchor", "close", "leave"} => st[2] \in Workspaces
  /\ st[1] \in {"remove", "drop", "reanchor", "insert", "bind", "put", "wipe"} => st[2] \in Sessions
  /\ st[1] = "activate" => st[2] \in Sessions \cup {None}
  /\ st[1] = "insert" => st[3] \in AgentIds \cup {None}
  /\ st[1] = "bind" => st[3] \in Workspaces
  /\ st[1] = "wipe" => st[3] \in Tables
  /\ st[1] = "hire" => st[2] \in UserAgents /\ st[3] \in Workspaces
  /\ st[1] \in {"fire", "mark", "unmark"} => st[2] \in AgentIds
  /\ st[1] = "default" => st[2] \in Workspaces /\ st[3] \in AgentIds

Takes == {"remove", "drop", "reanchor", "wipe", "close", "leave"}
Makes == {"add", "seed", "ensure", "adopt", "open", "anchor", "insert", "bind", "put",
          "hire", "fire", "mark", "unmark", "default"}

\* A statement of a delete by its kind and its arguments.
LEMMA Tidies ==
  ASSUME NEW st \in Tidying
  PROVE  Args(st) /\ st[1] \notin Makes /\ (st[1] = "activate" => st[2] = None)
<1>1. CASE st \in {"remove", "drop", "reanchor"} \X Sessions
  BY <1>1 DEF Args, Makes
<1>2. CASE st \in {"wipe"} \X Sessions \X Tables
  BY <1>2 DEF Args, Makes
<1>3. CASE st \in {"close", "leave"} \X Workspaces
  BY <1>3 DEF Args, Makes
<1>4. CASE st = <<"activate", None>>
  BY <1>4 DEF Args, Makes
<1>5. QED
  BY <1>1, <1>2, <1>3, <1>4 DEF Tidying

\* The same for a statement that is not of a delete.
LEMMA Mades ==
  ASSUME NEW st \in Making
  PROVE  Args(st) /\ st[1] \notin Takes
<1>1. CASE st \in {"add", "seed", "ensure", "adopt", "open", "anchor"} \X Workspaces
  BY <1>1 DEF Args, Takes
<1>2. CASE st \in {"insert"} \X Sessions \X (AgentIds \cup {None})
  BY <1>2 DEF Args, Takes
<1>3. CASE st \in {"bind"} \X Sessions \X Workspaces
  BY <1>3 DEF Args, Takes
<1>4. CASE st \in {"activate"} \X Sessions
  BY <1>4 DEF Args, Takes
<1>5. CASE st \in {"hire"} \X UserAgents \X Workspaces
  BY <1>5 DEF Args, Takes
<1>6. CASE st \in {"fire", "mark", "unmark"} \X AgentIds
  BY <1>6 DEF Args, Takes
<1>7. CASE st \in {"default"} \X Workspaces \X AgentIds
  BY <1>7 DEF Args, Takes
<1>8. CASE st \in {"put"} \X Sessions \X {"files", "messages"}
  BY <1>8 DEF Args, Takes
<1>9. QED
  BY <1>1, <1>2, <1>3, <1>4, <1>5, <1>6, <1>7, <1>8 DEF Making

\* The rest r of the queue, and its first statement st.
Remains(st, r) ==
  /\ Len(todo) \in Nat /\ 1 \in 1 .. Len(todo) /\ st = todo[1] /\ Len(r) = Len(todo) - 1
  /\ \A i \in 1 .. Len(r) : i + 1 \in 1 .. Len(todo) /\ r[i] = todo[i + 1]
  /\ \A i \in 1 .. Len(todo) : i # 1 => i - 1 \in 1 .. Len(r) /\ r[i - 1] = todo[i]

\* The next statement and the rest, in either kind of queue.
LEMMA Heads ==
  ASSUME Queued, todo # <<>>
  PROVE  /\ Remains(Head(todo), Tail(todo)) /\ Args(Head(todo))
         /\ todo \in Seq(Tidying) => Tail(todo) \in Seq(Tidying) /\ Head(todo)[1] \notin Makes
         /\ todo \in Seq(Making) => Tail(todo) \in Seq(Making) /\ Head(todo)[1] \notin Takes
<1>1. CASE todo \in Seq(Tidying)
  <2>1. Remains(Head(todo), Tail(todo)) /\ Head(todo) \in Tidying
    BY <1>1, Rest DEF Remains
  <2>2. Args(Head(todo)) /\ Head(todo)[1] \notin Makes
    BY <2>1, Tidies
  <2>3. todo \in Seq(Making) => Tail(todo) \in Seq(Making) /\ Head(todo)[1] \notin Takes
    BY Rest, Mades
  <2>4. QED
    BY <1>1, <2>1, <2>2, <2>3, Rest
<1>2. CASE todo \notin Seq(Tidying)
  <2>1. Remains(Head(todo), Tail(todo)) /\ Head(todo) \in Making
    BY <1>2, Rest DEF Remains, Queued
  <2>2. Args(Head(todo)) /\ Head(todo)[1] \notin Takes
    BY <2>1, Mades
  <2>3. QED
    BY <1>2, <2>1, <2>2, Rest DEF Queued
<1>3. QED
  BY <1>1, <1>2

\* What is left to do once the first statement is made.
LEMMA StillPending ==
  ASSUME Queued, todo # <<>>, NEW st, Pending(st), st # Head(todo)
  PROVE  Contains(Tail(todo), st)
<1>1. Remains(Head(todo), Tail(todo))
  BY Heads
<1> DEFINE r == Tail(todo)
<1> HIDE DEF r
<1>2. Contains(r, st)
  BY <1>1 DEF r, Remains, Pending, Contains
<1>3. QED
  BY <1>2 DEF r

\* What follows the first statement is still to come.
LEMMA ThenPending ==
  ASSUME Queued, todo # <<>>, NEW st, Later(todo, 1, st)
  PROVE  Contains(Tail(todo), st)
<1>1. Remains(Head(todo), Tail(todo))
  BY Heads
<1> DEFINE r == Tail(todo)
<1> HIDE DEF r
<1>2. Contains(r, st)
  BY <1>1 DEF r, Remains, Later, Contains
<1>3. QED
  BY <1>2 DEF r

\* The queues that requests leave.
LEMMA ShortQueues ==
  /\ \A w \in Workspaces :
       << <<"add", w>>, <<"seed", w>>, <<"ensure", w>>, <<"adopt", w>> >> \in Seq(Making)
  /\ \A w \in Workspaces : << <<"open", w>>, <<"anchor", w>> >> \in Seq(Making)
  /\ \A s \in Sessions, w \in Workspaces, a \in AgentIds \cup {None} :
       << <<"insert", s, a>>, <<"bind", s, w>>, <<"activate", s>> >> \in Seq(Making)
  /\ \A s \in Sessions, w \in Workspaces : << <<"bind", s, w>> >> \in Seq(Making)
  /\ \A s \in Sessions : << <<"activate", s>> >> \in Seq(Making)
  /\ \A s \in Sessions, t \in {"files", "messages"} : << <<"put", s, t>> >> \in Seq(Making)
  /\ \A a \in UserAgents, w \in Workspaces : << <<"hire", a, w>> >> \in Seq(Making)
  /\ \A a \in AgentIds : << <<"fire", a>> >> \in Seq(Making)
  /\ \A w \in Workspaces, a \in AgentIds :
       << <<"mark", a>>, <<"default", w, a>> >> \in Seq(Making)
  /\ \A w \in Workspaces, a \in AgentIds, p \in AgentIds :
       << <<"unmark", p>>, <<"mark", a>>, <<"default", w, a>> >> \in Seq(Making)
<1>1. /\ \A w \in Workspaces : \A o \in {"add", "seed", "ensure", "adopt", "open", "anchor"} : <<o, w>> \in Making
      /\ \A s \in Sessions : <<"activate", s>> \in Making
      /\ \A s \in Sessions, t \in {"files", "messages"} : <<"put", s, t>> \in Making
      /\ \A s \in Sessions, a \in AgentIds \cup {None} : <<"insert", s, a>> \in Making
      /\ \A s \in Sessions, w \in Workspaces : <<"bind", s, w>> \in Making
      /\ \A a \in UserAgents, w \in Workspaces : <<"hire", a, w>> \in Making
      /\ \A a \in AgentIds : \A o \in {"fire", "mark", "unmark"} : <<o, a>> \in Making
      /\ \A w \in Workspaces, a \in AgentIds : <<"default", w, a>> \in Making
  BY DEF Making
<1>2. \A S : /\ \A x \in S : <<x>> \in Seq(S)
             /\ \A x, y \in S : <<x, y>> \in Seq(S)
             /\ \A x, y, z \in S : <<x, y, z>> \in Seq(S)
             /\ \A x, y, z, u \in S : <<x, y, z, u>> \in Seq(S)
  OBVIOUS
<1> DEFINE M == Making
<1>3. /\ \A x \in M : <<x>> \in Seq(M)
      /\ \A x, y \in M : <<x, y>> \in Seq(M)
      /\ \A x, y, z \in M : <<x, y, z>> \in Seq(M)
      /\ \A x, y, z, u \in M : <<x, y, z, u>> \in Seq(M)
  BY <1>2
<1>4. QED
  BY <1>1, <1>3

\* Nothing has to follow statements that take nothing away.
LEMMA NothingFollows ==
  ASSUME NEW q \in Seq(Making), \A i \in 1 .. Len(q) : q[i][1] # "ensure"
  PROVE  Followed(q)
<1>1. \A i \in 1 .. Len(q) : q[i] \in Making
  BY ElementOfSeq
<1>2. \A i \in 1 .. Len(q) : q[i][1] \notin Takes
  BY <1>1, Mades
<1>3. QED
  BY <1>2 DEF Followed, Takes

\* The statements of a change of default, when there was one before.
LEMMA UnmarkFirst ==
  ASSUME NEW w \in Workspaces, NEW a \in AgentIds, NEW p \in AgentIds
  PROVE  << <<"unmark", p>> >> \o << <<"mark", a>>, <<"default", w, a>> >>
           = << <<"unmark", p>>, <<"mark", a>>, <<"default", w, a>> >>
<1> DEFINE x == << <<"unmark", p>> >>
           y == << <<"mark", a>>, <<"default", w, a>> >>
           z == << <<"unmark", p>>, <<"mark", a>>, <<"default", w, a>> >>
<1>1. <<"unmark", p>> \in Making
  BY DEF Making
<1>2. x \in Seq(Making) /\ y \in Seq(Making) /\ z \in Seq(Making)
  BY <1>1, ShortQueues
<1>3. Appended(x, y, x \o y) /\ x \o y \in Seq(Making)
  BY <1>2, Together
<1>4. /\ Len(x) = 1 /\ x[1] = <<"unmark", p>>
      /\ Len(y) = 2 /\ y[1] = <<"mark", a>> /\ y[2] = <<"default", w, a>>
      /\ Len(z) = 3 /\ z[1] = <<"unmark", p>> /\ z[2] = <<"mark", a>> /\ z[3] = <<"default", w, a>>
  OBVIOUS
<1> DEFINE r == x \o y
<1> HIDE DEF x, y, z, r
<1>5. Appended(x, y, r) /\ r \in Seq(Making)
  BY <1>3 DEF r
<1>6. Len(r) = 3 /\ r[1] = z[1] /\ r[2] = z[2] /\ r[3] = z[3]
  BY <1>4, <1>5 DEF Appended
<1>7. Len(r) = Len(z) /\ \A i \in 1 .. Len(r) : r[i] = z[i]
  BY <1>4, <1>6
<1>8. r = z
  BY <1>2, <1>5, <1>7, SeqEqual
<1>9. QED
  BY <1>8 DEF x, y, z, r

\* What a request leaves to be done is one of the two kinds of queue, and is followed up.
GoodQueue(q) == (q \in Seq(Tidying) \/ q \in Seq(Making)) /\ Followed(q)

\* Deleting a workspace takes its sessions, its row and its being active away.
LEMMA ClosingQueue ==
  ASSUME TypeOK, NEW w \in Workspaces, DeleteWorkspace(w)
  PROVE  todo' \in Seq(Tidying) /\ Followed(todo')
<1>1. PICK order \in SetToSeqs(SessionsOf(w) \ {active.session}) :
        LET last == IF active.session \in SessionsOf(w) THEN <<active.session>> ELSE <<>>
            steps == [i \in DOMAIN (order \o last) |-> DeleteStatements((order \o last)[i])]
        IN todo' = FlattenSeq(steps) \o << <<"close", w>>, <<"leave", w>> >>
  BY DEF DeleteWorkspace, Serve
<1> DEFINE last == IF active.session \in SessionsOf(w) THEN <<active.session>> ELSE <<>>
           all == order \o last
           front == FlattenSeq([i \in DOMAIN all |-> DeleteStatements(all[i])])
           back == << <<"close", w>>, <<"leave", w>> >>
<1>2. SessionsOf(w) \subseteq Sessions
  BY DEF SessionsOf, TypeOK
<1>3. order \in Seq(Sessions)
  <2>1. order \in Seq(SessionsOf(w) \ {active.session})
    BY <1>2, CatalogAssumption, FS_Subset, OrdersAreSequences DEF CatalogAssumption
  <2>2. QED
    BY <1>2, <2>1, SeqMonotonic
<1>4. last \in Seq(Sessions)
  BY <1>2
<1>5. all \in Seq(Sessions)
  <2> HIDE DEF last
  <2>1. QED
    BY <1>3, <1>4, ConcatProperties
<1>6. front \in Deletes
  <2> HIDE DEF all
  <2>1. Len(all) \in Nat /\ DOMAIN all = 1 .. Len(all) /\ all \in [1 .. Len(all) -> Sessions]
    BY <1>5, LenProperties
  <2>2. FlattenSeq([i \in 1 .. Len(all) |-> DeleteStatements(all[i])]) \in Deletes
    BY <2>1, DeletingMany
  <2>3. QED
    BY <2>1, <2>2
<1>7. back \in Seq(Tidying) /\ Followed(back)
  <2>1. <<"close", w>> \in Tidying /\ <<"leave", w>> \in Tidying
    BY DEF Tidying
  <2>2. /\ back \in Seq(Tidying) /\ Len(back) = 2
        /\ back[1] = <<"close", w>> /\ back[2] = <<"leave", w>>
    BY <2>1
  <2> HIDE DEF back
  <2>3. \A i \in 1 .. Len(back) : i = 1 \/ i = 2
    BY <2>2
  <2>4. Later(back, 1, <<"leave", w>>)
    BY <2>2 DEF Later
  <2>5. \A i \in 1 .. Len(back) :
          /\ i = 1 => back[i] = <<"close", w>>
          /\ i # 1 => back[i] = <<"leave", w>>
    BY <2>2, <2>3
  <2>6. SUFFICES ASSUME NEW i \in 1 .. Len(back)
                 PROVE  Followed(back)!(i)
    BY <2>2 DEF Followed
  <2>7. CASE i = 1
    BY <2>4, <2>5, <2>7
  <2>8. CASE i # 1
    BY <2>5, <2>8
  <2>9. QED
    BY <2>7, <2>8
<1>8. todo' = front \o back
  BY <1>1
<1> HIDE DEF front, back
<1>9. QED
  BY <1>6, <1>7, <1>8, FollowedTogether, ConcatProperties DEF Deletes

\* The two forms of a change of default.
LEMMA Redefaults ==
  ASSUME TypeOK, NEW w \in Workspaces, NEW a \in AgentIds,
         UpdateDefaultAgent(w, a) \/ UpdateDefaultBlind(w, a)
  PROVE  \/ todo' = << <<"mark", a>>, <<"default", w, a>> >>
         \/ \E p \in AgentIds : todo' = << <<"unmark", p>>, <<"mark", a>>, <<"default", w, a>> >>
<1> DEFINE short == << <<"mark", a>>, <<"default", w, a>> >>
           long(p) == << <<"unmark", p>>, <<"mark", a>>, <<"default", w, a>> >>
<1>1. CASE UpdateDefaultBlind(w, a)
  BY <1>1 DEF UpdateDefaultBlind
<1>2. CASE UpdateDefaultAgent(w, a)
  <2>1. PICK p \in HeadOf(Marked(w)) :
          todo' = (IF p = None THEN <<>> ELSE << <<"unmark", p>> >>) \o short
    BY <1>2 DEF UpdateDefaultAgent, Serve
  <2>2. CASE p = None
    BY <2>1, <2>2
  <2>3. CASE p # None
    <3>1. p \in AgentIds
      BY <2>1, <2>3 DEF HeadOf, Marked, TypeOK
    <3>2. << <<"unmark", p>> >> \o short = long(p)
      BY <3>1, UnmarkFirst
    <3>3. QED
      BY <2>1, <2>3, <3>1, <3>2
  <2>4. QED
    BY <2>2, <2>3
<1>3. QED
  BY <1>1, <1>2

\* Every request leaves such a queue.
LEMMA Asking ==
  ASSUME TypeOK, Request
  PROVE  GoodQueue(todo')
<1>1. ASSUME NEW w \in Workspaces, CreateWorkspace(w)
      PROVE  GoodQueue(todo')
  <2> DEFINE q == << <<"add", w>>, <<"seed", w>>, <<"ensure", w>>, <<"adopt", w>> >>
  <2>1. q \in Seq(Making) /\ todo' = q
    BY <1>1, ShortQueues DEF CreateWorkspace, Serve
  <2>2. /\ Len(q) = 4 /\ q[1] = <<"add", w>> /\ q[2] = <<"seed", w>> /\ q[3] = <<"ensure", w>>
        /\ q[4] = <<"adopt", w>>
    OBVIOUS
  <2> HIDE DEF q
  <2>3. \A i \in 1 .. Len(q) : i = 1 \/ i = 2 \/ i = 3 \/ i = 4
    BY <2>2
  <2>4. \A i \in 1 .. Len(q) :
          /\ q[i][1] \in {"add", "seed", "ensure", "adopt"}
          /\ q[i][1] = "ensure" => i < Len(q) /\ q[i + 1] = <<"adopt", q[i][2]>>
    BY <2>2, <2>3
  <2>5. Followed(q)
    BY <2>4 DEF Followed
  <2>6. QED
    BY <2>1, <2>5 DEF GoodQueue
<1>2. ASSUME NEW w \in Workspaces, SetActiveWorkspace(w)
      PROVE  GoodQueue(todo')
  <2> DEFINE q == << <<"open", w>>, <<"anchor", w>> >>
  <2>1. q \in Seq(Making) /\ todo' = q
    BY <1>2, ShortQueues DEF SetActiveWorkspace, Serve
  <2>2. \A i \in 1 .. Len(q) : q[i][1] # "ensure"
    OBVIOUS
  <2>3. QED
    BY <2>1, <2>2, NothingFollows DEF GoodQueue
<1>3. ASSUME NEW w \in Workspaces, DeleteWorkspace(w)
      PROVE  GoodQueue(todo')
  BY <1>3, ClosingQueue DEF GoodQueue
<1>4. ASSUME NEW s \in Sessions, NEW w \in Workspaces, BindSessionWorkspace(s, w)
      PROVE  GoodQueue(todo')
  <2> DEFINE q == << <<"bind", s, w>> >>
  <2>1. q \in Seq(Making) /\ todo' = q
    BY <1>4, ShortQueues DEF BindSessionWorkspace, Serve
  <2>2. \A i \in 1 .. Len(q) : q[i][1] # "ensure"
    OBVIOUS
  <2>3. QED
    BY <2>1, <2>2, NothingFollows DEF GoodQueue
<1>5. ASSUME NEW s \in Sessions, NEW w \in Workspaces, NEW asked \in AgentIds \cup {None},
             CreateSession(s, w, asked)
      PROVE  GoodQueue(todo')
  <2>1. PICK a \in HeadOf(IF asked # None THEN {asked} \cap DOMAIN agents ELSE Marked(w)) :
          todo' = << <<"insert", s, a>>, <<"bind", s, w>>, <<"activate", s>> >>
    BY <1>5 DEF CreateSession
  <2>2. a \in AgentIds \cup {None}
    BY <2>1 DEF HeadOf, Marked, TypeOK
  <2> DEFINE q == << <<"insert", s, a>>, <<"bind", s, w>>, <<"activate", s>> >>
  <2>3. q \in Seq(Making)
    BY <2>2, ShortQueues
  <2>4. \A i \in 1 .. Len(q) : q[i][1] # "ensure"
    OBVIOUS
  <2>5. QED
    BY <2>1, <2>3, <2>4, NothingFollows DEF GoodQueue
<1>6. ASSUME NEW a \in UserAgents, NEW w \in Workspaces, CreateAgent(a, w)
      PROVE  GoodQueue(todo')
  <2> DEFINE q == << <<"hire", a, w>> >>
  <2>1. q \in Seq(Making) /\ todo' = q
    BY <1>6, ShortQueues DEF CreateAgent, Serve
  <2>2. \A i \in 1 .. Len(q) : q[i][1] # "ensure"
    OBVIOUS
  <2>3. QED
    BY <2>1, <2>2, NothingFollows DEF GoodQueue
<1>7. ASSUME NEW a \in AgentIds, NEW w \in Workspaces,
             UpdateDefaultAgent(w, a) \/ UpdateDefaultBlind(w, a)
      PROVE  GoodQueue(todo')
  <2> DEFINE short == << <<"mark", a>>, <<"default", w, a>> >>
             long(p) == << <<"unmark", p>>, <<"mark", a>>, <<"default", w, a>> >>
  <2>1. todo' = short \/ \E p \in AgentIds : todo' = long(p)
    BY <1>7, Redefaults
  <2>2. short \in Seq(Making) /\ \A p \in AgentIds : long(p) \in Seq(Making)
    BY ShortQueues
  <2>3. /\ \A i \in 1 .. Len(short) : short[i][1] # "ensure"
        /\ \A p \in AgentIds : \A i \in 1 .. Len(long(p)) : long(p)[i][1] # "ensure"
    OBVIOUS
  <2> HIDE DEF short, long
  <2>4. QED
    BY <2>1, <2>2, <2>3, NothingFollows DEF GoodQueue
<1>8. ASSUME NEW s \in Sessions, SetActiveSession(s) \/ ImportFiles(s) \/ SaveMessage(s)
      PROVE  GoodQueue(todo')
  <2> DEFINE q == << <<"activate", s>> >>
             r(t) == << <<"put", s, t>> >>
  <2>1. todo' = q \/ \E t \in {"files", "messages"} : todo' = r(t)
    BY <1>8 DEF SetActiveSession, ImportFiles, SaveMessage, Put
  <2>2. q \in Seq(Making) /\ \A t \in {"files", "messages"} : r(t) \in Seq(Making)
    BY ShortQueues
  <2>3. /\ \A i \in 1 .. Len(q) : q[i][1] # "ensure"
        /\ \A t : \A i \in 1 .. Len(r(t)) : r(t)[i][1] # "ensure"
    OBVIOUS
  <2> HIDE DEF q, r
  <2>4. QED
    BY <2>1, <2>2, <2>3, NothingFollows DEF GoodQueue
<1>9. ASSUME NEW s \in Sessions, DeleteSession(s)
      PROVE  GoodQueue(todo')
  <2>1. todo' = DeleteStatements(s) /\ DeleteStatements(s) \in Deletes
    BY <1>9, Deleting DEF DeleteSession, Serve
  <2>2. QED
    BY <2>1 DEF Deletes, GoodQueue
<1>10. ASSUME NEW a \in UserAgents, DeleteAgent(a)
       PROVE  GoodQueue(todo')
  <2> DEFINE q == << <<"fire", a>> >>
  <2>1. q \in Seq(Making) /\ todo' = q
    BY <1>10, ShortQueues DEF DeleteAgent, Serve, AgentIds
  <2>2. \A i \in 1 .. Len(q) : q[i][1] # "ensure"
    OBVIOUS
  <2>3. QED
    BY <2>1, <2>2, NothingFollows DEF GoodQueue
<1>11. QED
  BY <1>1, <1>2, <1>3, <1>4, <1>5, <1>6, <1>7, <1>8, <1>9, <1>10 DEF Request

-----------------------------------------------------------------------------
\* Every step leaves a queue that is one of the two kinds and is followed up.
LEMMA Advancing ==
  ASSUME Statement
  PROVE  /\ todo # <<>>
         /\ \/ todo' = Tail(todo)
            \/ At("ensure") /\ todo' = Tail(Tail(todo))
            \/ At("leave") /\ todo' = << <<"activate", None>> >> \o Tail(todo)
BY DEF Statement, AddWorkspace, SeedPresets, EnsureDefault, AdoptDefault, MarkAgent, SetColumn,
       DropWorkspace, OpenWorkspace, AnchorSession, LeaveWorkspace, ActivateSession, Reanchor,
       InsertSession, BindWorkspace, DropSession, TouchRows, RemoveRuntime, At, Done

\* Turns and compactions leave the request under way alone.
LEMMA TurnsKeepTodo ==
  ASSUME Turns
  PROVE  UNCHANGED <<todo, workspaces, agents, active, failed, strays, arriving>>
BY DEF Turns, Prompt, Register, PersistUser, PersistAssistant, PersistUsage, Write, SaveSelect,
       SaveUpsert, EndTurn, Compact, PersistCompaction, Enter, tables, memory, history

\* So do the messages of peers, which only add workspaces and sessions.
LEMMA MessagesKeep ==
  ASSUME PeerMessages
  PROVE  /\ UNCHANGED <<todo, agents, rows, active, live, held, turn, found, compacting, failed, strays>>
         /\ \/ workspaces' = workspaces
            \/ \E w \in ImWorkspaces \ DOMAIN workspaces : workspaces' = With(workspaces, w, None)
         /\ DOMAIN workspaces \subseteq DOMAIN workspaces'
         /\ DOMAIN sessions \subseteq DOMAIN sessions'
<1>1. PICK s \in ImSessions :
        \/ \E w \in ImWorkspaces : MessageArrives(s, w)
        \/ MessageSelect(s) \/ MessageUpsert(s) \/ MessageBind(s)
  BY DEF PeerMessages
<1>2. UNCHANGED <<todo, agents, rows, active, live, held, turn, found, compacting, failed, strays>>
  BY <1>1 DEF MessageArrives, MessageSelect, MessageUpsert, MessageBind, tables, history
<1>3. \/ workspaces' = workspaces
      \/ \E w \in ImWorkspaces \ DOMAIN workspaces : workspaces' = With(workspaces, w, None)
  BY <1>1 DEF MessageArrives, MessageSelect, MessageUpsert, MessageBind, tables
<1>4. \/ sessions' = sessions
      \/ \E v : sessions' = With(sessions, s, v)
      \/ DOMAIN sessions' = DOMAIN sessions
  BY <1>1 DEF MessageArrives, MessageSelect, MessageUpsert, MessageBind, tables
<1>5. DOMAIN workspaces \subseteq DOMAIN workspaces' /\ DOMAIN sessions \subseteq DOMAIN sessions'
  BY <1>3, <1>4 DEF With
<1>6. QED
  BY <1>2, <1>3, <1>5

\* The rest of a good queue is one.
LEMMA QueueAdvances ==
  ASSUME Queued, Followed(todo), todo # <<>>
  PROVE  GoodQueue(Tail(todo))
BY Heads, FollowedInRest DEF Queued, GoodQueue

\* After ensure comes adopt, which is skipped when the insert fails.
LEMMA AdoptIsNext ==
  ASSUME Queued, Followed(todo), At("ensure")
  PROVE  Tail(todo) # <<>> /\ Tail(todo)[1] = <<"adopt", Head(todo)[2]>> /\ todo \in Seq(Making)
<1>1. Remains(Head(todo), Tail(todo)) /\ todo \in Seq(Making)
  BY Heads DEF At, Queued, Makes
<1>2. 1 < Len(todo) /\ todo[1 + 1] = <<"adopt", Head(todo)[2]>>
  BY <1>1 DEF Followed, Remains, At
<1> DEFINE r == Tail(todo)
<1> HIDE DEF r
<1>3. r \in Seq(Making) /\ Len(r) >= 1 /\ 1 \in 1 .. Len(r) /\ r[1] = <<"adopt", Head(todo)[2]>>
  BY <1>1, <1>2, Heads DEF r, Remains, At
<1>4. r # <<>>
  BY <1>3
<1>5. QED
  BY <1>1, <1>3, <1>4 DEF r

\* Leaving the active workspace puts one statement before the rest.
LEMMA LeaveIsTidy ==
  ASSUME Queued, Followed(todo), At("leave")
  PROVE  LET q == << <<"activate", None>> >>
         IN /\ q \in Seq(Tidying) /\ Followed(q) /\ Tail(todo) \in Seq(Tidying)
            /\ q \o Tail(todo) \in Seq(Tidying) /\ Followed(q \o Tail(todo))
            /\ Appended(q, Tail(todo), q \o Tail(todo))
<1> DEFINE q == << <<"activate", None>> >>
<1>1. Tail(todo) \in Seq(Tidying) /\ Followed(Tail(todo))
  BY Heads, FollowedInRest DEF At, Queued, Takes
<1>2. <<"activate", None>> \in Tidying
  BY DEF Tidying
<1>3. q \in Seq(Tidying) /\ Len(q) = 1 /\ q[1] = <<"activate", None>>
  BY <1>2
<1> HIDE DEF q
<1>4. Followed(q)
  BY <1>3 DEF Followed
<1>5. QED
  BY <1>1, <1>3, <1>4, Together, FollowedTogether DEF q

\* Every step leaves a good queue.
LEMMA QueueStep ==
  ASSUME TypeOK, Queued, Followed(todo), [Next]_vars
  PROVE  GoodQueue(todo')
<1>1. CASE Request
  BY <1>1, Asking
<1>2. CASE Statement
  <2>1. CASE todo' = Tail(todo)
    BY <1>2, <2>1, Advancing, QueueAdvances
  <2>2. CASE At("ensure") /\ todo' = Tail(Tail(todo))
    <3>1. GoodQueue(Tail(todo)) /\ Tail(todo) # <<>>
      BY <1>2, <2>2, Advancing, AdoptIsNext, QueueAdvances
    <3> DEFINE r == Tail(todo)
    <3> HIDE DEF r
    <3>2. GoodQueue(r) /\ r # <<>>
      BY <3>1 DEF r
    <3>3. GoodQueue(Tail(r))
      BY <3>2, Rest, FollowedInRest DEF GoodQueue
    <3>4. QED
      BY <2>2, <3>3 DEF r
  <2>3. CASE At("leave") /\ todo' = << <<"activate", None>> >> \o Tail(todo)
    BY <2>3, LeaveIsTidy DEF GoodQueue
  <2>4. QED
    BY <1>2, <2>1, <2>2, <2>3, Advancing
<1>3. CASE Fail
  <2>1. todo # <<>> /\ (todo' = Tail(todo) \/ todo' = <<>>)
    BY <1>3 DEF Fail
  <2>2. GoodQueue(<<>>)
    BY EmptySeq DEF GoodQueue, Followed
  <2>3. QED
    BY <2>1, <2>2, QueueAdvances
<1>4. CASE Turns
  BY <1>4, TurnsKeepTodo DEF GoodQueue, Queued
<1>5. CASE Restart
  <2>1. PICK order \in SetToSeqs(DOMAIN workspaces) :
          todo' = FlattenSeq([i \in DOMAIN order |->
            << <<"seed", order[i]>>, <<"ensure", order[i]>>, <<"adopt", order[i]>> >>])
    BY <1>5 DEF Restart
  <2>2. todo' \in Boots(DOMAIN workspaces)
    BY <2>1, Booting DEF TypeOK
  <2>3. QED
    BY <2>2 DEF Boots, GoodQueue
<1>6. CASE UNCHANGED vars
  BY <1>6 DEF vars, GoodQueue, Queued
<1>7. CASE PeerMessages
  BY <1>7, MessagesKeep DEF GoodQueue, Queued
<1>8. QED
  BY <1>1, <1>2, <1>3, <1>4, <1>5, <1>6, <1>7 DEF Next

-----------------------------------------------------------------------------
\* Types, by groups of variables.
Tabled ==
  /\ DOMAIN workspaces \subseteq Workspaces
  /\ \A w \in DOMAIN workspaces : workspaces[w] \in AgentIds \cup {None}
  /\ DOMAIN agents \subseteq AgentIds
  /\ \A a \in DOMAIN agents : agents[a] \in [workspace : Workspaces, default : BOOLEAN]
  /\ DOMAIN sessions \subseteq Sessions
  /\ \A s \in DOMAIN sessions :
       sessions[s] \in [workspace : Workspaces \cup {None},
                        agent : AgentIds \cup {None}, prompt : AgentIds \cup {None}]
  /\ rows \subseteq Keyed
  /\ active \in [workspace : Workspaces \cup {None}, session : Sessions \cup {None}]
Remembered ==
  /\ live \subseteq Sessions /\ held \in [Sessions -> AgentIds \cup {None}]
  /\ turn \in [Sessions -> Phases] /\ found \in [Sessions -> Workspaces \cup {None}]
  /\ compacting \subseteq Sessions
  /\ arriving \in [Sessions -> [at : {"none", "select", "upsert", "bind"},
                               found : Workspaces \cup {None}, to : ImWorkspaces \cup {None}]]
  /\ known \subseteq ImWorkspaces
Told ==
  /\ spent \in [request : 0..MaxRequests, turn : 0..MaxTurns, fault : 0..MaxFaults]
  /\ failed \subseteq {"agents", "active", "sessions"}
  /\ deleted \subseteq Sessions /\ missed \subseteq deleted /\ strays \subseteq Sessions

\* The type invariant is the three groups together.
LEMMA Groups == (TypeOK <=> Tabled /\ Remembered /\ Told) /\ (TypeOK' <=> Tabled' /\ Remembered' /\ Told')
BY DEF TypeOK, Tabled, Remembered, Told

\* A statement keeps the types.
LEMMA StatementTypes ==
  ASSUME TypeOK, Queued, Statement
  PROVE  TypeOK'
<1>1. Tabled /\ Remembered /\ Told
  BY Groups
<1>2. todo # <<>> /\ Args(Head(todo))
  BY Advancing, Heads
<1>3. ASSUME RemoveRuntime PROVE TypeOK'
  <2>1. Head(todo)[2] \in Sessions
    BY <1>2, <1>3 DEF RemoveRuntime, At, Args
  <2>2. Tabled'
    BY <1>1, <1>3 DEF RemoveRuntime, tables, Tabled
  <2>3. Remembered'
    BY <1>1, <1>3, <2>1 DEF RemoveRuntime, RemoveEntry, Remembered, Arg, Phases
  <2>4. Told'
    BY <1>1, <1>3, <2>1 DEF RemoveRuntime, RemoveEntry, Told, Arg
  <2>5. QED
    BY <2>2, <2>3, <2>4, Groups
<1>4. ASSUME Statement, ~RemoveRuntime PROVE Remembered' /\ Told'
  <2>1. UNCHANGED memory /\ UNCHANGED history
    BY <1>4 DEF Statement, AddWorkspace, SeedPresets, EnsureDefault, AdoptDefault, MarkAgent,
         SetColumn, DropWorkspace, OpenWorkspace, AnchorSession, LeaveWorkspace, ActivateSession,
         Reanchor, InsertSession, BindWorkspace, DropSession, TouchRows, Done
  <2>2. QED
    BY <1>1, <2>1 DEF memory, history, Remembered, Told
<1>5. ASSUME AddWorkspace \/ AdoptDefault \/ SetColumn \/ DropWorkspace PROVE Tabled'
  <2>1. UNCHANGED <<agents, sessions, rows, active>>
    BY <1>5 DEF AddWorkspace, AdoptDefault, SetColumn, DropWorkspace
  <2>2. \A a \in DOMAIN agents : a \in AgentIds
    BY <1>1 DEF Tabled
  <2>3. \/ \E w \in Workspaces, a \in AgentIds \cup {None} : workspaces' = With(workspaces, w, a)
        \/ \E w \in Workspaces : workspaces' = Without(workspaces, w)
    BY <1>2, <1>5, <2>2 DEF AddWorkspace, AdoptDefault, SetColumn, DropWorkspace, At, Arg, Args, Marked
  <2>4. DOMAIN workspaces' \subseteq Workspaces
        /\ \A w \in DOMAIN workspaces' : workspaces'[w] \in AgentIds \cup {None}
    <3>1. ASSUME NEW w \in Workspaces, NEW a \in AgentIds \cup {None},
                 workspaces' = With(workspaces, w, a)
          PROVE  <2>4
      <4>1. /\ DOMAIN workspaces' = (DOMAIN workspaces) \cup {w} /\ workspaces'[w] = a
            /\ \A x \in DOMAIN workspaces : x # w => workspaces'[x] = workspaces[x]
        BY <3>1 DEF With
      <4>2. QED
        BY <1>1, <4>1 DEF Tabled
    <3>2. ASSUME NEW w \in Workspaces, workspaces' = Without(workspaces, w)
          PROVE  <2>4
      <4>1. /\ DOMAIN workspaces' = (DOMAIN workspaces) \ {w}
            /\ \A x \in (DOMAIN workspaces) \ {w} : workspaces'[x] = workspaces[x]
        BY <3>2 DEF Without
      <4>2. QED
        BY <1>1, <4>1 DEF Tabled
    <3>3. QED
      BY <2>3, <3>1, <3>2
  <2>5. QED
    BY <1>1, <2>1, <2>4 DEF Tabled
<1>6. ASSUME SeedPresets \/ EnsureDefault \/ MarkAgent PROVE Tabled'
  <2>1. UNCHANGED <<workspaces, sessions, rows, active>>
    BY <1>6 DEF SeedPresets, EnsureDefault, MarkAgent
  <2>2. \A w \in Workspaces : MainOf(w) \in AgentIds /\ ExpertOf(w) \in AgentIds
    BY DEF AgentIds, Presets
  <2>3. \/ \E a \in AgentIds, w \in Workspaces, d \in BOOLEAN :
             agents' = With(agents, a, [workspace |-> w, default |-> d])
        \/ \E a \in AgentIds, d \in BOOLEAN : agents' = [agents EXCEPT ![a].default = d]
        \/ \E a \in AgentIds : agents' = Without(agents, a)
        \/ agents' = agents
    BY <1>2, <1>6, <2>2 DEF SeedPresets, EnsureDefault, MarkAgent, At, Arg, Args, AgentIds
  <2>4. DOMAIN agents' \subseteq AgentIds
        /\ \A a \in DOMAIN agents' : agents'[a] \in [workspace : Workspaces, default : BOOLEAN]
    <3>1. ASSUME NEW a \in AgentIds, NEW w \in Workspaces, NEW d \in BOOLEAN,
                 agents' = With(agents, a, [workspace |-> w, default |-> d])
          PROVE  <2>4
      <4>1. /\ DOMAIN agents' = (DOMAIN agents) \cup {a}
            /\ agents'[a] = [workspace |-> w, default |-> d]
            /\ \A x \in DOMAIN agents : x # a => agents'[x] = agents[x]
        BY <3>1 DEF With
      <4>2. QED
        BY <1>1, <4>1 DEF Tabled
    <3>2. CASE \E a \in AgentIds, d \in BOOLEAN : agents' = [agents EXCEPT ![a].default = d]
      BY <1>1, <3>2 DEF Tabled
    <3>3. ASSUME NEW a \in AgentIds, agents' = Without(agents, a)
          PROVE  <2>4
      <4>1. /\ DOMAIN agents' = (DOMAIN agents) \ {a}
            /\ \A x \in (DOMAIN agents) \ {a} : agents'[x] = agents[x]
        BY <3>3 DEF Without
      <4>2. QED
        BY <1>1, <4>1 DEF Tabled
    <3>4. CASE agents' = agents
      BY <1>1, <3>4 DEF Tabled
    <3>5. QED
      BY <2>3, <3>1, <3>2, <3>3, <3>4
  <2>5. QED
    BY <1>1, <2>1, <2>4 DEF Tabled
<1>7. ASSUME OpenWorkspace \/ AnchorSession \/ LeaveWorkspace \/ ActivateSession \/ Reanchor
      PROVE  Tabled'
  <2>1. UNCHANGED <<workspaces, agents, sessions, rows>>
    BY <1>7 DEF OpenWorkspace, AnchorSession, LeaveWorkspace, ActivateSession, Reanchor
  <2>2. \/ \E w \in Workspaces \cup {None} : active' = [active EXCEPT !.workspace = w]
        \/ \E s \in Sessions \cup {None} : active' = [active EXCEPT !.session = s]
        \/ active' = active
    BY <1>1, <1>2, <1>7 DEF OpenWorkspace, AnchorSession, LeaveWorkspace, ActivateSession, Reanchor,
         At, Arg, Args, Tabled, HeadOf, SessionsOf
  <2>3. QED
    BY <1>1, <2>1, <2>2 DEF Tabled
<1>8. ASSUME InsertSession \/ BindWorkspace \/ DropSession PROVE Tabled'
  <2>1. UNCHANGED <<workspaces, agents, rows, active>>
    BY <1>8 DEF InsertSession, BindWorkspace, DropSession
  <2>2. \/ \E s \in Sessions, a \in AgentIds \cup {None} :
             sessions' = With(sessions, s, [workspace |-> None, agent |-> a, prompt |-> a])
        \/ \E s \in Sessions, w \in Workspaces : sessions' = [sessions EXCEPT ![s].workspace = w]
        \/ \E s \in Sessions : sessions' = Without(sessions, s)
        \/ sessions' = sessions
    BY <1>2, <1>8 DEF InsertSession, BindWorkspace, DropSession, At, Arg, Args
  <2>3. DOMAIN sessions' \subseteq Sessions
        /\ \A s \in DOMAIN sessions' :
             sessions'[s] \in [workspace : Workspaces \cup {None},
                               agent : AgentIds \cup {None}, prompt : AgentIds \cup {None}]
    <3>1. ASSUME NEW s \in Sessions, NEW a \in AgentIds \cup {None},
                 sessions' = With(sessions, s, [workspace |-> None, agent |-> a, prompt |-> a])
          PROVE  <2>3
      <4>1. /\ DOMAIN sessions' = (DOMAIN sessions) \cup {s}
            /\ sessions'[s] = [workspace |-> None, agent |-> a, prompt |-> a]
            /\ \A x \in DOMAIN sessions : x # s => sessions'[x] = sessions[x]
        BY <3>1 DEF With
      <4>2. QED
        BY <1>1, <4>1 DEF Tabled
    <3>2. CASE \E s \in Sessions, w \in Workspaces : sessions' = [sessions EXCEPT ![s].workspace = w]
      BY <1>1, <3>2 DEF Tabled
    <3>3. ASSUME NEW s \in Sessions, sessions' = Without(sessions, s)
          PROVE  <2>3
      <4>1. /\ DOMAIN sessions' = (DOMAIN sessions) \ {s}
            /\ \A x \in (DOMAIN sessions) \ {s} : sessions'[x] = sessions[x]
        BY <3>3 DEF Without
      <4>2. QED
        BY <1>1, <4>1 DEF Tabled
    <3>4. CASE sessions' = sessions
      BY <1>1, <3>4 DEF Tabled
    <3>5. QED
      BY <2>2, <3>1, <3>2, <3>3, <3>4
  <2>4. QED
    BY <1>1, <2>1, <2>3 DEF Tabled
<1>9. ASSUME TouchRows PROVE Tabled'
  BY <1>1, <1>9 DEF TouchRows, Tabled
<1>10. QED
  BY <1>3, <1>4, <1>5, <1>6, <1>7, <1>8, <1>9, Groups DEF Statement

\* A request keeps the types, and makes no statement yet.
LEMMA RequestTypes ==
  ASSUME TypeOK, Request
  PROVE  /\ TypeOK' /\ UNCHANGED <<tables, turn, found, compacting, arriving, known>>
         /\ deleted' \ missed' \subseteq deleted \ missed
         /\ (DOMAIN sessions) \cup strays \subseteq (DOMAIN sessions) \cup strays'
<1>1. Tabled /\ Remembered /\ Told
  BY Groups
<1>2. /\ UNCHANGED <<tables, turn, found, compacting, arriving, known>>
      /\ \/ UNCHANGED <<deleted, missed>>
         \/ \E s \in Sessions : deleted' = deleted \ {s} /\ missed' = missed \ {s}
      /\ \/ strays' = strays
         \/ \E s \in Sessions : strays' = strays \cup {s}
         \/ \E s \in DOMAIN sessions : strays' = strays \ {s}
      /\ live' = live \/ \E s \in Sessions : live' = live \cup {s}
      /\ held' = held \/ \E s \in Sessions : held' = [held EXCEPT ![s] = None]
      /\ failed' = failed \/ failed' = failed \cup {"agents"}
      /\ Spend("request", MaxRequests) \/ Spend("fault", MaxFaults)
  <2>1. ASSUME NEW q, Serve(q) PROVE <1>2
    BY <2>1 DEF Serve, memory
  <2>2. ASSUME NEW s \in Sessions, NEW w, NEW a, CreateSession(s, w, a) PROVE <1>2
    BY <2>2 DEF CreateSession
  <2>3. ASSUME NEW w, NEW a, UpdateDefaultBlind(w, a) PROVE <1>2
    BY <2>3 DEF UpdateDefaultBlind, memory
  <2>4. ASSUME NEW s \in Sessions, SetActiveSession(s) PROVE <1>2
    BY <2>4 DEF SetActiveSession, memory
  <2>5. ASSUME NEW s \in Sessions, NEW t, Put(s, t) PROVE <1>2
    BY <2>5 DEF Put, memory
  <2>6. \/ \E q : Serve(q)
        \/ \E s \in Sessions, w \in Workspaces, a \in AgentIds \cup {None} : CreateSession(s, w, a)
        \/ \E w \in Workspaces, a \in AgentIds : UpdateDefaultBlind(w, a)
        \/ \E s \in Sessions : SetActiveSession(s) \/ \E t : Put(s, t)
    BY DEF Request, CreateWorkspace, SetActiveWorkspace, DeleteWorkspace, BindSessionWorkspace,
           CreateAgent, UpdateDefaultAgent, DeleteSession, ImportFiles, SaveMessage, DeleteAgent
  <2>7. QED
    BY <2>1, <2>2, <2>3, <2>4, <2>5, <2>6
<1>3. Tabled'
  BY <1>1, <1>2 DEF tables, Tabled
<1>4. Remembered'
  BY <1>1, <1>2 DEF Remembered
<1>5. spent' \in [request : 0..MaxRequests, turn : 0..MaxTurns, fault : 0..MaxFaults]
  BY <1>1, <1>2, CatalogAssumption DEF CatalogAssumption, Spend, Told
<1>6. Told'
  <2>1. strays' \subseteq Sessions
    BY <1>1, <1>2 DEF Told
  <2>2. deleted' \subseteq Sessions /\ missed' \subseteq deleted'
    BY <1>1, <1>2 DEF Told
  <2>3. QED
    BY <1>1, <1>2, <1>5, <2>1, <2>2 DEF Told
<1>7. deleted' \ missed' \subseteq deleted \ missed
  BY <1>2
<1>8. (DOMAIN sessions) \cup strays \subseteq (DOMAIN sessions) \cup strays'
  BY <1>2
<1>9. QED
  BY <1>2, <1>3, <1>4, <1>6, <1>7, <1>8, Groups

\* What is lost is not on record as deleted.
LEMMA Loses ==
  ASSUME Told, NEW lost, Lose(lost)
  PROVE  /\ Told' /\ failed \subseteq failed' /\ deleted' \subseteq deleted
         /\ deleted' \ missed' \subseteq deleted \ missed
<1>1. spent' \in [request : 0..MaxRequests, turn : 0..MaxTurns, fault : 0..MaxFaults]
  BY CatalogAssumption DEF CatalogAssumption, Lose, Spend, Told
<1>2. \A i \in DOMAIN lost : About(lost[i]) \in {"agents", "active", "sessions"}
  BY DEF About
<1>3. QED
  BY <1>1, <1>2 DEF Lose, Told

\* A statement that fails keeps the types.
LEMMA FailTypes ==
  ASSUME TypeOK, Fail
  PROVE  TypeOK'
<1>1. Tabled /\ Remembered /\ Told
  BY Groups
<1>2. UNCHANGED <<tables, memory>> /\ \E lost : Lose(lost)
  BY DEF Fail
<1>3. Tabled' /\ Remembered' /\ Told'
  BY <1>1, <1>2, Loses DEF tables, memory, Tabled, Remembered
<1>4. QED
  BY <1>3, Groups

\* A restart keeps the types.
LEMMA RestartTypes ==
  ASSUME TypeOK, Restart
  PROVE  TypeOK'
<1>1. Tabled /\ Remembered /\ Told
  BY Groups
<1>2. Tabled' /\ Told'
  BY <1>1, Loses DEF Restart, tables, Tabled
<1>3. Remembered'
  BY DEF Restart, Remembered, Phases, NoMessage
<1>4. QED
  BY <1>2, <1>3, Groups

\* A turn or a compaction keeps the types.
LEMMA TurnTypes ==
  ASSUME TypeOK, Turns
  PROVE  TypeOK'
<1>1. Tabled /\ Remembered /\ Told
  BY Groups
<1>2. ASSUME NEW s \in Sessions, Enter(s), UNCHANGED failed
      PROVE  /\ Told' /\ live' \subseteq Sessions /\ held' \in [Sessions -> AgentIds \cup {None}]
             /\ UNCHANGED <<arriving, known>>
  <2>1. spent' \in [request : 0..MaxRequests, turn : 0..MaxTurns, fault : 0..MaxFaults]
    BY <1>1, <1>2, CatalogAssumption DEF CatalogAssumption, Enter, Spend, Told
  <2>2. s \in DOMAIN sessions => sessions[s].prompt \in AgentIds \cup {None}
    BY <1>1 DEF Tabled
  <2>3. QED
    BY <1>1, <1>2, <2>1, <2>2 DEF Enter, Told, Remembered
<1>3. ASSUME NEW s \in Sessions, Prompt(s) \/ Compact(s)
      PROVE  TypeOK'
  <2>1. /\ Told' /\ live' \subseteq Sessions /\ held' \in [Sessions -> AgentIds \cup {None}]
        /\ UNCHANGED <<arriving, known>>
    BY <1>2, <1>3 DEF Prompt, Compact
  <2>2. Tabled' /\ Remembered'
    BY <1>1, <1>3, <2>1 DEF Prompt, Compact, tables, Tabled, Remembered, Phases
  <2>3. QED
    BY <2>1, <2>2, Groups
<1>4. ASSUME NEW s \in Sessions, Register(s) \/ SaveSelect(s) \/ EndTurn(s)
      PROVE  TypeOK'
  <2>1. Tabled' /\ Told'
    BY <1>1, <1>4 DEF Register, SaveSelect, EndTurn, tables, history, Tabled, Told
  <2>2. s \in DOMAIN sessions => sessions[s].workspace \in Workspaces \cup {None}
    BY <1>1 DEF Tabled
  <2>3. Remembered'
    BY <1>1, <1>4, <2>2 DEF Register, SaveSelect, EndTurn, history, Remembered, Phases
  <2>4. QED
    BY <2>1, <2>3, Groups
<1>5. ASSUME NEW s \in Sessions, NEW phase, NEW next \in Phases, NEW written, Write(s, phase, next, written)
      PROVE  TypeOK'
  <2>1. rows' \subseteq Keyed
    BY <1>1, <1>5 DEF Write, Keyed, Tabled
  <2>2. Tabled' /\ Remembered' /\ Told'
    BY <1>1, <1>5, <2>1 DEF Write, history, Tabled, Remembered, Told
  <2>3. QED
    BY <2>2, Groups
<1>6. ASSUME NEW s \in Sessions, SaveUpsert(s)
      PROVE  TypeOK'
  <2>1. Remembered' /\ Told'
    BY <1>1, <1>6 DEF SaveUpsert, history, Remembered, Told, Phases
  <2>2. found[s] \in Workspaces \cup {None} /\ held[s] \in AgentIds \cup {None}
    BY <1>1 DEF Remembered
  <2> DEFINE v == [workspace |-> found[s], agent |-> None, prompt |-> held[s]]
  <2>3. v \in [workspace : Workspaces \cup {None}, agent : AgentIds \cup {None},
               prompt : AgentIds \cup {None}]
    BY <2>2
  <2>4. sessions' = sessions \/ sessions' = With(sessions, s, v)
    BY <1>6 DEF SaveUpsert, Upsert
  <2> HIDE DEF v
  <2>5. DOMAIN sessions' \subseteq Sessions
        /\ \A x \in DOMAIN sessions' :
             sessions'[x] \in [workspace : Workspaces \cup {None},
                               agent : AgentIds \cup {None}, prompt : AgentIds \cup {None}]
    BY <1>1, <2>3, <2>4 DEF With, Tabled
  <2>6. Tabled'
    BY <1>1, <1>6, <2>5 DEF SaveUpsert, Tabled
  <2>7. QED
    BY <2>1, <2>6, Groups
<1>7. ASSUME NEW s \in Sessions, PersistCompaction(s)
      PROVE  TypeOK'
  <2>1. Tabled' /\ Remembered' /\ Told'
    BY <1>1, <1>7 DEF PersistCompaction, history, Tabled, Remembered, Told
  <2>2. QED
    BY <2>1, Groups
<1>8. "none" \in Phases /\ "select" \in Phases /\ "answer" \in Phases
  BY DEF Phases
<1>9. QED
  BY <1>3, <1>4, <1>5, <1>6, <1>7, <1>8 DEF Turns, PersistUser, PersistAssistant, PersistUsage

\* A message of a peer keeps the types.
LEMMA MessageTypes ==
  ASSUME TypeOK, PeerMessages
  PROVE  TypeOK'
<1>1. Tabled /\ Remembered /\ Told
  BY Groups
<1>2. PICK s \in ImSessions :
        \/ \E w \in ImWorkspaces : MessageArrives(s, w)
        \/ MessageSelect(s) \/ MessageUpsert(s) \/ MessageBind(s)
  BY DEF PeerMessages
<1>3. s \in Sessions /\ ImWorkspaces \subseteq Workspaces
  BY CatalogAssumption DEF CatalogAssumption
<1>4. UNCHANGED <<agents, rows, active, live, held, turn, found, compacting, failed, strays>>
  BY MessagesKeep
<1>5. Told'
  <2>1. CASE \E w \in ImWorkspaces : MessageArrives(s, w)
    <3>1. spent' \in [request : 0..MaxRequests, turn : 0..MaxTurns, fault : 0..MaxFaults]
      BY <1>1, <2>1, CatalogAssumption DEF CatalogAssumption, MessageArrives, Spend, Told
    <3>2. QED
      BY <1>1, <2>1, <3>1 DEF MessageArrives, Told
  <2>2. CASE MessageSelect(s) \/ MessageUpsert(s) \/ MessageBind(s)
    BY <1>1, <2>2 DEF MessageSelect, MessageUpsert, MessageBind, history, Told
  <2>3. QED
    BY <1>2, <2>1, <2>2
<1>6. DOMAIN workspaces' \subseteq Workspaces
      /\ \A w \in DOMAIN workspaces' : workspaces'[w] \in AgentIds \cup {None}
  <2>1. CASE workspaces' = workspaces
    BY <1>1, <2>1 DEF Tabled
  <2>2. ASSUME NEW w \in ImWorkspaces, workspaces' = With(workspaces, w, None)
        PROVE  <1>6
    <3>1. /\ DOMAIN workspaces' = (DOMAIN workspaces) \cup {w} /\ workspaces'[w] = None
          /\ \A x \in DOMAIN workspaces : x # w => workspaces'[x] = workspaces[x]
      BY <2>2 DEF With
    <3>2. QED
      BY <1>1, <1>3, <3>1 DEF Tabled
  <2>3. QED
    BY <2>1, <2>2, MessagesKeep
<1> DEFINE Arriving == [at : {"none", "select", "upsert", "bind"},
                        found : Workspaces \cup {None}, to : ImWorkspaces \cup {None}]
           Row == [workspace : Workspaces \cup {None}, agent : AgentIds \cup {None},
                   prompt : AgentIds \cup {None}]
<1>7. arriving[s] \in Arriving /\ \A x \in DOMAIN sessions : sessions[x] \in Row
  BY <1>1, <1>3 DEF Remembered, Tabled
<1>8. Remembered'
  <2>1. known' \subseteq ImWorkspaces
    BY <1>1, <1>2 DEF MessageArrives, MessageSelect, MessageUpsert, MessageBind, Remembered
  <2>2. arriving \in [Sessions -> Arriving] /\ NoMessage \in Arriving
    BY <1>1 DEF Remembered, NoMessage
  <2>3. arriving' \in [Sessions -> Arriving]
    <3>1. ASSUME NEW w \in ImWorkspaces, MessageArrives(s, w) PROVE <2>3
      BY <2>2, <3>1 DEF MessageArrives
    <3>2. CASE MessageSelect(s)
      <4> DEFINE at == IF s \in DOMAIN sessions THEN sessions[s].workspace ELSE None
      <4>1. at \in Workspaces \cup {None}
        BY <1>7
      <4>2. arriving' = [arriving EXCEPT ![s].at = "upsert", ![s].found = at]
        BY <3>2 DEF MessageSelect
      <4> HIDE DEF at
      <4>3. QED
        BY <1>3, <2>2, <4>1, <4>2
    <3>3. CASE MessageUpsert(s) \/ MessageBind(s)
      <4>1. \/ arriving' = [arriving EXCEPT ![s].at = "bind"]
            \/ arriving' = [arriving EXCEPT ![s] = NoMessage]
        BY <3>3 DEF MessageUpsert, MessageBind
      <4>2. QED
        BY <1>3, <2>2, <4>1
    <3>4. QED
      BY <1>2, <3>1, <3>2, <3>3
  <2>4. QED
    BY <1>1, <1>4, <2>1, <2>3 DEF Remembered
<1>9. DOMAIN sessions' \subseteq Sessions /\ \A x \in DOMAIN sessions' : sessions'[x] \in Row
  <2>1. \/ sessions' = sessions
        \/ \E v \in Row : sessions' = With(sessions, s, v)
        \/ \E x \in DOMAIN sessions : sessions' = [sessions EXCEPT ![x].workspace = arriving[x].to]
    BY <1>2, <1>7 DEF MessageArrives, MessageSelect, MessageUpsert, MessageBind, tables
  <2>2. DOMAIN sessions \subseteq Sessions
        /\ \A x \in DOMAIN sessions : arriving[x].to \in Workspaces \cup {None}
    BY <1>1, <1>3 DEF Tabled, Remembered
  <2>3. ASSUME NEW v \in Row, sessions' = With(sessions, s, v) PROVE <1>9
    <3>1. /\ DOMAIN sessions' = (DOMAIN sessions) \cup {s} /\ sessions'[s] = v
          /\ \A x \in DOMAIN sessions : x # s => sessions'[x] = sessions[x]
      BY <2>3 DEF With
    <3> HIDE DEF Row
    <3>2. QED
      BY <1>3, <1>7, <2>2, <2>3, <3>1
  <2>4. ASSUME NEW x \in DOMAIN sessions, sessions' = [sessions EXCEPT ![x].workspace = arriving[x].to]
        PROVE  <1>9
    BY <1>7, <2>2, <2>4
  <2>5. QED
    BY <1>7, <2>1, <2>2, <2>3, <2>4
<1>10. Tabled'
  BY <1>1, <1>4, <1>6, <1>9 DEF Tabled
<1>11. QED
  BY <1>5, <1>8, <1>10, Groups

\* Every step keeps the types.
LEMMA CatalogTypes ==
  ASSUME TypeOK, Queued, [Next]_vars
  PROVE  TypeOK'
<1>1. CASE UNCHANGED vars
  <2>1. Tabled' /\ Remembered' /\ Told'
    BY <1>1, Groups DEF vars, tables, memory, history, Tabled, Remembered, Told
  <2>2. QED
    BY <2>1, Groups
<1>2. QED
  BY <1>1, RequestTypes, StatementTypes, FailTypes, TurnTypes, MessageTypes, RestartTypes DEF Next

-----------------------------------------------------------------------------
\* What is to be opened or activated is there.
LEMMA PromisedInRest ==
  ASSUME NEW X, NEW q \in Seq(X), q # <<>>, NEW V, NEW W, NEW R, NEW S,
         PromisedIn(q, V, R), V \subseteq W, R \subseteq S, q[1][1] = "insert" => q[1][2] \in S
  PROVE  PromisedIn(Tail(q), W, S)
<1> DEFINE r == Tail(q)
<1>1. /\ \A i \in 1 .. Len(r) : i + 1 \in 1 .. Len(q) /\ r[i] = q[i + 1]
      /\ \A i \in 1 .. Len(q) : i # 1 => i - 1 \in 1 .. Len(r) /\ r[i - 1] = q[i]
  BY Rest
<1> HIDE DEF r
<1>2. ASSUME NEW i \in 1 .. Len(r), r[i][1] = "activate", r[i][2] \notin S \cup {None}
      PROVE  Inserted(r, i)
  <2>1. Inserted(q, i + 1)
    BY <1>1, <1>2 DEF PromisedIn
  <2>2. PICK k \in 1 .. Len(q) : k < i + 1 /\ q[k][1] = "insert" /\ q[k][2] = q[i + 1][2]
    BY <2>1 DEF Inserted
  <2>3. k # 1
    BY <1>1, <1>2, <2>2
  <2>4. k - 1 \in 1 .. Len(r) /\ r[k - 1] = q[k] /\ k - 1 < i
    BY <1>1, <2>2, <2>3
  <2>5. QED
    BY <1>1, <2>2, <2>4 DEF Inserted
<1>3. ASSUME NEW i \in 1 .. Len(r), r[i][1] = "open" PROVE r[i][2] \in W
  <2>1. i + 1 \in 1 .. Len(q) /\ r[i] = q[i + 1]
    BY <1>1
  <2>2. q[i + 1][2] \in V
    BY <1>3, <2>1 DEF PromisedIn
  <2>3. QED
    BY <2>1, <2>2
<1>4. PromisedIn(r, W, S)
  BY <1>2, <1>3 DEF PromisedIn
<1>5. QED
  BY <1>4 DEF r

\* There is nothing to promise in a queue without such statements.
LEMMA NothingPromised ==
  ASSUME \A i \in 1 .. Len(todo') :
           todo'[i][1] \notin {"open", "activate"} \/ (todo'[i][1] = "activate" /\ todo'[i][2] = None)
  PROVE  Promised'
BY DEF Promised, PromisedIn

\* Nothing is promised by a delete.
LEMMA TidyPromises ==
  ASSUME todo' \in Seq(Tidying)
  PROVE  Promised'
<1> DEFINE r == todo'
<1>1. \A i \in 1 .. Len(r) : r[i] \in Tidying
  BY ElementOfSeq
<1>2. \A i \in 1 .. Len(r) : r[i][1] # "open" /\ (r[i][1] = "activate" => r[i][2] = None)
  BY <1>1, Tidies DEF Makes
<1>3. QED
  BY <1>2, NothingPromised

\* A request opens and activates what is there, or what it inserts first.
LEMMA RequestPromises ==
  ASSUME TypeOK, Request
  PROVE  Promised'
<1>1. UNCHANGED <<workspaces, sessions>>
  BY RequestTypes DEF tables
<1>2. ASSUME NEW w \in Workspaces, CreateWorkspace(w) PROVE Promised'
  BY <1>2, NothingPromised DEF CreateWorkspace, Serve
<1>3. ASSUME NEW w \in Workspaces, SetActiveWorkspace(w) PROVE Promised'
  <2>1. /\ todo' = << <<"open", w>>, <<"anchor", w>> >> /\ Len(todo') = 2
        /\ todo'[1] = <<"open", w>> /\ todo'[2] = <<"anchor", w>>
    BY <1>3 DEF SetActiveWorkspace, Serve
  <2>2. \A i \in 1 .. Len(todo') : i = 1 \/ i = 2
    BY <2>1
  <2>3. w \in DOMAIN workspaces'
    BY <1>1, <1>3 DEF SetActiveWorkspace
  <2>4. \A i \in 1 .. Len(todo') :
          todo'[i][1] # "activate" /\ (todo'[i][1] = "open" => todo'[i][2] \in DOMAIN workspaces')
    BY <2>1, <2>2, <2>3
  <2>5. QED
    BY <2>4 DEF Promised, PromisedIn
<1>4. ASSUME NEW w \in Workspaces, DeleteWorkspace(w) PROVE Promised'
  BY <1>4, ClosingQueue, TidyPromises
<1>5. ASSUME NEW s \in Sessions, NEW w \in Workspaces, BindSessionWorkspace(s, w) PROVE Promised'
  BY <1>5, NothingPromised DEF BindSessionWorkspace, Serve
<1>6. ASSUME NEW s \in Sessions, NEW w \in Workspaces, NEW asked \in AgentIds \cup {None},
             CreateSession(s, w, asked)
      PROVE  Promised'
  <2>1. PICK a : todo' = << <<"insert", s, a>>, <<"bind", s, w>>, <<"activate", s>> >>
    BY <1>6 DEF CreateSession
  <2> DEFINE q == << <<"insert", s, a>>, <<"bind", s, w>>, <<"activate", s>> >>
  <2>2. /\ Len(q) = 3 /\ q[1] = <<"insert", s, a>> /\ q[2] = <<"bind", s, w>>
        /\ q[3] = <<"activate", s>>
    OBVIOUS
  <2> HIDE DEF q
  <2>3. todo' = q /\ \A i \in 1 .. Len(q) : i = 1 \/ i = 2 \/ i = 3
    BY <2>1, <2>2 DEF q
  <2>4. \A i \in 1 .. Len(q) :
          /\ q[i][1] # "open"
          /\ q[i][1] = "activate" =>
               \E j \in 1 .. Len(q) : j < i /\ q[j][1] = "insert" /\ q[j][2] = q[i][2]
    <3>1. 1 \in 1 .. Len(q) /\ 1 < 3
      BY <2>2
    <3>2. QED
      BY <2>2, <2>3, <3>1
  <2>5. QED
    BY <2>3, <2>4 DEF Promised, PromisedIn, Inserted
<1>7. ASSUME NEW a \in UserAgents, NEW w \in Workspaces, CreateAgent(a, w) PROVE Promised'
  BY <1>7, NothingPromised DEF CreateAgent, Serve
<1>8. ASSUME NEW a \in AgentIds, NEW w \in Workspaces,
             UpdateDefaultAgent(w, a) \/ UpdateDefaultBlind(w, a)
      PROVE  Promised'
  <2>1. \/ todo' = << <<"mark", a>>, <<"default", w, a>> >>
        \/ \E p \in AgentIds : todo' = << <<"unmark", p>>, <<"mark", a>>, <<"default", w, a>> >>
    BY <1>8, Redefaults
  <2>2. QED
    BY <2>1, NothingPromised
<1>9. ASSUME NEW s \in Sessions, SetActiveSession(s)
      PROVE  Promised'
  <2>1. todo' = << <<"activate", s>> >> /\ s \in (DOMAIN sessions') \cup strays'
    BY <1>1, <1>9 DEF SetActiveSession
  <2>2. \A i \in 1 .. Len(todo') : todo'[i] = <<"activate", s>>
    BY <2>1
  <2>3. QED
    BY <2>1, <2>2 DEF Promised, PromisedIn
<1>10. ASSUME NEW s \in Sessions, ImportFiles(s) \/ SaveMessage(s)
      PROVE  Promised'
  BY <1>10, NothingPromised DEF ImportFiles, SaveMessage, Put
<1>11. ASSUME NEW s \in Sessions, DeleteSession(s) PROVE Promised'
  <2>1. todo' \in Seq(Tidying)
    BY <1>11, Deleting DEF DeleteSession, Serve, Deletes
  <2>2. QED
    BY <2>1, TidyPromises
<1>12. ASSUME NEW a \in UserAgents, DeleteAgent(a) PROVE Promised'
  BY <1>12, NothingPromised DEF DeleteAgent, Serve
<1>13. QED
  BY <1>2, <1>3, <1>4, <1>5, <1>6, <1>7, <1>8, <1>9, <1>10, <1>11, <1>12 DEF Request

\* Statements leave alone which sessions were made active without a row, and the messages
\* of peers.
LEMMA StatementKeepsStrays ==
  ASSUME Statement
  PROVE  UNCHANGED <<strays, arriving>>
BY DEF Statement, AddWorkspace, SeedPresets, EnsureDefault, AdoptDefault, MarkAgent,
       SetColumn, DropWorkspace, OpenWorkspace, AnchorSession, LeaveWorkspace, ActivateSession,
       Reanchor, InsertSession, BindWorkspace, DropSession, TouchRows, RemoveRuntime,
       RemoveEntry, Done, history, memory

\* A statement keeps the promises of those after it.
LEMMA StatementPromises ==
  ASSUME TypeOK, Queued, Followed(todo), Promised, Statement
  PROVE  Promised'
<1>1. todo # <<>> /\ Head(todo) = todo[1]
  BY Advancing, Heads DEF Remains
<1>2. CASE todo \in Seq(Tidying)
  <2>1. ~ At("ensure")
    BY <1>1, <1>2, Heads DEF At, Makes
  <2>2. todo' \in Seq(Tidying)
    BY <1>1, <1>2, <2>1, Advancing, Heads, LeaveIsTidy
  <2>3. QED
    BY <2>2, TidyPromises
<1>3. CASE todo \in Seq(Making)
  <2>1. Head(todo)[1] \notin Takes /\ Tail(todo) \in Seq(Making)
    BY <1>1, <1>3, Heads
  <2>2. \/ todo' = Tail(todo)
        \/ At("ensure") /\ todo' = Tail(Tail(todo))
    BY <2>1, Advancing DEF At, Takes
  <2>3. DOMAIN workspaces \subseteq DOMAIN workspaces'
    <3>1. ~ At("close")
      BY <2>1 DEF At, Takes
    <3>2. workspaces' = workspaces \/ \E w, a : workspaces' = With(workspaces, w, a)
      BY <3>1 DEF Statement, AddWorkspace, SeedPresets, EnsureDefault, AdoptDefault, MarkAgent,
           SetColumn, DropWorkspace, OpenWorkspace, AnchorSession, LeaveWorkspace, ActivateSession,
           Reanchor, InsertSession, BindWorkspace, DropSession, TouchRows, RemoveRuntime, tables
    <3>3. QED
      BY <3>2 DEF With
  <2>4. /\ DOMAIN sessions \subseteq DOMAIN sessions'
        /\ Head(todo)[1] = "insert" => Head(todo)[2] \in DOMAIN sessions'
    <3>1. ~ At("drop")
      BY <2>1 DEF At, Takes
    <3>2. \/ sessions' = sessions /\ ~ At("insert")
          \/ \E v : sessions' = With(sessions, Head(todo)[2], v)
          \/ DOMAIN sessions' = DOMAIN sessions /\ ~ At("insert")
      BY <3>1 DEF Statement, AddWorkspace, SeedPresets, EnsureDefault, AdoptDefault, MarkAgent,
           SetColumn, DropWorkspace, OpenWorkspace, AnchorSession, LeaveWorkspace, ActivateSession,
           Reanchor, InsertSession, BindWorkspace, DropSession, TouchRows, RemoveRuntime, tables, At, Arg
    <3>3. QED
      BY <1>1, <3>2 DEF With, At
  <2> DEFINE S == (DOMAIN sessions') \cup strays'
  <2>5. PromisedIn(Tail(todo), DOMAIN workspaces', S)
    <3>1. strays' = strays
      BY StatementKeepsStrays
    <3>2. /\ (DOMAIN sessions) \cup strays \subseteq S
          /\ todo[1][1] = "insert" => todo[1][2] \in S
      BY <1>1, <2>4, <3>1
    <3> HIDE DEF S
    <3>3. QED
      BY <1>1, <1>3, <2>3, <3>2, PromisedInRest DEF Promised
  <2>6. CASE todo' = Tail(todo)
    BY <2>5, <2>6 DEF Promised
  <2>7. CASE At("ensure") /\ todo' = Tail(Tail(todo))
    <3> DEFINE r == Tail(todo)
    <3>1. r \in Seq(Making) /\ r # <<>> /\ r[1][1] = "adopt"
      BY <2>1, <2>7, AdoptIsNext
    <3>2. PromisedIn(r, DOMAIN workspaces', S) /\ todo' = Tail(r)
      BY <2>5, <2>7
    <3> HIDE DEF r, S
    <3>3. PromisedIn(Tail(r), DOMAIN workspaces', S)
      BY <3>1, <3>2, PromisedInRest
    <3>4. QED
      BY <3>2, <3>3 DEF Promised, S
  <2>8. QED
    BY <2>2, <2>6, <2>7
<1>4. QED
  BY <1>2, <1>3 DEF Queued

\* Every step keeps the promises.
LEMMA PromiseStep ==
  ASSUME TypeOK, Queued, Followed(todo), Promised, [Next]_vars
  PROVE  Promised'
<1>1. CASE Fail
  <2>1. todo # <<>> /\ UNCHANGED <<workspaces, sessions, strays>> /\ Head(todo) = todo[1]
    BY <1>1, Heads DEF Fail, Lose, tables, Remains
  <2>2. CASE todo' = <<>>
    BY <2>2, NothingPromised
  <2>3. CASE todo' = Tail(todo) /\ Head(todo)[1] \in {"adopt", "anchor", "leave", "activate"}
    <3>1. todo[1][1] # "insert"
      BY <2>1, <2>3
    <3>2. PromisedIn(Tail(todo), DOMAIN workspaces, (DOMAIN sessions) \cup strays)
      BY <2>1, <3>1, PromisedInRest DEF Promised, Queued
    <3>3. QED
      BY <2>1, <2>3, <3>2 DEF Promised
  <2>4. QED
    BY <1>1, <2>2, <2>3 DEF Fail
<1>2. CASE Turns
  <2>1. UNCHANGED <<todo, workspaces, strays>>
    BY <1>2, TurnsKeepTodo
  <2>2. DOMAIN sessions \subseteq DOMAIN sessions'
    <3>1. sessions' = sessions \/ \E s, v : sessions' = With(sessions, s, v)
      BY <1>2 DEF Turns, Prompt, Register, PersistUser, PersistAssistant, PersistUsage, Write,
           SaveSelect, SaveUpsert, Upsert, EndTurn, Compact, PersistCompaction, tables
    <3>2. QED
      BY <3>1 DEF With
  <2>3. QED
    BY <2>1, <2>2 DEF Promised, PromisedIn
<1>3. CASE Restart
  <2>1. PICK order \in SetToSeqs(DOMAIN workspaces) :
          todo' = FlattenSeq([i \in DOMAIN order |->
            << <<"seed", order[i]>>, <<"ensure", order[i]>>, <<"adopt", order[i]>> >>])
    BY <1>3 DEF Restart
  <2>2. todo' \in Boots(DOMAIN workspaces)
    BY <2>1, Booting DEF TypeOK
  <2>3. \A i \in 1 .. Len(todo') : todo'[i][1] \in {"seed", "ensure", "adopt"}
    BY <2>2 DEF Boots
  <2>4. QED
    BY <2>3, NothingPromised
<1>4. CASE UNCHANGED vars
  BY <1>4 DEF vars, tables, history, Promised
<1>5. CASE PeerMessages
  BY <1>5, MessagesKeep DEF Promised, PromisedIn
<1>6. QED
  BY <1>1, <1>2, <1>3, <1>4, <1>5, RequestPromises, StatementPromises DEF Next

-----------------------------------------------------------------------------
\* A statement is made, and what takes things away after it is still to come.
LEMMA MakingTakesNothing ==
  ASSUME todo \in Seq(Making), NEW st, st[1] \in Takes
  PROVE  ~ Pending(st)
<1>1. \A i \in 1 .. Len(todo) : todo[i] \in Making
  BY ElementOfSeq
<1>2. \A i \in 1 .. Len(todo) : todo[i][1] \notin Takes
  BY <1>1, Mades
<1>3. QED
  BY <1>2 DEF Pending, Contains

\* What is pending stays so unless it is the statement made, and nothing new comes.
LEMMA LeftAfter ==
  ASSUME Queued, Followed(todo), Statement
  PROVE  /\ \A st : Pending(st) /\ st # Head(todo) /\ st[1] \in Takes => Pending(st)'
         /\ \A i \in 1 .. Len(todo') :
              todo'[i] = <<"activate", None>> \/ \E j \in 1 .. Len(todo) : todo'[i] = todo[j]
<1>1. todo # <<>> /\ Remains(Head(todo), Tail(todo))
  BY Advancing, Heads
<1>2. CASE todo' = Tail(todo)
  <2>1. \A st : Pending(st) /\ st # Head(todo) => Pending(st)'
    BY <1>1, <1>2, StillPending DEF Pending
  <2>2. \A i \in 1 .. Len(todo') : \E j \in 1 .. Len(todo) : todo'[i] = todo[j]
    BY <1>1, <1>2 DEF Remains
  <2>3. QED
    BY <2>1, <2>2
<1>3. CASE At("ensure") /\ todo' = Tail(Tail(todo))
  <2>1. todo \in Seq(Making) /\ Tail(todo) # <<>> /\ Tail(todo) \in Seq(Making)
    BY <1>1, <1>3, AdoptIsNext, Heads
  <2>2. \A st : st[1] \in Takes => ~ Pending(st)
    BY <2>1, MakingTakesNothing
  <2> DEFINE r == Tail(todo)
  <2>3. \A i \in 1 .. Len(Tail(r)) : i + 1 \in 1 .. Len(r) /\ Tail(r)[i] = r[i + 1]
    <3> HIDE DEF r
    <3>1. r # <<>> /\ r \in Seq(Making)
      BY <2>1 DEF r
    <3>2. /\ Len(r) \in Nat /\ Len(Tail(r)) = Len(r) - 1
          /\ \A i \in 1 .. Len(Tail(r)) : Tail(r)[i] = r[i + 1]
      BY <3>1, Rest
    <3>3. QED
      BY <3>2
  <2>4. \A i \in 1 .. Len(r) : i + 1 \in 1 .. Len(todo) /\ r[i] = todo[i + 1]
    BY <1>1 DEF Remains
  <2>5. todo' = Tail(r)
    BY <1>3
  <2> HIDE DEF r
  <2>6. \A i \in 1 .. Len(todo') : \E j \in 1 .. Len(todo) : todo'[i] = todo[j]
    BY <2>3, <2>4, <2>5
  <2>7. QED
    BY <2>2, <2>6
<1>4. CASE At("leave") /\ todo' = << <<"activate", None>> >> \o Tail(todo)
  <2> DEFINE q == << <<"activate", None>> >>
             r == Tail(todo)
  <2>1. q \in Seq(Tidying) /\ r \in Seq(Tidying) /\ Appended(q, r, q \o r)
    BY <1>4, LeaveIsTidy
  <2>2. Len(q) = 1 /\ q[1] = <<"activate", None>>
    OBVIOUS
  <2>3. \A st : Contains(r, st) => Contains(q \o r, st)
    <3> HIDE DEF q, r
    <3>1. QED
      BY <2>1, ContainsTogether
  <2>4. \A i \in 1 .. Len(r) : \E j \in 1 .. Len(todo) : r[i] = todo[j]
    BY <1>1 DEF Remains
  <2>5. todo' = q \o r
    BY <1>4
  <2>6. \A st : Pending(st) /\ st # Head(todo) => Contains(r, st)
    BY <1>1, StillPending
  <2> HIDE DEF q, r
  <2>7. \A i \in 1 .. Len(todo') : \/ i = 1 /\ todo'[i] = q[1]
                                   \/ \E j \in 1 .. Len(r) : todo'[i] = r[j]
    <3> TAKE i \in 1 .. Len(todo')
    <3>1. i = 1 \/ (i - 1 \in 1 .. Len(r) /\ 1 + (i - 1) = i)
      BY <2>1, <2>2, <2>5 DEF Appended
    <3>2. 1 \in 1 .. Len(q)
      BY <2>2
    <3>3. QED
      BY <2>1, <2>2, <2>5, <3>1, <3>2 DEF Appended
  <2>8. QED
    BY <2>2, <2>3, <2>4, <2>5, <2>6, <2>7 DEF Pending
<1>5. QED
  BY <1>2, <1>3, <1>4, Advancing

\* What a statement does to the tables, if it takes something away and if it does not.
Untouched == UNCHANGED <<workspaces, agents, sessions, active>>
\* The statements of a delete.
LEMMA TakingChanges ==
  ASSUME Queued, Statement, todo \in Seq(Tidying)
  PROVE  /\ agents' = agents
         /\ \/ Head(todo)[1] \in {"remove", "wipe"} /\ Untouched
            \/ /\ At("drop") /\ UNCHANGED <<workspaces, active>>
               /\ sessions' = Without(sessions, Head(todo)[2])
            \/ /\ At("close") /\ UNCHANGED <<sessions, active>>
               /\ workspaces' = Without(workspaces, Head(todo)[2])
            \/ /\ At("reanchor") /\ UNCHANGED <<workspaces, sessions>>
               /\ active.session # Head(todo)[2] => active' = active
               /\ active.session = Head(todo)[2] =>
                    \E s \in HeadOf(DOMAIN sessions) : active' = [active EXCEPT !.session = s]
            \/ /\ At("leave") /\ UNCHANGED <<workspaces, sessions>>
               /\ active.workspace # Head(todo)[2] => active' = active
               /\ active.workspace = Head(todo)[2] =>
                    \E w \in HeadOf(DOMAIN workspaces \ {Head(todo)[2]}) :
                      active' = [active EXCEPT !.workspace = w]
            \/ /\ At("activate") /\ UNCHANGED <<workspaces, sessions>>
               /\ active' = [active EXCEPT !.session = None]
<1>1. Head(todo)[1] \notin Makes /\ (Head(todo)[1] = "activate" => Head(todo)[2] = None)
  BY Advancing, Rest, Tidies
<1>2. ~ (AddWorkspace \/ SeedPresets \/ EnsureDefault \/ AdoptDefault \/ MarkAgent \/ SetColumn
         \/ OpenWorkspace \/ AnchorSession \/ InsertSession \/ BindWorkspace)
  BY <1>1 DEF Makes, At, AddWorkspace, SeedPresets, EnsureDefault, AdoptDefault, MarkAgent, SetColumn,
       OpenWorkspace, AnchorSession, InsertSession, BindWorkspace
<1>3. DropWorkspace \/ LeaveWorkspace \/ ActivateSession \/ Reanchor \/ DropSession \/ TouchRows
      \/ RemoveRuntime
  BY <1>2 DEF Statement
<1>4. QED
  BY <1>1, <1>3 DEF DropWorkspace, LeaveWorkspace, ActivateSession, Reanchor, DropSession, TouchRows,
       RemoveRuntime, At, Arg, Untouched, tables, Makes

\* The other statements.
LEMMA MakingChanges ==
  ASSUME Queued, Statement, todo \in Seq(Making)
  PROVE  /\ DOMAIN workspaces \subseteq DOMAIN workspaces' /\ DOMAIN sessions \subseteq DOMAIN sessions'
         /\ \/ active' = active
            \/ At("open") /\ active' = [active EXCEPT !.workspace = Head(todo)[2]]
            \/ /\ At("anchor")
               /\ \E s \in (DOMAIN sessions) \cup {None} : active' = [active EXCEPT !.session = s]
            \/ At("activate") /\ active' = [active EXCEPT !.session = Head(todo)[2]]
<1>1. Head(todo)[1] \notin Takes
  BY Advancing, Heads
<1>2. ~ (DropWorkspace \/ LeaveWorkspace \/ Reanchor \/ DropSession \/ RemoveRuntime)
  BY <1>1 DEF Takes, At, DropWorkspace, LeaveWorkspace, Reanchor, DropSession, RemoveRuntime
<1>3. /\ workspaces' = workspaces \/ \E w, a : workspaces' = With(workspaces, w, a)
      /\ sessions' = sessions \/ (\E s, v : sessions' = With(sessions, s, v))
                              \/ DOMAIN sessions' = DOMAIN sessions
  BY <1>2 DEF Statement, AddWorkspace, SeedPresets, EnsureDefault, AdoptDefault, MarkAgent, SetColumn,
       OpenWorkspace, AnchorSession, ActivateSession, InsertSession, BindWorkspace, TouchRows
<1>4. DOMAIN workspaces \subseteq DOMAIN workspaces' /\ DOMAIN sessions \subseteq DOMAIN sessions'
  BY <1>3 DEF With
<1>5. \/ active' = active
      \/ At("open") /\ active' = [active EXCEPT !.workspace = Head(todo)[2]]
      \/ /\ At("anchor")
         /\ \E s \in (DOMAIN sessions) \cup {None} : active' = [active EXCEPT !.session = s]
      \/ At("activate") /\ active' = [active EXCEPT !.session = Head(todo)[2]]
  BY <1>2 DEF Statement, AddWorkspace, SeedPresets, EnsureDefault, AdoptDefault, MarkAgent, SetColumn,
       OpenWorkspace, AnchorSession, ActivateSession, InsertSession, BindWorkspace, TouchRows, Arg,
       HeadOf, SessionsOf
<1>6. QED
  BY <1>4, <1>5

-----------------------------------------------------------------------------
\* What is active is there, or seen to.
WorkspaceSeenTo ==
  active.workspace \in DOMAIN workspaces \cup {None} \/ Pending(<<"leave", active.workspace>>)
SessionSeenTo ==
  active.session \in DOMAIN sessions \cup strays \cup {None} \/ Pending(<<"reanchor", active.session>>)

\* Anchored, in these words.
LEMMA AnchoredBy == Anchored <=> ({"active", "sessions"} \cap failed = {} => WorkspaceSeenTo /\ SessionSeenTo)
BY DEF Anchored, WorkspaceSeenTo, SessionSeenTo

\* A queue whose statements about app_state were lost leaves nothing pending.
LEMMA LostAnchors ==
  ASSUME Told, Lose(todo), "active" \notin failed', NEW st, st[1] \in {"leave", "reanchor"}
  PROVE  ~ Pending(st)
<1>1. ASSUME Pending(st) PROVE FALSE
  <2>1. PICK i \in 1 .. Len(todo) : todo[i] = st
    BY <1>1 DEF Pending, Contains
  <2>2. About(todo[i]) = "active"
    BY <2>1 DEF About
  <2>3. i \in DOMAIN todo
    BY <1>1, <2>1 DEF Pending, Contains
  <2>4. QED
    BY <2>2, <2>3 DEF Lose
<1>2. QED
  BY <1>1

\* A statement keeps what is active there or seen to.
LEMMA StatementAnchors ==
  ASSUME TypeOK, Queued, Followed(todo), Promised, WorkspaceSeenTo, SessionSeenTo, Statement
  PROVE  WorkspaceSeenTo' /\ SessionSeenTo'
<1>1. todo # <<>> /\ Head(todo) = todo[1] /\ 1 \in 1 .. Len(todo)
  BY Advancing, Heads DEF Remains
<1>2. active \in [workspace : Workspaces \cup {None}, session : Sessions \cup {None}]
  BY DEF TypeOK
<1>3. /\ \A st : Pending(st) /\ st # Head(todo) /\ st[1] \in Takes => Pending(st)'
      /\ strays' = strays
  BY LeftAfter, StatementKeepsStrays
<1>4. CASE todo \in Seq(Making)
  <2>1. /\ active.workspace \in DOMAIN workspaces \cup {None}
        /\ active.session \in DOMAIN sessions \cup strays \cup {None}
    <3>1. ~ Pending(<<"leave", active.workspace>>) /\ ~ Pending(<<"reanchor", active.session>>)
      BY <1>4, MakingTakesNothing DEF Takes
    <3>2. QED
      BY <3>1 DEF WorkspaceSeenTo, SessionSeenTo
  <2>2. At("open") => Head(todo)[2] \in DOMAIN workspaces
    BY <1>1 DEF At, Promised, PromisedIn
  <2>3. At("activate") => Head(todo)[2] \in DOMAIN sessions \cup strays \cup {None}
    <3>1. ~ Inserted(todo, 1)
      BY <1>1 DEF Inserted
    <3>2. QED
      BY <1>1, <3>1 DEF At, Promised, PromisedIn
  <2>4. /\ active'.workspace \in (DOMAIN workspaces) \cup {None}
        /\ active'.session \in (DOMAIN sessions) \cup strays \cup {None}
    BY <1>2, <1>4, <2>1, <2>2, <2>3, MakingChanges
  <2>5. DOMAIN workspaces \subseteq DOMAIN workspaces' /\ DOMAIN sessions \subseteq DOMAIN sessions'
    BY <1>4, MakingChanges
  <2>6. QED
    BY <1>3, <2>4, <2>5 DEF WorkspaceSeenTo, SessionSeenTo
<1>5. CASE todo \in Seq(Tidying)
  <2>1. ASSUME UNCHANGED <<workspaces, active.workspace>>, Head(todo)[1] # "leave"
        PROVE  WorkspaceSeenTo'
    <3>1. Pending(<<"leave", active.workspace>>) => Pending(<<"leave", active.workspace>>)'
      BY <1>3, <2>1 DEF Takes
    <3>2. QED
      BY <2>1, <3>1 DEF WorkspaceSeenTo
  <2>2. ASSUME UNCHANGED <<sessions, active.session>>, Head(todo)[1] # "reanchor"
        PROVE  SessionSeenTo'
    <3>1. Pending(<<"reanchor", active.session>>) => Pending(<<"reanchor", active.session>>)'
      BY <1>3, <2>2 DEF Takes
    <3>2. QED
      BY <1>3, <2>2, <3>1 DEF SessionSeenTo
  <2>3. CASE Head(todo)[1] \in {"remove", "wipe"} /\ Untouched
    BY <2>1, <2>2, <2>3 DEF Untouched
  <2>4. CASE /\ At("drop") /\ UNCHANGED <<workspaces, active>>
             /\ sessions' = Without(sessions, Head(todo)[2])
    <3>1. WorkspaceSeenTo'
      BY <2>1, <2>4 DEF At
    <3>2. DOMAIN sessions' = (DOMAIN sessions) \ {Head(todo)[2]}
      BY <2>4 DEF Without
    <3>3. CASE active.session = Head(todo)[2]
      <4>1. Later(todo, 1, <<"reanchor", active.session>>)
        BY <1>1, <2>4, <3>3 DEF Followed, At
      <4>2. Pending(<<"reanchor", active.session>>)
        BY <4>1 DEF Later, Pending, Contains
      <4>3. Pending(<<"reanchor", active.session>>)'
        BY <1>3, <2>4, <4>2 DEF Takes, At
      <4>4. QED
        BY <2>4, <3>1, <4>3 DEF SessionSeenTo
    <3>4. CASE active.session # Head(todo)[2]
      <4>1. Pending(<<"reanchor", active.session>>) => Pending(<<"reanchor", active.session>>)'
        BY <1>3, <2>4 DEF Takes, At
      <4>2. QED
        BY <1>3, <2>4, <3>1, <3>2, <3>4, <4>1 DEF SessionSeenTo
    <3>5. QED
      BY <3>3, <3>4
  <2>5. CASE /\ At("close") /\ UNCHANGED <<sessions, active>>
             /\ workspaces' = Without(workspaces, Head(todo)[2])
    <3>1. SessionSeenTo'
      BY <2>2, <2>5 DEF At
    <3>2. DOMAIN workspaces' = (DOMAIN workspaces) \ {Head(todo)[2]}
      BY <2>5 DEF Without
    <3>3. CASE active.workspace = Head(todo)[2]
      <4>1. Later(todo, 1, <<"leave", active.workspace>>)
        BY <1>1, <2>5, <3>3 DEF Followed, At
      <4>2. Pending(<<"leave", active.workspace>>)
        BY <4>1 DEF Later, Pending, Contains
      <4>3. Pending(<<"leave", active.workspace>>)'
        BY <1>3, <2>5, <4>2 DEF Takes, At
      <4>4. QED
        BY <2>5, <3>1, <4>3 DEF WorkspaceSeenTo
    <3>4. CASE active.workspace # Head(todo)[2]
      <4>1. Pending(<<"leave", active.workspace>>) => Pending(<<"leave", active.workspace>>)'
        BY <1>3, <2>5 DEF Takes, At
      <4>2. QED
        BY <2>5, <3>1, <3>2, <3>4, <4>1 DEF WorkspaceSeenTo
    <3>5. QED
      BY <3>3, <3>4
  <2>6. CASE /\ At("reanchor") /\ UNCHANGED <<workspaces, sessions>>
             /\ active.session # Head(todo)[2] => active' = active
             /\ active.session = Head(todo)[2] =>
                  \E s \in HeadOf(DOMAIN sessions) : active' = [active EXCEPT !.session = s]
    <3>1. CASE active.session = Head(todo)[2]
      <4>1. active'.workspace = active.workspace /\ active'.session \in (DOMAIN sessions) \cup {None}
        BY <1>2, <2>6, <3>1 DEF HeadOf
      <4>2. WorkspaceSeenTo'
        BY <2>1, <2>6, <4>1 DEF At
      <4>3. QED
        BY <2>6, <4>1, <4>2 DEF SessionSeenTo
    <3>2. CASE active.session # Head(todo)[2]
      <4>1. WorkspaceSeenTo'
        BY <2>1, <2>6, <3>2 DEF At
      <4>2. <<"reanchor", active.session>> # Head(todo)
        <5>1. <<"reanchor", active.session>>[2] = active.session
          OBVIOUS
        <5>2. QED
          BY <3>2, <5>1
      <4>3. Pending(<<"reanchor", active.session>>) => Pending(<<"reanchor", active.session>>)'
        BY <1>3, <2>6, <3>2, <4>2 DEF Takes
      <4>4. QED
        BY <1>3, <2>6, <3>2, <4>1, <4>3 DEF SessionSeenTo
    <3>3. QED
      BY <3>1, <3>2
  <2>7. CASE /\ At("leave") /\ UNCHANGED <<workspaces, sessions>>
             /\ active.workspace # Head(todo)[2] => active' = active
             /\ active.workspace = Head(todo)[2] =>
                  \E w \in HeadOf(DOMAIN workspaces \ {Head(todo)[2]}) :
                    active' = [active EXCEPT !.workspace = w]
    <3>1. CASE active.workspace = Head(todo)[2]
      <4>1. active'.session = active.session /\ active'.workspace \in (DOMAIN workspaces) \cup {None}
        BY <1>2, <2>7, <3>1 DEF HeadOf
      <4>2. SessionSeenTo'
        BY <2>2, <2>7, <4>1 DEF At
      <4>3. QED
        BY <2>7, <4>1, <4>2 DEF WorkspaceSeenTo
    <3>2. CASE active.workspace # Head(todo)[2]
      <4>1. SessionSeenTo'
        BY <2>2, <2>7, <3>2 DEF At
      <4>2. <<"leave", active.workspace>> # Head(todo)
        <5>1. <<"leave", active.workspace>>[2] = active.workspace
          OBVIOUS
        <5>2. QED
          BY <3>2, <5>1
      <4>3. Pending(<<"leave", active.workspace>>) => Pending(<<"leave", active.workspace>>)'
        BY <1>3, <2>7, <3>2, <4>2 DEF Takes
      <4>4. QED
        BY <2>7, <3>2, <4>1, <4>3 DEF WorkspaceSeenTo
    <3>3. QED
      BY <3>1, <3>2
  <2>8. CASE /\ At("activate") /\ UNCHANGED <<workspaces, sessions>>
             /\ active' = [active EXCEPT !.session = None]
    <3>1. active'.workspace = active.workspace /\ active'.session = None
      BY <1>2, <2>8
    <3>2. WorkspaceSeenTo'
      BY <2>1, <2>8, <3>1 DEF At
    <3>3. QED
      BY <3>1, <3>2 DEF SessionSeenTo
  <2>9. QED
    BY <1>5, <2>3, <2>4, <2>5, <2>6, <2>7, <2>8, TakingChanges
<1>6. QED
  BY <1>4, <1>5 DEF Queued

\* Failures stay on record.
LEMMA FailuresStay ==
  ASSUME TypeOK, [Next]_vars
  PROVE  failed \subseteq failed'
<1>1. Told
  BY Groups
<1>2. CASE Request
  BY <1>2 DEF Request, CreateWorkspace, SetActiveWorkspace, DeleteWorkspace, BindSessionWorkspace,
       CreateAgent, UpdateDefaultAgent, SetActiveSession, DeleteSession, ImportFiles, SaveMessage,
       Put, DeleteAgent, Serve, CreateSession, UpdateDefaultBlind
<1>3. CASE Statement
  BY <1>3 DEF Statement, AddWorkspace, SeedPresets, EnsureDefault, AdoptDefault, MarkAgent, SetColumn,
       DropWorkspace, OpenWorkspace, AnchorSession, LeaveWorkspace, ActivateSession, Reanchor,
       InsertSession, BindWorkspace, DropSession, TouchRows, RemoveRuntime, RemoveEntry, Done, history
<1>4. CASE Fail
  BY <1>1, <1>4, Loses DEF Fail
<1>5. CASE Restart
  BY <1>1, <1>5, Loses DEF Restart
<1>6. CASE Turns
  BY <1>6, TurnsKeepTodo
<1>7. CASE UNCHANGED vars
  BY <1>7 DEF vars, history
<1>8. CASE PeerMessages
  BY <1>8, MessagesKeep
<1>9. QED
  BY <1>2, <1>3, <1>4, <1>5, <1>6, <1>7, <1>8 DEF Next

\* A turn takes no session away.
LEMMA TurnsKeepSessions ==
  ASSUME Turns
  PROVE  DOMAIN sessions \subseteq DOMAIN sessions'
<1>1. sessions' = sessions \/ \E s, v : sessions' = With(sessions, s, v)
  BY DEF Turns, Prompt, Register, PersistUser, PersistAssistant, PersistUsage, Write, SaveSelect,
     SaveUpsert, Upsert, EndTurn, Compact, PersistCompaction, tables
<1>2. QED
  BY <1>1 DEF With

\* Every step keeps what is active there or seen to.
LEMMA AnchorStep ==
  ASSUME TypeOK, Queued, Followed(todo), Promised, Anchored, [Next]_vars
  PROVE  Anchored'
<1>1. SUFFICES ASSUME {"active", "sessions"} \cap failed' = {}
               PROVE  WorkspaceSeenTo' /\ SessionSeenTo'
  BY DEF Anchored, WorkspaceSeenTo, SessionSeenTo
<1>2. WorkspaceSeenTo /\ SessionSeenTo
  BY <1>1, FailuresStay, AnchoredBy
<1>3. Told
  BY Groups
<1>4. ASSUME UNCHANGED tables, (DOMAIN sessions) \cup strays \subseteq (DOMAIN sessions) \cup strays',
             ~ Pending(<<"leave", active.workspace>>), ~ Pending(<<"reanchor", active.session>>)
      PROVE  WorkspaceSeenTo' /\ SessionSeenTo'
  BY <1>2, <1>4 DEF WorkspaceSeenTo, SessionSeenTo, tables
<1>5. CASE Request
  <2>1. \A st : ~ Pending(st)
    BY <1>5 DEF Request, Idle, Pending, Contains
  <2>2. QED
    BY <1>4, <1>5, <2>1, RequestTypes
<1>6. CASE Statement
  BY <1>2, <1>6, StatementAnchors
<1>7. CASE Fail
  <2>1. CASE Lose(todo)
    <3>1. UNCHANGED <<tables, strays>>
      BY <1>7, <2>1 DEF Fail, Lose
    <3>2. ~ Pending(<<"leave", active.workspace>>) /\ ~ Pending(<<"reanchor", active.session>>)
      BY <1>1, <1>3, <2>1, LostAnchors
    <3>3. QED
      BY <1>4, <3>1, <3>2
  <2>2. CASE Lose(<<Head(todo)>>) /\ todo' = Tail(todo)
    <3>1. todo # <<>> /\ UNCHANGED <<workspaces, sessions, active, strays>>
      BY <1>7, <2>2 DEF Fail, Lose, tables
    <3>2. About(Head(todo)) # "active"
      <4>1. DOMAIN <<Head(todo)>> = {1} /\ <<Head(todo)>>[1] = Head(todo)
        OBVIOUS
      <4>2. QED
        BY <1>1, <2>2, <4>1 DEF Lose
    <3>3. Head(todo)[1] \notin {"leave", "reanchor"}
      BY <3>2 DEF About
    <3>4. \A st : Pending(st) /\ st[1] \in {"leave", "reanchor"} => Pending(st)'
      BY <2>2, <3>1, <3>3, StillPending DEF Pending
    <3>5. QED
      BY <1>2, <3>1, <3>4 DEF WorkspaceSeenTo, SessionSeenTo
  <2>3. QED
    BY <1>7, <2>1, <2>2 DEF Fail
<1>8. CASE Turns
  BY <1>2, <1>8, TurnsKeepTodo, TurnsKeepSessions DEF WorkspaceSeenTo, SessionSeenTo, Pending
<1>9. CASE Restart
  <2>1. UNCHANGED <<tables, strays>> /\ Lose(todo)
    BY <1>9 DEF Restart, Lose
  <2>2. ~ Pending(<<"leave", active.workspace>>) /\ ~ Pending(<<"reanchor", active.session>>)
    BY <1>1, <1>3, <2>1, LostAnchors
  <2>3. QED
    BY <1>4, <2>1, <2>2
<1>10. CASE UNCHANGED vars
  BY <1>2, <1>10 DEF vars, tables, history, WorkspaceSeenTo, SessionSeenTo, Pending
<1>11. CASE PeerMessages
  BY <1>2, <1>11, MessagesKeep DEF WorkspaceSeenTo, SessionSeenTo, Pending
<1>12. QED
  BY <1>5, <1>6, <1>7, <1>8, <1>9, <1>10, <1>11 DEF Next


-----------------------------------------------------------------------------
\* What is deleted stays so but for what the delete has still to do.
LEMMA LostBurials ==
  ASSUME Told, Lose(todo), NEW s \in deleted', NEW st, st[2] = s
  PROVE  ~ Pending(st)
<1>1. ASSUME Pending(st) PROVE FALSE
  <2>1. PICK i \in 1 .. Len(todo) : todo[i] = st
    BY <1>1 DEF Pending, Contains
  <2>2. i \in DOMAIN todo
    BY <1>1, <2>1 DEF Pending, Contains
  <2>3. QED
    BY <2>1, <2>2 DEF Lose
<1>2. QED
  BY <1>1

\* A delete brings nothing back.
LEMMA NoneComes ==
  ASSUME todo' \in Seq(Tidying), NEW i \in 1 .. Len(todo')
  PROVE  todo'[i][1] \notin {"insert", "put"}
<1> DEFINE r == todo'
<1>1. \A j \in 1 .. Len(r) : r[j] \in Tidying
  BY ElementOfSeq
<1>2. QED
  BY <1>1, Tidies DEF Makes

\* A request is never about bringing back what is deleted.
LEMMA RequestComes ==
  ASSUME TypeOK, Request, NEW i \in 1 .. Len(todo'),
         todo'[i][1] \in {"insert", "put"}
  PROVE  todo'[i][2] \notin deleted' \ missed'
<1>1. ASSUME NEW w, CreateWorkspace(w) PROVE FALSE
  BY <1>1 DEF CreateWorkspace, Serve
<1>2. ASSUME NEW w, SetActiveWorkspace(w) PROVE FALSE
  BY <1>2 DEF SetActiveWorkspace, Serve
<1>3. ASSUME NEW w \in Workspaces, DeleteWorkspace(w) PROVE FALSE
  BY <1>3, ClosingQueue, NoneComes
<1>4. ASSUME NEW s, NEW w, BindSessionWorkspace(s, w) PROVE FALSE
  BY <1>4 DEF BindSessionWorkspace, Serve
<1>5. ASSUME NEW s \in Sessions, NEW w, NEW asked, CreateSession(s, w, asked)
      PROVE  todo'[i][2] \notin deleted'
  <2>1. s \notin deleted'
    BY <1>5 DEF CreateSession, Minted
  <2>2. PICK a : todo' = << <<"insert", s, a>>, <<"bind", s, w>>, <<"activate", s>> >>
    BY <1>5 DEF CreateSession
  <2>3. QED
    BY <2>1, <2>2
<1>6. ASSUME NEW a, NEW w, CreateAgent(a, w) PROVE FALSE
  BY <1>6 DEF CreateAgent, Serve
<1>7. ASSUME NEW a \in AgentIds, NEW w \in Workspaces,
             UpdateDefaultAgent(w, a) \/ UpdateDefaultBlind(w, a)
      PROVE  FALSE
  BY <1>7, Redefaults
<1>8. ASSUME NEW s, SetActiveSession(s) PROVE FALSE
  BY <1>8 DEF SetActiveSession
<1>9. ASSUME NEW s, ImportFiles(s) \/ SaveMessage(s) PROVE todo'[i][2] \notin deleted'
  BY <1>9 DEF ImportFiles, SaveMessage, Put
<1>10. ASSUME NEW s \in Sessions, DeleteSession(s) PROVE FALSE
  <2>1. todo' \in Seq(Tidying)
    BY <1>10, Deleting DEF DeleteSession, Serve, Deletes
  <2>2. QED
    BY <2>1, NoneComes
<1>11. ASSUME NEW a, DeleteAgent(a) PROVE FALSE
  BY <1>11 DEF DeleteAgent, Serve
<1>12. QED
  BY <1>1, <1>2, <1>3, <1>4, <1>5, <1>6, <1>7, <1>8, <1>9, <1>10, <1>11 DEF Request

\* A statement but the first of a delete leaves the memory alone, and gives a session a
\* row or takes one away only where it says so.
LEMMA StatementTouches ==
  ASSUME Statement, ~ RemoveRuntime
  PROVE  /\ UNCHANGED <<turn, compacting, arriving, deleted, missed>>
         /\ \A s \in DOMAIN sessions' :
              /\ s \in DOMAIN sessions \/ (At("insert") /\ Head(todo)[2] = s)
              /\ ~ (At("drop") /\ Head(todo)[2] = s)
         /\ \A s, t : <<s, t>> \in rows' =>
              /\ <<s, t>> \in rows \/ (At("put") /\ Head(todo)[2] = s)
              /\ ~ (At("wipe") /\ Head(todo)[2] = s /\ Head(todo)[3] = t)
<1>1. UNCHANGED <<turn, compacting, arriving, deleted, missed>>
  BY DEF Statement, AddWorkspace, SeedPresets, EnsureDefault, AdoptDefault, MarkAgent, SetColumn,
         DropWorkspace, OpenWorkspace, AnchorSession, LeaveWorkspace, ActivateSession, Reanchor,
         InsertSession, BindWorkspace, DropSession, TouchRows, Done, memory, history
<1>2. \/ sessions' = sessions /\ ~ At("drop")
      \/ At("insert") /\ \E v : sessions' = With(sessions, Head(todo)[2], v)
      \/ DOMAIN sessions' = DOMAIN sessions /\ ~ At("drop")
      \/ At("drop") /\ sessions' = Without(sessions, Head(todo)[2])
  BY DEF Statement, AddWorkspace, SeedPresets, EnsureDefault, AdoptDefault, MarkAgent, SetColumn,
         DropWorkspace, OpenWorkspace, AnchorSession, LeaveWorkspace, ActivateSession, Reanchor,
         InsertSession, BindWorkspace, DropSession, TouchRows, At, Arg
<1>3. \A s \in DOMAIN sessions' :
        /\ s \in DOMAIN sessions \/ (At("insert") /\ Head(todo)[2] = s)
        /\ ~ (At("drop") /\ Head(todo)[2] = s)
  BY <1>2 DEF With, Without, At
<1>4. \/ rows' = rows /\ ~ At("wipe")
      \/ At("wipe") /\ rows' = rows \ {<<Head(todo)[2], Head(todo)[3]>>}
      \/ At("put") /\ rows' \subseteq rows \cup {<<Head(todo)[2], Head(todo)[3]>>}
  BY DEF Statement, AddWorkspace, SeedPresets, EnsureDefault, AdoptDefault, MarkAgent, SetColumn,
         DropWorkspace, OpenWorkspace, AnchorSession, LeaveWorkspace, ActivateSession, Reanchor,
         InsertSession, BindWorkspace, DropSession, TouchRows, At, Arg
<1>5. \A s, t : <<s, t>> \in rows' =>
        /\ <<s, t>> \in rows \/ (At("put") /\ Head(todo)[2] = s)
        /\ ~ (At("wipe") /\ Head(todo)[2] = s /\ Head(todo)[3] = t)
  BY <1>4 DEF At
<1>6. QED
  BY <1>1, <1>3, <1>5

\* A statement keeps what is deleted so.
LEMMA StatementBuries ==
  ASSUME TypeOK, Queued, Followed(todo), Buried, Statement
  PROVE  Buried'
<1>1. todo # <<>> /\ Head(todo) = todo[1] /\ 1 \in 1 .. Len(todo) /\ Args(Head(todo))
  BY Advancing, Heads DEF Remains
<1>2. /\ \A st : Pending(st) /\ st # Head(todo) /\ st[1] \in Takes => Pending(st)'
      /\ \A i \in 1 .. Len(todo') :
           todo'[i] = <<"activate", None>> \/ \E j \in 1 .. Len(todo) : todo'[i] = todo[j]
  BY LeftAfter
<1>3. ASSUME NEW s \in deleted \ missed
      PROVE  \A i \in 1 .. Len(todo') : todo'[i][1] \in {"insert", "put"} => todo'[i][2] # s
  <2> SUFFICES ASSUME NEW i \in 1 .. Len(todo'), todo'[i][1] \in {"insert", "put"}
               PROVE  todo'[i][2] # s
    OBVIOUS
  <2>1. todo'[i] # <<"activate", None>>
    OBVIOUS
  <2>2. PICK j \in 1 .. Len(todo) : todo'[i] = todo[j]
    BY <1>2, <2>1
  <2>3. Gone(s)
    BY <1>3 DEF Buried
  <2>4. QED
    BY <2>2, <2>3 DEF Gone
<1>4. ASSUME NEW s \in deleted' \ missed', RemoveRuntime
      PROVE  Gone(s)'
  <2> DEFINE x == Head(todo)[2]
  <2>1. /\ x \in Sessions /\ todo' = Tail(todo) /\ Head(todo)[1] = "remove"
        /\ UNCHANGED <<sessions, rows, compacting, arriving>>
    BY <1>1, <1>4 DEF RemoveRuntime, At, Args, tables
  <2>2. CASE s = x
    <3>1. turn'[s] = "none" /\ s \notin compacting' /\ arriving'[s].at \notin {"select", "upsert"}
      BY <1>4, <2>1, <2>2 DEF RemoveRuntime, RemoveEntry, Uncancelled, Arg
    <3>2. /\ Later(todo, 1, <<"drop", s>>)
          /\ \A t \in Tables : Later(todo, 1, <<"wipe", s, t>>)
      BY <1>1, <2>1, <2>2 DEF Followed
    <3>3. /\ Contains(Tail(todo), <<"drop", s>>)
          /\ \A t \in Tables : Contains(Tail(todo), <<"wipe", s, t>>)
      BY <1>1, <3>2, ThenPending
    <3>4. Pending(<<"drop", s>>)' /\ \A t \in Tables : Pending(<<"wipe", s, t>>)'
      BY <2>1, <3>3 DEF Pending
    <3>5. todo' \in Seq(Tidying)
      <4>1. todo \in Seq(Tidying)
        BY <1>1, <2>1, Heads DEF Queued, Takes
      <4>2. QED
        BY <1>1, <2>1, <4>1, Heads
    <3>6. QED
      BY <3>1, <3>4, <3>5, NoneComes DEF Gone
  <2>3. CASE s # x
    <3>1. s \in deleted \ missed /\ turn'[s] = turn[s]
      BY <1>4, <2>3 DEF RemoveRuntime, RemoveEntry, Arg, TypeOK
    <3>2. Gone(s)
      BY <3>1 DEF Buried
    <3>3. /\ Pending(<<"drop", s>>) => Pending(<<"drop", s>>)'
          /\ \A t : Pending(<<"wipe", s, t>>) => Pending(<<"wipe", s, t>>)'
      BY <1>2, <2>1 DEF Takes
    <3>4. QED
      BY <1>3, <2>1, <3>1, <3>2, <3>3 DEF Gone
  <2>4. QED
    BY <2>2, <2>3
<1>5. ASSUME NEW s \in deleted' \ missed', ~ RemoveRuntime
      PROVE  Gone(s)'
  <2>1. UNCHANGED <<turn, compacting, arriving, deleted, missed>> /\ Gone(s)
    BY <1>5, StatementTouches DEF Buried
  <2>2. Head(todo)[1] \in {"insert", "put"} => Head(todo)[2] # s
    BY <1>1, <2>1 DEF Gone
  <2>3. ASSUME s \in DOMAIN sessions' PROVE Pending(<<"drop", s>>)'
    <3>1. s \in DOMAIN sessions /\ ~ (At("drop") /\ Head(todo)[2] = s)
      BY <1>5, <2>2, <2>3, StatementTouches DEF At
    <3>2. Pending(<<"drop", s>>) /\ <<"drop", s>> # Head(todo)
      BY <1>1, <2>1, <3>1 DEF Gone, At
    <3>3. QED
      BY <1>2, <3>2 DEF Takes
  <2>4. ASSUME NEW t \in Tables, <<s, t>> \in rows' PROVE Pending(<<"wipe", s, t>>)'
    <3>1. <<s, t>> \in rows /\ ~ (At("wipe") /\ Head(todo)[2] = s /\ Head(todo)[3] = t)
      BY <1>5, <2>2, <2>4, StatementTouches DEF At
    <3>2. Pending(<<"wipe", s, t>>) /\ <<"wipe", s, t>> # Head(todo)
      BY <1>1, <2>1, <3>1 DEF Gone, At
    <3>3. QED
      BY <1>2, <3>2 DEF Takes
  <2>5. QED
    BY <1>3, <1>5, <2>1, <2>3, <2>4 DEF Gone
<1>6. QED
  BY <1>4, <1>5 DEF Buried

\* A delete that is cut short is off the record, and what is left is as it was.
LEMMA FailBuries ==
  ASSUME TypeOK, Queued, Buried, Fail
  PROVE  Buried'
<1>1. Told /\ todo # <<>> /\ Remains(Head(todo), Tail(todo))
  BY Groups, Heads DEF Fail
<1>2. UNCHANGED <<sessions, rows, turn, compacting, arriving>>
  BY DEF Fail, tables, memory
<1>3. SUFFICES ASSUME NEW s \in deleted' \ missed' PROVE Gone(s)'
  BY DEF Buried
<1>4. Gone(s)
  BY <1>1, Loses DEF Fail, Buried
<1>5. CASE Lose(todo) /\ todo' = <<>>
  <2>1. ~ Pending(<<"drop", s>>) /\ \A t : ~ Pending(<<"wipe", s, t>>)
    BY <1>1, <1>5, LostBurials
  <2>2. QED
    BY <1>2, <1>4, <1>5, <2>1 DEF Gone
<1>6. CASE todo' = Tail(todo) /\ Head(todo)[1] \in {"adopt", "anchor", "leave", "activate"}
  <2>1. \A st : Pending(st) /\ st # Head(todo) => Pending(st)'
    BY <1>1, <1>6, StillPending DEF Pending
  <2>2. /\ Pending(<<"drop", s>>) => Pending(<<"drop", s>>)'
        /\ \A t : Pending(<<"wipe", s, t>>) => Pending(<<"wipe", s, t>>)'
    BY <1>6, <2>1
  <2>3. \A i \in 1 .. Len(todo') : todo'[i][1] \in {"insert", "put"} => todo'[i][2] # s
    BY <1>1, <1>4, <1>6 DEF Gone, Remains
  <2>4. QED
    BY <1>2, <1>4, <2>2, <2>3 DEF Gone
<1>7. QED
  BY <1>5, <1>6 DEF Fail

\* The same for a restart, which starts with no turn and no compaction.
LEMMA RestartBuries ==
  ASSUME TypeOK, Buried, Restart
  PROVE  Buried'
<1>1. Told
  BY Groups
<1>2. UNCHANGED <<sessions, rows>> /\ Lose(todo)
  BY DEF Restart, tables
<1>3. SUFFICES ASSUME NEW s \in deleted' \ missed' PROVE Gone(s)'
  BY DEF Buried
<1>4. Gone(s)
  BY <1>1, <1>2, Loses DEF Buried
<1>5. ~ Pending(<<"drop", s>>) /\ \A t : ~ Pending(<<"wipe", s, t>>)
  BY <1>1, <1>2, LostBurials
<1>6. PICK order \in SetToSeqs(DOMAIN workspaces) :
        todo' = FlattenSeq([i \in DOMAIN order |->
          << <<"seed", order[i]>>, <<"ensure", order[i]>>, <<"adopt", order[i]>> >>])
  BY DEF Restart
<1>7. todo' \in Boots(DOMAIN workspaces)
  BY <1>6, Booting DEF TypeOK
<1>8. \A i \in 1 .. Len(todo') : todo'[i][1] \in {"seed", "ensure", "adopt"}
  BY <1>7 DEF Boots
<1>9. s \in Sessions /\ turn'[s] = "none" /\ compacting' = {} /\ arriving'[s].at = "none"
  BY <1>1, Loses, <1>2 DEF Restart, Told, NoMessage
<1>10. QED
  BY <1>2, <1>4, <1>5, <1>8, <1>9 DEF Gone

\* A turn or a compaction acts for its own session only, which is at work.
LEMMA TurnsTouch ==
  ASSUME TypeOK, Turns
  PROVE  \E x \in Sessions :
           /\ turn[x] # "none" \/ x \in compacting \/ x \notin deleted'
           /\ \A s \in Sessions \ {x} : turn'[s] = turn[s]
           /\ compacting' \subseteq compacting \cup {x}
           /\ DOMAIN sessions' \subseteq (DOMAIN sessions) \cup {x}
           /\ \A s, t : <<s, t>> \in rows' => s = x \/ <<s, t>> \in rows
           /\ deleted' \ missed' \subseteq deleted \ missed
<1>1. PICK x \in Sessions :
        \/ Prompt(x) \/ Register(x) \/ PersistUser(x) \/ PersistAssistant(x) \/ SaveSelect(x)
        \/ SaveUpsert(x) \/ PersistUsage(x) \/ EndTurn(x) \/ Compact(x) \/ PersistCompaction(x)
  BY DEF Turns
<1>2. turn[x] # "none" \/ x \in compacting \/ x \notin deleted'
  BY <1>1 DEF Prompt, Register, PersistUser, PersistAssistant, SaveSelect, SaveUpsert, PersistUsage,
       EndTurn, Compact, PersistCompaction, Write, InPhase, Enter
<1>3. \A s \in Sessions \ {x} : turn'[s] = turn[s]
  BY <1>1 DEF TypeOK, Prompt, Register, PersistUser, PersistAssistant, SaveSelect, SaveUpsert,
       PersistUsage, EndTurn, Compact, PersistCompaction, Write
<1>4. compacting' \subseteq compacting \cup {x}
  BY <1>1 DEF Prompt, Register, PersistUser, PersistAssistant, SaveSelect, SaveUpsert, PersistUsage,
       EndTurn, Compact, PersistCompaction, Write
<1>5. sessions' = sessions \/ \E v : sessions' = With(sessions, x, v)
  BY <1>1 DEF Prompt, Register, PersistUser, PersistAssistant, SaveSelect, SaveUpsert, Upsert,
       PersistUsage, EndTurn, Compact, PersistCompaction, Write, tables
<1>6. DOMAIN sessions' \subseteq (DOMAIN sessions) \cup {x}
  BY <1>5 DEF With
<1>7. \A s, t : <<s, t>> \in rows' => s = x \/ <<s, t>> \in rows
  BY <1>1 DEF Prompt, Register, PersistUser, PersistAssistant, SaveSelect, SaveUpsert, PersistUsage,
       EndTurn, Compact, PersistCompaction, Write, tables
<1>8. deleted' \ missed' \subseteq deleted \ missed
  BY <1>1 DEF Prompt, Register, PersistUser, PersistAssistant, SaveSelect, SaveUpsert, PersistUsage,
       EndTurn, Compact, PersistCompaction, Write, Enter, history
<1>9. QED
  BY <1>2, <1>3, <1>4, <1>6, <1>7, <1>8

\* A message of a peer takes its session off the record, or is one Remove would have missed.
LEMMA MessageBuries ==
  ASSUME TypeOK, Buried, PeerMessages
  PROVE  Buried'
<1>1. PICK x \in ImSessions :
        \/ \E w \in ImWorkspaces : MessageArrives(x, w)
        \/ MessageSelect(x) \/ MessageUpsert(x) \/ MessageBind(x)
  BY DEF PeerMessages
<1>2. /\ UNCHANGED <<todo, rows, turn, compacting>>
      /\ x \in Sessions /\ arriving \in [Sessions -> [at : {"none", "select", "upsert", "bind"},
                               found : Workspaces \cup {None}, to : ImWorkspaces \cup {None}]]
  BY MessagesKeep, CatalogAssumption DEF CatalogAssumption, TypeOK
<1>3. SUFFICES ASSUME NEW s \in deleted' \ missed' PROVE Gone(s)'
  BY DEF Buried
<1>4. s \in Sessions /\ s \in deleted \ missed
  BY <1>1 DEF MessageArrives, MessageSelect, MessageUpsert, MessageBind, history, TypeOK
<1>5. Gone(s)
  BY <1>4 DEF Buried
<1>6. CASE s # x
  <2>1. arriving'[s] = arriving[s]
    BY <1>1, <1>2, <1>4, <1>6 DEF MessageArrives, MessageSelect, MessageUpsert, MessageBind
  <2>2. \/ DOMAIN sessions' = DOMAIN sessions
        \/ \E v : sessions' = With(sessions, x, v)
    BY <1>1 DEF MessageArrives, MessageSelect, MessageUpsert, MessageBind, tables
  <2>3. s \in DOMAIN sessions' => s \in DOMAIN sessions
    BY <1>6, <2>2 DEF With
  <2>4. QED
    BY <1>2, <1>5, <2>1, <2>3 DEF Gone, Pending
<1>7. CASE s = x
  <2>1. MessageBind(s)
    BY <1>1, <1>3, <1>5, <1>7 DEF MessageArrives, MessageSelect, MessageUpsert, Reached, Gone
  <2>2. DOMAIN sessions' = DOMAIN sessions
    BY <2>1 DEF MessageBind
  <2>3. arriving'[s].at = "none"
    BY <1>2, <1>4, <2>1 DEF MessageBind, NoMessage
  <2>4. QED
    BY <1>2, <1>5, <2>2, <2>3 DEF Gone, Pending
<1>8. QED
  BY <1>6, <1>7

\* Every step keeps what is deleted so.
LEMMA BuriedStep ==
  ASSUME TypeOK, Queued, Followed(todo), Buried, [Next]_vars
  PROVE  Buried'
<1>1. CASE Request
  <2>1. /\ UNCHANGED <<sessions, rows, turn, compacting, arriving>>
        /\ deleted' \ missed' \subseteq deleted \ missed
    BY <1>1, RequestTypes DEF tables
  <2>2. \A st : ~ Pending(st)
    BY <1>1 DEF Request, Idle, Pending, Contains
  <2>3. ASSUME NEW s \in deleted' \ missed'
        PROVE  \A i \in 1 .. Len(todo') : todo'[i][1] \in {"insert", "put"} => todo'[i][2] # s
    BY <1>1, RequestComes
  <2>4. ASSUME NEW s \in deleted' \ missed' PROVE Gone(s)'
    <3>1. Gone(s)
      BY <2>1, <2>4 DEF Buried
    <3>2. QED
      BY <2>1, <2>2, <2>3, <2>4, <3>1 DEF Gone
  <2>5. QED
    BY <2>4 DEF Buried
<1>2. CASE Turns
  <2>1. PICK x \in Sessions :
           /\ turn[x] # "none" \/ x \in compacting \/ x \notin deleted'
           /\ \A s \in Sessions \ {x} : turn'[s] = turn[s]
           /\ compacting' \subseteq compacting \cup {x}
           /\ DOMAIN sessions' \subseteq (DOMAIN sessions) \cup {x}
           /\ \A s, t : <<s, t>> \in rows' => s = x \/ <<s, t>> \in rows
           /\ deleted' \ missed' \subseteq deleted \ missed
    BY <1>2, TurnsTouch
  <2>2. UNCHANGED <<todo, arriving>> /\ deleted \subseteq Sessions
    BY <1>2, TurnsKeepTodo DEF TypeOK
  <2>3. SUFFICES ASSUME NEW s \in deleted' \ missed' PROVE Gone(s)'
    BY DEF Buried
  <2>4. s \in Sessions /\ Gone(s)
    BY <2>1, <2>2 DEF Buried
  <2>5. s # x
    BY <2>1, <2>4 DEF Gone
  <2>6. QED
    BY <2>1, <2>2, <2>4, <2>5 DEF Gone, Pending
<1>3. CASE UNCHANGED vars
  <2>1. UNCHANGED <<sessions, rows, turn, compacting, arriving, todo, deleted, missed>>
    BY <1>3 DEF vars, tables, memory, history
  <2>2. SUFFICES ASSUME NEW s \in deleted' \ missed' PROVE Gone(s)'
    BY DEF Buried
  <2>3. Gone(s)
    BY <2>1 DEF Buried
  <2>4. QED
    BY <2>1, <2>3 DEF Gone, Pending
<1>4. QED
  BY <1>1, <1>2, <1>3, StatementBuries, FailBuries, MessageBuries, RestartBuries DEF Next

-----------------------------------------------------------------------------
\* What a statement does to the agents and to the workspaces.
LEMMA AgentChanges ==
  ASSUME Queued, Statement
  PROVE  LET x == Head(todo)[2] IN
         \/ agents' = agents /\ Head(todo)[1] \notin {"mark", "unmark", "hire", "fire"}
         \/ /\ At("seed") /\ x \in Workspaces /\ ExpertOf(x) \notin DOMAIN agents
            /\ agents' = With(agents, ExpertOf(x), [workspace |-> x, default |-> FALSE])
         \/ /\ At("ensure") /\ x \in Workspaces /\ Marked(x) = {} /\ MainOf(x) \notin DOMAIN agents
            /\ agents' = With(agents, MainOf(x), [workspace |-> x, default |-> TRUE])
         \/ At("mark") /\ agents' = [agents EXCEPT ![x].default = TRUE]
         \/ At("unmark") /\ agents' = [agents EXCEPT ![x].default = FALSE]
         \/ /\ At("hire") /\ x \in UserAgents
            /\ agents' = With(agents, x, [workspace |-> Head(todo)[3], default |-> FALSE])
         \/ At("fire") /\ agents' = Without(agents, x)
<1>1. todo # <<>> /\ Args(Head(todo))
  BY Advancing, Heads
<1>2. CASE SeedPresets
  BY <1>1, <1>2 DEF SeedPresets, At, Arg, Args
<1>3. CASE EnsureDefault
  BY <1>1, <1>3 DEF EnsureDefault, At, Arg, Args
<1>4. CASE MarkAgent
  BY <1>1, <1>4 DEF MarkAgent, At, Arg, Args
<1>5. CASE ~ (SeedPresets \/ EnsureDefault \/ MarkAgent)
  BY <1>5 DEF Statement, AddWorkspace, AdoptDefault, SetColumn, DropWorkspace, OpenWorkspace,
       AnchorSession, LeaveWorkspace, ActivateSession, Reanchor, InsertSession, BindWorkspace,
       DropSession, TouchRows, RemoveRuntime, tables, At
<1>6. QED
  BY <1>2, <1>3, <1>4, <1>5

\* The same for the workspaces.
LEMMA WorkspaceChanges ==
  ASSUME Statement
  PROVE  LET x == Head(todo)[2] IN
         \/ workspaces' = workspaces /\ Head(todo)[1] \notin {"add", "adopt", "default"}
         \/ At("add") /\ workspaces' = With(workspaces, x, None)
         \/ At("adopt") /\ \E a \in Marked(x) : workspaces' = With(workspaces, x, a)
         \/ At("default") /\ workspaces' = With(workspaces, x, Head(todo)[3])
         \/ At("close") /\ workspaces' = Without(workspaces, x)
BY DEF Statement, AddWorkspace, SeedPresets, EnsureDefault, AdoptDefault, MarkAgent, SetColumn,
       DropWorkspace, OpenWorkspace, AnchorSession, LeaveWorkspace, ActivateSession, Reanchor,
       InsertSession, BindWorkspace, DropSession, TouchRows, RemoveRuntime, tables, At, Arg

\* The ids of the preset agents tell them apart.
LEMMA PresetsDiffer ==
  /\ \A v, w : MainOf(v) # ExpertOf(w)
  /\ \A v, w : MainOf(v) = MainOf(w) => v = w
BY DEF MainOf, ExpertOf

\* No step gives the Main Agent of a workspace to another.
LEMMA MainsStep ==
  ASSUME TypeOK, Queued, MainsAtHome, [Next]_vars
  PROVE  MainsAtHome'
<1>1. CASE Statement
  <2> DEFINE x == Head(todo)[2]
  <2>1. CASE agents' = agents
    BY <2>1 DEF MainsAtHome
  <2>2. ASSUME NEW k, NEW v, agents' = With(agents, k, v),
               \A w \in Workspaces : k = MainOf(w) => v.workspace = w
        PROVE  MainsAtHome'
    BY <2>2 DEF MainsAtHome, With
  <2>3. CASE \E d \in BOOLEAN : agents' = [agents EXCEPT ![x].default = d]
    <3>1. DOMAIN agents' = DOMAIN agents /\ \A a \in DOMAIN agents : agents'[a].workspace = agents[a].workspace
      BY <2>3 DEF TypeOK
    <3>2. QED
      BY <3>1 DEF MainsAtHome
  <2>4. CASE agents' = Without(agents, x)
    BY <2>4 DEF MainsAtHome, Without
  <2>5. CASE agents' = With(agents, ExpertOf(x), [workspace |-> x, default |-> FALSE])
    <3>1. \A w \in Workspaces : ExpertOf(x) # MainOf(w)
      BY PresetsDiffer
    <3>2. QED
      BY <2>2, <2>5, <3>1
  <2>6. CASE agents' = With(agents, MainOf(x), [workspace |-> x, default |-> TRUE])
    <3>1. \A w \in Workspaces : MainOf(x) = MainOf(w) => x = w
      BY PresetsDiffer
    <3>2. QED
      BY <2>2, <2>6, <3>1
  <2>7. CASE x \in UserAgents /\ agents' = With(agents, x, [workspace |-> Head(todo)[3], default |-> FALSE])
    <3>1. \A w \in Workspaces : x # MainOf(w)
      BY <2>7, CatalogAssumption DEF CatalogAssumption, Presets
    <3>2. QED
      BY <2>2, <2>7, <3>1
  <2>8. QED
    BY <1>1, <2>1, <2>3, <2>4, <2>5, <2>6, <2>7, AgentChanges
<1>2. CASE ~ Statement
  <2>1. agents' = agents
    BY <1>2, RequestTypes, TurnsKeepTodo, MessagesKeep DEF Next, Fail, Restart, tables, vars
  <2>2. QED
    BY <2>1 DEF MainsAtHome
<1>3. QED
  BY <1>1, <1>2

\* What a change of the agents does to the marks.
LEMMA MarkedWith ==
  ASSUME NEW k, NEW v, agents' = With(agents, k, v), k \notin DOMAIN agents, NEW w
  PROVE  Marked(w)' = IF v.workspace = w /\ v.default THEN Marked(w) \cup {k} ELSE Marked(w)
<1>1. /\ DOMAIN agents' = (DOMAIN agents) \cup {k} /\ agents'[k] = v
      /\ \A a \in DOMAIN agents : agents'[a] = agents[a]
  BY DEF With
<1>2. QED
  BY <1>1 DEF Marked

\* Taking an agent away takes its mark.
LEMMA MarkedWithout ==
  ASSUME NEW k, agents' = Without(agents, k), NEW w
  PROVE  Marked(w)' = Marked(w) \ {k}
<1>1. /\ DOMAIN agents' = (DOMAIN agents) \ {k}
      /\ \A a \in (DOMAIN agents) \ {k} : agents'[a] = agents[a]
  BY DEF Without
<1>2. QED
  BY <1>1 DEF Marked

\* Marking or unmarking an agent moves that mark only.
LEMMA MarkedExcept ==
  ASSUME TypeOK, NEW k \in DOMAIN agents, NEW d \in BOOLEAN,
         agents' = [agents EXCEPT ![k].default = d]
  PROVE  /\ DOMAIN agents' = DOMAIN agents
         /\ \A a \in DOMAIN agents : agents'[a].workspace = agents[a].workspace
         /\ d = TRUE => \A w : Marked(w)' = IF agents[k].workspace = w THEN Marked(w) \cup {k} ELSE Marked(w)
         /\ d = FALSE => \A w : Marked(w)' = Marked(w) \ {k}
<1>1. /\ DOMAIN agents' = DOMAIN agents
      /\ \A a \in DOMAIN agents : a # k => agents'[a] = agents[a]
      /\ agents'[k].workspace = agents[k].workspace /\ agents'[k].default = d
  BY DEF TypeOK
<1>2. QED
  BY <1>1 DEF Marked

\* The parts of Marks.
AllHarmless == \A i \in 1 .. Len(todo) : Harmless(todo[i])
Settled == OneMark /\ Agreed /\ (todo \in Seq(Tidying) \/ AllHarmless)
Changing ==
  /\ OneMark
  /\ \E w \in Workspaces :
       /\ AgreedBut(w)
       /\ Creating(w) \/ (\E a \in DOMAIN agents : agents[a].workspace = w /\ Defaulting(w, a))
\* Marks, in these words.
LEMMA MarksBy == (Marks <=> ("agents" \notin failed => Settled \/ Changing))
                 /\ (Marks' <=> ("agents" \notin failed' => Settled' \/ Changing'))
BY DEF Marks, Settled, Changing, AllHarmless

\* What is harmless stays so.
LEMMA HarmlessRest ==
  ASSUME AllHarmless, DOMAIN workspaces \subseteq DOMAIN workspaces',
         Len(todo) = 1 => todo' = <<>>,
         \A i \in 1 .. Len(todo') :
           todo'[i] = <<"activate", None>> \/ \E j \in 1 .. Len(todo) : todo'[i] = todo[j]
  PROVE  AllHarmless'
<1> SUFFICES ASSUME NEW i \in 1 .. Len(todo'), NEW st, st = todo'[i] PROVE Harmless(st)'
  BY DEF AllHarmless
<1>1. Len(todo) # 1
  OBVIOUS
<1>2. CASE st = <<"activate", None>>
  <2>1. st[1] = "activate"
    BY <1>2
  <2>2. QED
    BY <2>1 DEF Harmless
<1>3. CASE \E j \in 1 .. Len(todo) : st = todo[j]
  <2>1. Harmless(st)
    BY <1>3 DEF AllHarmless
  <2>2. QED
    BY <1>1, <2>1 DEF Harmless
<1>4. QED
  BY <1>2, <1>3

\* A statement that is harmless, or of a delete, leaves the defaults in agreement.
LEMMA SettledStatement ==
  ASSUME TypeOK, Queued, Followed(todo), Settled, Statement
  PROVE  Settled'
<1>1. todo # <<>> /\ Head(todo) = todo[1] /\ 1 \in 1 .. Len(todo) /\ Remains(Head(todo), Tail(todo))
  BY Advancing, Heads DEF Remains
<1>2. CASE todo \in Seq(Tidying)
  <2>1. ~ At("ensure")
    BY <1>1, <1>2, Heads DEF At, Makes
  <2>2. todo' \in Seq(Tidying)
    BY <1>1, <1>2, <2>1, Advancing, Heads, LeaveIsTidy
  <2>3. agents' = agents
    BY <1>2, TakingChanges
  <2>4. workspaces' = workspaces \/ \E w : workspaces' = Without(workspaces, w)
    BY <1>2, TakingChanges DEF Untouched
  <2>5. \A w : Marked(w)' = Marked(w)
    BY <2>3 DEF Marked
  <2>6. /\ DOMAIN workspaces' \subseteq DOMAIN workspaces
        /\ \A w \in DOMAIN workspaces' : workspaces'[w] = workspaces[w]
    BY <2>4 DEF Without
  <2>7. OneMark' /\ Agreed'
    BY <2>5, <2>6 DEF Settled, OneMark, Agreed, Fits, Bare
  <2>8. QED
    BY <2>2, <2>7 DEF Settled
<1>3. CASE todo \in Seq(Making) /\ AllHarmless
  <2> DEFINE x == Head(todo)[2]
  <2>1. Harmless(Head(todo)) /\ Agreed /\ OneMark
    BY <1>1, <1>3 DEF AllHarmless, Settled
  <2>2. DOMAIN workspaces \subseteq DOMAIN workspaces'
    BY <1>3, MakingChanges
  <2>3. ~ At("leave") /\ ~ At("close")
    BY <1>1, <1>3, Heads DEF At, Takes
  <2>4. Len(todo) = 1 => todo' = <<>>
    <3>1. CASE todo' = Tail(todo)
      <4>1. Len(todo) = 1 => Len(Tail(todo)) = 0
        BY <1>1 DEF Remains
      <4>2. Tail(todo) \in Seq(Making)
        BY <1>1, <1>3, Heads
      <4>3. QED
        BY <3>1, <4>1, <4>2, EmptySeq
    <3>2. CASE At("ensure")
      <4>1. Tail(todo) # <<>> /\ Tail(todo) \in Seq(Making)
        BY <1>1, <1>3, <3>2, AdoptIsNext, Heads
      <4>2. Len(Tail(todo)) # 0
        BY <4>1, EmptySeq
      <4>3. QED
        BY <1>1, <4>2 DEF Remains
    <3>3. QED
      BY <2>3, <3>1, <3>2, Advancing
  <2>5. AllHarmless'
    BY <1>3, <2>2, <2>4, LeftAfter, HarmlessRest
  <2>6. \/ \A w : Marked(w)' = Marked(w)
        \/ /\ At("ensure") /\ x \in DOMAIN workspaces /\ Marked(x) = {}
           /\ \A w : Marked(w)' = IF w = x THEN {MainOf(x)} ELSE Marked(w)
    <3>1. CASE agents' = agents
      BY <3>1 DEF Marked
    <3>2. CASE /\ At("seed") /\ ExpertOf(x) \notin DOMAIN agents
               /\ agents' = With(agents, ExpertOf(x), [workspace |-> x, default |-> FALSE])
      BY <3>2, MarkedWith
    <3>3. CASE /\ At("ensure") /\ Marked(x) = {} /\ MainOf(x) \notin DOMAIN agents
               /\ agents' = With(agents, MainOf(x), [workspace |-> x, default |-> TRUE])
      <4>1. x \in DOMAIN workspaces
        BY <2>1, <3>3 DEF Harmless, At
      <4>2. \A w : Marked(w)' = IF w = x THEN {MainOf(x)} ELSE Marked(w)
        BY <3>3, MarkedWith
      <4>3. QED
        BY <3>3, <4>1, <4>2
    <3>4. CASE At("mark") \/ At("unmark")
      BY <2>1, <3>4 DEF Harmless, At
    <3>5. CASE At("hire") /\ agents' = With(agents, x, [workspace |-> Head(todo)[3], default |-> FALSE])
      <4>1. x \notin DOMAIN agents
        BY <2>1, <3>5 DEF Harmless, At
      <4>2. QED
        BY <3>5, <4>1, MarkedWith
    <3>6. CASE At("fire") /\ agents' = Without(agents, x)
      <4>1. x \in DOMAIN agents /\ ~ agents[x].default
        BY <2>1, <3>6 DEF Harmless, At
      <4>2. \A w : x \notin Marked(w)
        BY <4>1 DEF Marked
      <4>3. QED
        BY <3>6, <4>2, MarkedWithout
    <3>7. QED
      BY <3>1, <3>2, <3>3, <3>4, <3>5, <3>6, AgentChanges
  <2>7. OneMark'
    BY <2>1, <2>6 DEF OneMark
  <2>8. \/ workspaces' = workspaces
        \/ /\ At("adopt") /\ x \in DOMAIN workspaces
           /\ \E a \in Marked(x) : workspaces' = With(workspaces, x, a)
    <3>1. CASE At("add") \/ At("default")
      BY <2>1, <3>1 DEF Harmless, At
    <3>2. CASE At("adopt")
      BY <2>1, <3>2, WorkspaceChanges DEF Harmless, At
    <3>3. QED
      BY <2>3, <3>1, <3>2, WorkspaceChanges
  <2>9. Agreed'
    <3>1. CASE workspaces' = workspaces /\ \A w : Marked(w)' = Marked(w)
      BY <2>1, <3>1 DEF Agreed, Fits, Bare
    <3>2. CASE /\ workspaces' = workspaces /\ x \in DOMAIN workspaces /\ Marked(x) = {}
               /\ \A w : Marked(w)' = IF w = x THEN {MainOf(x)} ELSE Marked(w)
      <4>1. Bare(x)
        BY <2>1, <3>2 DEF Agreed, Fits
      <4>2. QED
        BY <2>1, <3>2, <4>1 DEF Agreed, Fits, Bare
    <3>3. ASSUME At("adopt"), x \in DOMAIN workspaces, NEW a \in Marked(x),
                 workspaces' = With(workspaces, x, a)
          PROVE  Agreed'
      <4>1. \A w : Marked(w)' = Marked(w)
        BY <2>6, <3>3 DEF At
      <4>2. Marked(x) = {a}
        BY <2>1, <3>3 DEF Agreed, Fits, Bare, OneMark
      <4>3. /\ DOMAIN workspaces' = DOMAIN workspaces /\ workspaces'[x] = a
            /\ \A w \in DOMAIN workspaces : w # x => workspaces'[w] = workspaces[w]
        BY <3>3 DEF With
      <4>4. QED
        BY <2>1, <4>1, <4>2, <4>3 DEF Agreed, Fits, Bare
    <3>4. ~ (At("adopt") /\ At("ensure"))
      BY DEF At
    <3>5. QED
      BY <2>6, <2>8, <3>1, <3>2, <3>3, <3>4
  <2>10. QED
    BY <2>5, <2>7, <2>9 DEF Settled
<1>4. QED
  BY <1>2, <1>3 DEF Settled, Queued

\* Creating a workspace and giving it another default end with the defaults in agreement.
LEMMA Tails ==
  /\ \A p, q : Tail(<<p, q>>) = <<q>> /\ Head(<<p, q>>) = p /\ <<p, q>> # <<>>
  /\ \A p, q, r : Tail(<<p, q, r>>) = <<q, r>> /\ Head(<<p, q, r>>) = p
  /\ \A p, q, r, s : Tail(<<p, q, r, s>>) = <<q, r, s>> /\ Head(<<p, q, r, s>>) = p
  /\ \A p : Tail(<<p>>) = <<>> /\ Head(<<p>>) = p
OBVIOUS

\* With nothing left to do, agreement is all there is.
LEMMA Ends ==
  ASSUME OneMark', Agreed', todo' = <<>>
  PROVE  Settled'
BY DEF Settled, AllHarmless

\* Each statement of a new workspace leads to the next shape, the last to agreement.
LEMMA CreatingStatement ==
  ASSUME TypeOK, Queued, Statement, OneMark, NEW w \in Workspaces, AgreedBut(w), Creating(w)
  PROVE  Settled' \/ Changing'
<1> DEFINE one == << <<"add", w>>, <<"seed", w>>, <<"ensure", w>>, <<"adopt", w>> >>
           two == << <<"seed", w>>, <<"ensure", w>>, <<"adopt", w>> >>
           three == << <<"ensure", w>>, <<"adopt", w>> >>
           four == << <<"adopt", w>> >>
<1>1. /\ Head(one) = <<"add", w>> /\ Tail(one) = two
      /\ Head(two) = <<"seed", w>> /\ Tail(two) = three
      /\ Head(three) = <<"ensure", w>> /\ Tail(three) = four
      /\ Head(four) = <<"adopt", w>> /\ Tail(four) = <<>>
  BY Tails
<1>2. /\ Creating(w) <=>
           \/ Unmarked(w) /\ (todo = one \/ todo = two \/ todo = three)
           \/ Marked(w) = {MainOf(w)} /\ todo = four
      /\ Creating(w)' <=>
           \/ Unmarked(w)' /\ (todo' = one \/ todo' = two \/ todo' = three)
           \/ Marked(w)' = {MainOf(w)} /\ todo' = four
  BY DEF Creating
<1> HIDE DEF one, two, three, four
<1>3. ASSUME OneMark', AgreedBut(w)', Creating(w)' PROVE Changing'
  BY <1>3 DEF Changing
<1>4. CASE todo = one /\ Unmarked(w)
  <2>1. todo' = two /\ workspaces' = With(workspaces, w, None) /\ agents' = agents
    <3>1. todo # <<>> /\ Head(todo) = <<"add", w>>
      BY <1>1, <1>4, Advancing
    <3>2. Head(todo)[1] = "add" /\ Head(todo)[2] = w
      BY <3>1
    <3>3. todo' = Tail(todo)
      BY <3>2, Advancing DEF At
    <3>4. QED
      BY <1>1, <1>4, <3>2, <3>3, AgentChanges, WorkspaceChanges DEF At
  <2>2. OneMark' /\ AgreedBut(w)'
    BY <2>1 DEF OneMark, AgreedBut, Fits, Bare, With, Marked
  <2>3. Unmarked(w)'
    BY <1>4, <2>1 DEF Unmarked, Marked
  <2>4. QED
    BY <1>2, <1>3, <2>1, <2>2, <2>3
<1>5. CASE todo = two /\ Unmarked(w)
  <2>1. /\ todo' = three /\ workspaces' = workspaces
        /\ \/ agents' = agents
           \/ /\ ExpertOf(w) \notin DOMAIN agents
              /\ agents' = With(agents, ExpertOf(w), [workspace |-> w, default |-> FALSE])
    <3>1. todo # <<>> /\ Head(todo) = <<"seed", w>>
      BY <1>1, <1>5, Advancing
    <3>2. Head(todo)[1] = "seed" /\ Head(todo)[2] = w
      BY <3>1
    <3>3. todo' = Tail(todo)
      BY <3>2, Advancing DEF At
    <3>4. QED
      BY <1>1, <1>5, <3>2, <3>3, AgentChanges, WorkspaceChanges DEF At
  <2>2. \A v : Marked(v)' = Marked(v)
    <3>1. CASE agents' = agents
      BY <3>1 DEF Marked
    <3>2. CASE agents' # agents
      BY <2>1, <3>2, MarkedWith
    <3>3. QED
      BY <3>1, <3>2
  <2>3. MainOf(w) \notin DOMAIN agents'
    BY <1>5, <2>1, PresetsDiffer DEF Unmarked, With
  <2>4. OneMark' /\ AgreedBut(w)'
    BY <2>1, <2>2 DEF OneMark, AgreedBut, Fits, Bare
  <2>5. Unmarked(w)'
    BY <1>5, <2>2, <2>3 DEF Unmarked
  <2>6. QED
    BY <1>2, <1>3, <2>1, <2>4, <2>5
<1>6. CASE todo = three /\ Unmarked(w)
  <2>1. At("ensure") /\ Arg(2) = w /\ Marked(w) = {} /\ MainOf(w) \notin DOMAIN agents
    BY <1>1, <1>6, Advancing DEF At, Arg, Unmarked
  <2>2. EnsureDefault
    BY <2>1 DEF Statement, At, AddWorkspace, SeedPresets, AdoptDefault, MarkAgent, SetColumn,
       DropWorkspace, OpenWorkspace, AnchorSession, LeaveWorkspace, ActivateSession, Reanchor,
       InsertSession, BindWorkspace, DropSession, TouchRows, RemoveRuntime
  <2>3. /\ todo' = Tail(todo) /\ workspaces' = workspaces
        /\ agents' = With(agents, MainOf(w), [workspace |-> w, default |-> TRUE])
    BY <2>1, <2>2 DEF EnsureDefault, Done
  <2>4. \A v : Marked(v)' = IF v = w THEN {MainOf(w)} ELSE Marked(v)
    BY <2>1, <2>3, MarkedWith
  <2>5. OneMark' /\ AgreedBut(w)'
    BY <2>3, <2>4 DEF OneMark, AgreedBut, Fits, Bare
  <2>6. QED
    BY <1>1, <1>2, <1>3, <1>6, <2>3, <2>4, <2>5
<1>7. CASE todo = four /\ Marked(w) = {MainOf(w)}
  <2>1. todo' = <<>> /\ workspaces' = With(workspaces, w, MainOf(w)) /\ agents' = agents
    <3>1. todo # <<>> /\ Head(todo) = <<"adopt", w>>
      BY <1>1, <1>7, Advancing
    <3>2. Head(todo)[1] = "adopt" /\ Head(todo)[2] = w
      BY <3>1
    <3>3. todo' = Tail(todo)
      BY <3>2, Advancing DEF At
    <3>4. QED
      BY <1>1, <1>7, <3>2, <3>3, AgentChanges, WorkspaceChanges DEF At
  <2>2. OneMark' /\ Agreed'
    BY <1>7, <2>1 DEF OneMark, AgreedBut, Agreed, Fits, Bare, Marked, With
  <2>3. QED
    BY <2>1, <2>2, Ends
<1>8. QED
  BY <1>2, <1>4, <1>5, <1>6, <1>7

\* The same for another default: the mark is taken, given, and then named.
LEMMA DefaultingStatement ==
  ASSUME TypeOK, Queued, Statement, OneMark, NEW w \in Workspaces, AgreedBut(w),
         NEW a \in DOMAIN agents, agents[a].workspace = w, Defaulting(w, a)
  PROVE  Settled' \/ Changing'
<1> DEFINE one(p) == << <<"unmark", p>>, <<"mark", a>>, <<"default", w, a>> >>
           two == << <<"mark", a>>, <<"default", w, a>> >>
           three == << <<"default", w, a>> >>
<1>1. /\ \A p : Head(one(p)) = <<"unmark", p>> /\ Tail(one(p)) = two
      /\ Head(two) = <<"mark", a>> /\ Tail(two) = three
      /\ Head(three) = <<"default", w, a>> /\ Tail(three) = <<>>
  BY Tails
<1>2. /\ Defaulting(w, a) <=>
           \/ \E p \in DOMAIN agents : p # a /\ Marked(w) = {p} /\ todo = one(p)
           \/ Marked(w) = {} /\ todo = two
           \/ Marked(w) = {a} /\ todo = three
      /\ Defaulting(w, a)' <=>
           \/ \E p \in DOMAIN agents' : p # a /\ Marked(w)' = {p} /\ todo' = one(p)
           \/ Marked(w)' = {} /\ todo' = two
           \/ Marked(w)' = {a} /\ todo' = three
  BY DEF Defaulting
<1> HIDE DEF one, two, three
<1>3. ASSUME OneMark', AgreedBut(w)', a \in DOMAIN agents', agents'[a].workspace = w, Defaulting(w, a)'
      PROVE  Changing'
  BY <1>3 DEF Changing
<1>4. ASSUME NEW p \in DOMAIN agents, p # a, Marked(w) = {p}, todo = one(p)
      PROVE  Changing'
  <2>1. /\ todo' = two /\ workspaces' = workspaces
        /\ agents' = [agents EXCEPT ![p].default = FALSE]
    BY <1>1, <1>4, Advancing, AgentChanges, WorkspaceChanges DEF At
  <2>2. /\ DOMAIN agents' = DOMAIN agents /\ agents'[a].workspace = w
        /\ \A v : Marked(v)' = Marked(v) \ {p}
    BY <2>1, MarkedExcept
  <2>3. \A v : v # w => p \notin Marked(v)
    BY <1>4 DEF Marked
  <2>4. OneMark' /\ AgreedBut(w)'
    BY <2>1, <2>2, <2>3 DEF OneMark, AgreedBut, Fits, Bare
  <2>5. Defaulting(w, a)'
    BY <1>2, <1>4, <2>1, <2>2
  <2>6. QED
    BY <1>3, <2>2, <2>4, <2>5
<1>5. CASE Marked(w) = {} /\ todo = two
  <2>1. /\ todo' = three /\ workspaces' = workspaces
        /\ agents' = [agents EXCEPT ![a].default = TRUE]
    <3>1. todo # <<>> /\ Head(todo) = <<"mark", a>>
      BY <1>1, <1>5, Advancing
    <3>2. Head(todo)[1] = "mark" /\ Head(todo)[2] = a
      BY <3>1
    <3>3. todo' = Tail(todo)
      BY <3>2, Advancing DEF At
    <3>4. QED
      BY <1>1, <1>5, <3>2, <3>3, AgentChanges, WorkspaceChanges DEF At
  <2>2. /\ DOMAIN agents' = DOMAIN agents /\ agents'[a].workspace = w
        /\ \A v : Marked(v)' = IF v = w THEN Marked(v) \cup {a} ELSE Marked(v)
    BY <2>1, MarkedExcept
  <2>3. OneMark' /\ AgreedBut(w)'
    BY <1>5, <2>1, <2>2 DEF OneMark, AgreedBut, Fits, Bare
  <2>4. Defaulting(w, a)'
    BY <1>2, <1>5, <2>1, <2>2
  <2>5. QED
    BY <1>3, <2>2, <2>3, <2>4
<1>6. CASE Marked(w) = {a} /\ todo = three
  <2>1. todo' = <<>> /\ workspaces' = With(workspaces, w, a) /\ agents' = agents
    BY <1>1, <1>6, Advancing, AgentChanges, WorkspaceChanges DEF At
  <2>2. OneMark' /\ Agreed'
    BY <1>6, <2>1 DEF OneMark, AgreedBut, Agreed, Fits, Bare, Marked, With
  <2>3. QED
    BY <2>1, <2>2, Ends
<1>7. QED
  BY <1>2, <1>4, <1>5, <1>6

\* Halfway through, the next statement is about the agents.
LEMMA ChangingIsAboutAgents ==
  ASSUME Changing
  PROVE  /\ todo # <<>> /\ Head(todo) = todo[1] /\ 1 \in DOMAIN todo
         /\ Head(todo)[1] \in {"add", "seed", "ensure", "adopt", "mark", "unmark", "default"}
<1>1. PICK w \in Workspaces :
        Creating(w) \/ \E a \in DOMAIN agents : Defaulting(w, a)
  BY DEF Changing
<1>2. CASE Creating(w)
  BY <1>2 DEF Creating
<1>3. CASE \E a \in DOMAIN agents : Defaulting(w, a)
  BY <1>3 DEF Defaulting
<1>4. QED
  BY <1>1, <1>2, <1>3

\* A request finds the defaults in agreement.
LEMMA RequestMarks ==
  ASSUME TypeOK, MainsAtHome, Settled \/ Changing, Request, "agents" \notin failed'
  PROVE  Settled' \/ Changing'
<1>1. todo = <<>> /\ OneMark /\ Agreed /\ UNCHANGED <<workspaces, agents>>
  <2>1. todo = <<>> /\ UNCHANGED <<workspaces, agents>>
    BY RequestTypes DEF Request, Idle, tables
  <2>2. ~ Changing
    BY <2>1, ChangingIsAboutAgents
  <2>3. QED
    BY <2>1, <2>2 DEF Settled
<1>2. OneMark' /\ Agreed' /\ \A v : Marked(v)' = Marked(v) /\ (AgreedBut(v)' <=> AgreedBut(v))
  BY <1>1 DEF OneMark, Agreed, AgreedBut, Fits, Bare, Marked
<1>3. \A v : AgreedBut(v)'
  BY <1>1, <1>2 DEF Agreed, AgreedBut
<1>4. ASSUME todo' \in Seq(Tidying) PROVE Settled'
  BY <1>2, <1>4 DEF Settled
<1>5. ASSUME \A i \in 1 .. Len(todo') : todo'[i][1] \in {"open", "anchor", "insert", "bind", "activate", "put"}
      PROVE  Settled'
  BY <1>2, <1>5 DEF Settled, AllHarmless, Harmless
<1>6. ASSUME NEW w \in Workspaces, CreateWorkspace(w) PROVE Changing'
  <2>1. Unmarked(w)
    BY <1>6 DEF CreateWorkspace, MainsAtHome, Unmarked, Marked
  <2>2. Unmarked(w)'
    BY <1>1, <1>2, <2>1 DEF Unmarked
  <2>3. Creating(w)'
    BY <1>6, <2>2 DEF CreateWorkspace, Serve, Creating
  <2>4. QED
    BY <1>2, <1>3, <2>3 DEF Changing
<1>7. ASSUME NEW w, SetActiveWorkspace(w) PROVE Settled'
  BY <1>5, <1>7 DEF SetActiveWorkspace, Serve
<1>8. ASSUME NEW w \in Workspaces, DeleteWorkspace(w) PROVE Settled'
  BY <1>4, <1>8, ClosingQueue
<1>9. ASSUME NEW s, NEW w, BindSessionWorkspace(s, w) PROVE Settled'
  BY <1>5, <1>9 DEF BindSessionWorkspace, Serve
<1>10. ASSUME NEW s, NEW w, NEW asked, CreateSession(s, w, asked) PROVE Settled'
  <2>1. PICK a : todo' = << <<"insert", s, a>>, <<"bind", s, w>>, <<"activate", s>> >>
    BY <1>10 DEF CreateSession
  <2>2. QED
    BY <1>5, <2>1
<1>11. ASSUME NEW a \in UserAgents, NEW w, CreateAgent(a, w) PROVE Settled'
  <2>1. todo' = << <<"hire", a, w>> >> /\ a \notin DOMAIN agents'
    BY <1>1, <1>11 DEF CreateAgent, Serve
  <2>2. AllHarmless'
    BY <2>1 DEF AllHarmless, Harmless
  <2>3. QED
    BY <1>2, <2>2 DEF Settled
<1>12. ASSUME NEW w \in Workspaces, NEW a \in AgentIds, UpdateDefaultAgent(w, a) PROVE Changing'
  <2>1. /\ w \in DOMAIN workspaces /\ a \in DOMAIN agents
        /\ agents[a].workspace = w /\ a \notin Marked(w)
    BY <1>12 DEF UpdateDefaultAgent
  <2>2. PICK p \in HeadOf(Marked(w)) :
          todo' = (IF p = None THEN <<>> ELSE << <<"unmark", p>> >>)
                  \o << <<"mark", a>>, <<"default", w, a>> >>
    BY <1>12 DEF UpdateDefaultAgent, Serve
  <2> DEFINE short == << <<"mark", a>>, <<"default", w, a>> >>
  <2>3. CASE Marked(w) = {}
    <3>1. p = None /\ todo' = short
      <4>1. p = None
        BY <2>3 DEF HeadOf
      <4>2. short \in Seq(Making)
        BY ShortQueues
      <4> HIDE DEF short
      <4>3. <<>> \o short = short
        BY <4>2, ConcatEmptySeq
      <4>4. QED
        BY <2>2, <4>1, <4>3 DEF short
    <3>2. Defaulting(w, a)'
      BY <1>2, <2>3, <3>1 DEF Defaulting
    <3>3. QED
      BY <1>1, <1>2, <1>3, <2>1, <3>2 DEF Changing
  <2>4. CASE Marked(w) # {}
    <3>1. p \in Marked(w) /\ Marked(w) = {p}
      BY <1>1, <2>1, <2>2, <2>4 DEF HeadOf, Agreed, Fits, Bare, OneMark
    <3>2. p \in DOMAIN agents /\ p \in AgentIds /\ p # a
      BY <2>1, <3>1 DEF Marked, TypeOK
    <3>3. p # None
      BY <3>2, CatalogAssumption DEF CatalogAssumption, AgentIds
    <3>4. todo' = << <<"unmark", p>>, <<"mark", a>>, <<"default", w, a>> >>
      BY <2>2, <3>2, <3>3, UnmarkFirst
    <3>5. Defaulting(w, a)'
      BY <1>1, <1>2, <3>1, <3>2, <3>4 DEF Defaulting
    <3>6. QED
      BY <1>1, <1>2, <1>3, <2>1, <3>5 DEF Changing
  <2>5. QED
    BY <2>3, <2>4
<1>13. ASSUME NEW w, NEW a, UpdateDefaultBlind(w, a) PROVE FALSE
  BY <1>13 DEF UpdateDefaultBlind
<1>14. ASSUME NEW s, SetActiveSession(s) \/ ImportFiles(s) \/ SaveMessage(s) PROVE Settled'
  <2>1. todo' = << <<"activate", s>> >> \/ \E table : todo' = << <<"put", s, table>> >>
    BY <1>14 DEF SetActiveSession, ImportFiles, SaveMessage, Put
  <2>2. QED
    BY <1>5, <2>1
<1>15. ASSUME NEW s \in Sessions, DeleteSession(s) PROVE Settled'
  BY <1>4, <1>15, Deleting DEF DeleteSession, Serve, Deletes
<1>16. ASSUME NEW a \in UserAgents, DeleteAgent(a) PROVE Settled'
  <2>1. todo' = << <<"fire", a>> >> /\ a \in DOMAIN agents' /\ ~ agents'[a].default
    BY <1>1, <1>16 DEF DeleteAgent, Serve
  <2>2. AllHarmless'
    BY <2>1 DEF AllHarmless, Harmless
  <2>3. QED
    BY <1>2, <2>2 DEF Settled
<1>17. QED
  BY <1>6, <1>7, <1>8, <1>9, <1>10, <1>11, <1>12, <1>13, <1>14, <1>15, <1>16 DEF Request

\* A change of the agents that is cut short is on record.
LEMMA ChangingLost ==
  ASSUME Changing, NEW lost, Lose(lost), 1 \in DOMAIN lost, lost[1] = Head(todo)
  PROVE  "agents" \in failed'
<1>1. About(lost[1]) = "agents"
  BY ChangingIsAboutAgents DEF About
<1>2. QED
  BY <1>1 DEF Lose

\* A statement that fails and is not about agents leaves the defaults in agreement.
LEMMA FailMarks ==
  ASSUME TypeOK, Queued, Followed(todo), Settled \/ Changing, Fail, "agents" \notin failed'
  PROVE  Settled'
<1>1. todo # <<>> /\ UNCHANGED <<workspaces, agents>> /\ Remains(Head(todo), Tail(todo))
  BY Heads DEF Fail, tables
<1>2. \/ Lose(todo) /\ todo' = <<>>
      \/ Lose(<<Head(todo)>>) /\ todo' = Tail(todo)
  BY DEF Fail
<1>3. ~ Changing
  <2>1. 1 \in DOMAIN <<Head(todo)>> /\ <<Head(todo)>>[1] = Head(todo)
    OBVIOUS
  <2>2. QED
    BY <1>2, <2>1, ChangingLost, ChangingIsAboutAgents
<1>4. Settled /\ OneMark' /\ Agreed'
  BY <1>1, <1>3 DEF Settled, OneMark, Agreed, Fits, Bare, Marked
<1>5. CASE todo' = <<>>
  BY <1>4, <1>5, Ends
<1>6. CASE todo' = Tail(todo) /\ todo \in Seq(Tidying)
  BY <1>1, <1>4, <1>6, Heads DEF Settled
<1>7. CASE todo' = Tail(todo) /\ AllHarmless /\ todo \in Seq(Making)
  <2>1. Len(todo) = 1 => todo' = <<>>
    <3>1. Len(todo) = 1 => Len(Tail(todo)) = 0
      BY <1>1 DEF Remains
    <3>2. Tail(todo) \in Seq(Making)
      BY <1>1, <1>7, Heads
    <3>3. QED
      BY <1>7, <3>1, <3>2, EmptySeq
  <2>2. \A i \in 1 .. Len(todo') : \E j \in 1 .. Len(todo) : todo'[i] = todo[j]
    BY <1>1, <1>7 DEF Remains
  <2>3. AllHarmless'
    BY <1>1, <1>7, <2>1, <2>2, HarmlessRest
  <2>4. QED
    BY <1>4, <2>3 DEF Settled
<1>8. QED
  BY <1>2, <1>4, <1>5, <1>6, <1>7 DEF Settled, Queued

\* So does a restart.
LEMMA RestartMarks ==
  ASSUME TypeOK, Settled \/ Changing, Restart, "agents" \notin failed'
  PROVE  Settled'
<1>1. UNCHANGED <<workspaces, agents>> /\ Lose(todo)
  BY DEF Restart, tables
<1>2. ~ Changing
  BY <1>1, ChangingLost, ChangingIsAboutAgents
<1>3. OneMark' /\ Agreed'
  BY <1>1, <1>2 DEF Settled, OneMark, Agreed, Fits, Bare, Marked
<1>4. PICK order \in SetToSeqs(DOMAIN workspaces) :
        todo' = FlattenSeq([i \in DOMAIN order |->
          << <<"seed", order[i]>>, <<"ensure", order[i]>>, <<"adopt", order[i]>> >>])
  BY DEF Restart
<1>5. todo' \in Boots(DOMAIN workspaces)
  BY <1>4, Booting DEF TypeOK
<1>6. \A i \in 1 .. Len(todo') :
        todo'[i][1] \in {"seed", "ensure", "adopt"} /\ todo'[i][2] \in DOMAIN workspaces'
  BY <1>1, <1>5 DEF Boots
<1>7. AllHarmless'
  BY <1>6 DEF AllHarmless, Harmless
<1>8. QED
  BY <1>3, <1>7 DEF Settled

\* What moves neither the queue nor the two tables moves no mark.
LEMMA MarksStay ==
  ASSUME UNCHANGED <<todo, workspaces, agents>>, Settled \/ Changing
  PROVE  Settled' \/ Changing'
<1>1. CASE Settled
  BY <1>1 DEF Settled, OneMark, Agreed, Fits, Bare, Marked, AllHarmless, Harmless
<1>2. CASE Changing
  BY <1>2 DEF Changing, OneMark, AgreedBut, Fits, Bare, Creating, Defaulting, Unmarked, Marked
<1>3. QED
  BY <1>1, <1>2

\* A message of a peer makes a workspace without a default, and moves no mark.
LEMMA MessageMarks ==
  ASSUME PeerMessages, Settled \/ Changing
  PROVE  Settled' \/ Changing'
<1>1. CASE workspaces' = workspaces
  BY <1>1, MessagesKeep, MarksStay
<1>2. ASSUME NEW x \in ImWorkspaces \ DOMAIN workspaces, workspaces' = With(workspaces, x, None)
      PROVE  Settled' \/ Changing'
  <2>1. UNCHANGED <<todo, agents>> /\ \A w : Marked(w)' = Marked(w)
    BY MessagesKeep DEF Marked
  <2>2. /\ DOMAIN workspaces' = (DOMAIN workspaces) \cup {x} /\ workspaces'[x] = None
        /\ \A w \in DOMAIN workspaces : workspaces'[w] = workspaces[w]
    BY <1>2 DEF With
  <2>3. Fits(x)' /\ \A w \in DOMAIN workspaces : Fits(w) => Fits(w)'
    BY <2>1, <2>2 DEF Fits, Bare
  <2>4. OneMark => OneMark'
    BY <2>1 DEF OneMark
  <2>5. CASE Settled
    <3>1. Agreed'
      BY <2>2, <2>3, <2>5 DEF Settled, Agreed
    <3>2. AllHarmless => AllHarmless'
      BY <2>1, <2>2 DEF AllHarmless, Harmless
    <3>3. QED
      BY <2>1, <2>4, <2>5, <3>1, <3>2 DEF Settled
  <2>6. CASE Changing
    <3>1. PICK w \in Workspaces :
            /\ AgreedBut(w)
            /\ Creating(w) \/ (\E a \in DOMAIN agents : agents[a].workspace = w /\ Defaulting(w, a))
      BY <2>6 DEF Changing
    <3>2. AgreedBut(w)'
      BY <2>2, <2>3, <3>1 DEF AgreedBut
    <3>3. Creating(w) => Creating(w)'
      BY <2>1 DEF Creating, Unmarked
    <3>4. \A a : Defaulting(w, a) => Defaulting(w, a)'
      BY <2>1 DEF Defaulting
    <3>5. QED
      BY <2>1, <2>4, <2>6, <3>1, <3>2, <3>3, <3>4 DEF Changing
  <2>7. QED
    BY <2>5, <2>6
<1>3. QED
  BY <1>1, <1>2, MessagesKeep

\* Every step keeps the marks.
LEMMA MarksStep ==
  ASSUME TypeOK, Queued, Followed(todo), MainsAtHome, Marks, [Next]_vars
  PROVE  Marks'
<1>1. SUFFICES ASSUME "agents" \notin failed' PROVE Settled' \/ Changing'
  BY MarksBy
<1>2. Settled \/ Changing
  BY <1>1, FailuresStay, MarksBy
<1>3. CASE Statement
  <2>1. CASE Changing
    <3>1. PICK w \in Workspaces :
            /\ AgreedBut(w)
            /\ Creating(w) \/ (\E a \in DOMAIN agents : agents[a].workspace = w /\ Defaulting(w, a))
      BY <2>1 DEF Changing
    <3>2. OneMark
      BY <2>1 DEF Changing
    <3>3. QED
      BY <1>3, <3>1, <3>2, CreatingStatement, DefaultingStatement
  <2>2. QED
    BY <1>2, <1>3, <2>1, SettledStatement
<1>4. CASE Turns \/ UNCHANGED vars
  <2>1. UNCHANGED <<todo, workspaces, agents>>
    BY <1>4, TurnsKeepTodo DEF vars, tables
  <2>2. QED
    BY <1>2, <2>1, MarksStay
<1>5. QED
  BY <1>1, <1>2, <1>3, <1>4, RequestMarks, FailMarks, MessageMarks, RestartMarks DEF Next

-----------------------------------------------------------------------------
\* The invariant, and what follows from it.
LEMMA InitCatalog == Init => CatalogInv
<1> SUFFICES ASSUME Init PROVE CatalogInv
  OBVIOUS
<1>1. /\ workspaces = Nothing /\ agents = Nothing /\ sessions = Nothing /\ DOMAIN Nothing = {}
      /\ todo = <<>> /\ Len(todo) = 0 /\ deleted = {}
  BY DEF Init, Nothing
<1>2. Tabled /\ Remembered /\ Told
  BY <1>1, CatalogAssumption DEF CatalogAssumption, Init, Tabled, Remembered, Told, Phases, NoMessage
<1>3. TypeOK
  BY <1>2, Groups
<1>4. Queued /\ Followed(todo) /\ Promised
  BY <1>1, EmptySeq DEF Queued, Followed, Promised, PromisedIn
<1>5. MainsAtHome
  BY <1>1 DEF MainsAtHome
<1>6. Marks
  BY <1>1 DEF Marks, OneMark, Marked, Agreed, Harmless
<1>7. Anchored
  BY DEF Init, Anchored
<1>8. Buried
  BY <1>1 DEF Buried
<1>9. QED
  BY <1>3, <1>4, <1>5, <1>6, <1>7, <1>8 DEF CatalogInv

\* Every step keeps the invariant.
LEMMA CatalogStep == CatalogInv /\ [Next]_vars => CatalogInv'
<1> SUFFICES ASSUME CatalogInv, [Next]_vars PROVE CatalogInv'
  OBVIOUS
<1>1. TypeOK /\ Queued /\ Followed(todo) /\ Promised /\ MainsAtHome /\ Marks /\ Anchored /\ Buried
  BY DEF CatalogInv
<1>2. TypeOK'
  BY <1>1, CatalogTypes
<1>3. Queued' /\ Followed(todo)'
  BY <1>1, QueueStep DEF GoodQueue, Queued
<1>4. Promised'
  BY <1>1, PromiseStep
<1>5. MainsAtHome'
  BY <1>1, MainsStep
<1>6. Marks'
  BY <1>1, MarksStep
<1>7. Anchored'
  BY <1>1, AnchorStep
<1>8. Buried'
  BY <1>1, BuriedStep
<1>9. QED
  BY <1>2, <1>3, <1>4, <1>5, <1>6, <1>7, <1>8 DEF CatalogInv

\* The invariant says all that the run checks.
LEMMA CatalogTells == CatalogInv => CatalogAgrees
<1> SUFFICES ASSUME CatalogInv PROVE CatalogAgrees
  OBVIOUS
<1>1. TypeOK /\ Marks /\ Anchored /\ Buried
  BY DEF CatalogInv
<1>2. Idle => \A st : ~ Pending(st)
  BY DEF Idle, Pending, Contains
<1>3. DefaultsAgree
  <2>1. Idle => ~ Changing
    BY ChangingIsAboutAgents DEF Idle
  <2>2. QED
    BY <1>1, <2>1, MarksBy DEF DefaultsAgree, Settled, OneMark, Agreed, Fits, Bare
<1>4. ActiveIsReal
  BY <1>1, <1>2 DEF ActiveIsReal, Anchored
<1>5. DeletedLeaveNothing
  <2> SUFFICES ASSUME NEW s \in deleted \ missed, Under(s) = {}
               PROVE  s \notin DOMAIN sessions /\ \A t \in Tables : <<s, t>> \notin rows
    BY DEF DeletedLeaveNothing
  <2>1. Gone(s)
    BY <1>1 DEF Buried
  <2>2. \A i \in 1 .. Len(todo) : ~ (Len(todo[i]) > 1 /\ todo[i][2] = s)
    <3>1. \A i \in DOMAIN todo : ~ (Len(todo[i]) > 1 /\ todo[i][2] = s)
      BY DEF Under
    <3>2. DOMAIN todo = 1 .. Len(todo)
      BY DEF CatalogInv, Queued
    <3>3. QED
      BY <3>1, <3>2
  <2>3. ~ Pending(<<"drop", s>>)
    <3>1. Len(<<"drop", s>>) > 1 /\ <<"drop", s>>[2] = s
      OBVIOUS
    <3>2. \A i \in 1 .. Len(todo) : todo[i] # <<"drop", s>>
      BY <2>2, <3>1
    <3>3. QED
      BY <3>2 DEF Pending, Contains
  <2>4. ASSUME NEW t \in Tables PROVE ~ Pending(<<"wipe", s, t>>)
    <3>1. Len(<<"wipe", s, t>>) > 1 /\ <<"wipe", s, t>>[2] = s
      OBVIOUS
    <3>2. \A i \in 1 .. Len(todo) : todo[i] # <<"wipe", s, t>>
      BY <2>2, <3>1
    <3>3. QED
      BY <3>2 DEF Pending, Contains
  <2>5. QED
    BY <2>1, <2>3, <2>4 DEF Gone
<1>6. QED
  BY <1>1, <1>3, <1>4, <1>5 DEF CatalogAgrees

\* Only the part "catalog" moves the variables of the catalog.
LEMMA CatalogOnly == [MCNext]_<<vars, conversationVars, channelVars, part>> => [Next]_vars
BY DEF MCNext

\* Whatever requests, statements, failures, restarts, turns, compactions and messages of
\* peers interleave, the catalog keeps its invariant: what a half-done request has still to do is in its queue.
THEOREM CatalogInductive == MCSpec => []CatalogInv
<1>1. MCInit => CatalogInv
  BY InitCatalog DEF MCInit
<1>2. QED
  BY <1>1, CatalogOnly, CatalogStep, PTL DEF MCSpec

\* For any workspaces, sessions, agents and tables: as long as no statement about them was
\* lost, between requests each workspace has one default agent and names it, but that of an
\* IM instance, which may have none or not name it; what is active exists, or was made active
\* without a row; and none of the tables a delete wipes has a row of a deleted session once
\* its delete is over, unless it was written to since or while work on it could not be
\* cancelled (handler_session.go, handler_workspace_crud.go, handler_agent.go, im/manager.go).
THEOREM Agreeing == MCSpec => []CatalogAgrees
BY CatalogInductive, CatalogTells, PTL

-----------------------------------------------------------------------------
(***************************************************************************)
(* The conversation.                                                       *)
(***************************************************************************)

\* A message, a digest row and an outcome of a compaction, whatever ids U they carry.
Roles == {"user", "assistant", "tool", "digest"}
KeySet == Roles \X Nat \X Nat \X Nat
Messages(U) ==
  [role : Roles, id : U, run : Nat, turn : Nat, calls : Nat, ts : Nat, of : SUBSET KeySet]
Firsts(U) == [id : U, ts : Nat]
DigestRows(U) == [id : U, ts : Nat, of : SUBSET KeySet, first : Firsts(U)]
Outcomes(U) ==
  [success : BOOLEAN, from : Seq(Messages(U)), messages : Seq(Messages(U)),
   of : SUBSET KeySet, dropped : SUBSET KeySet, first : Firsts(U)]

\* Induction over the places of a sequence.
LEMMA Climb ==
  ASSUME NEW n \in Nat, NEW S, 0 \in S, \A i \in 1 .. n : i - 1 \in S => i \in S
  PROVE  \A i \in 0 .. n : i \in S
<1> DEFINE Bad == {i \in 0 .. n : i \notin S}
<1>1. SUFFICES ASSUME NEW k \in Bad PROVE FALSE
  OBVIOUS
<1>2. PICK m \in Bad : \A i \in Bad : m <= i
  <2>1. Bad \in SUBSET Nat
    OBVIOUS
  <2> HIDE DEF Bad
  <2>2. QED
    BY <2>1, Least
<1>3. m \in 1 .. n /\ m \notin S
  BY <1>2
<1>4. m - 1 \in 0 .. n /\ ~ (m <= m - 1)
  BY <1>3
<1>5. m - 1 \notin Bad
  <2> HIDE DEF Bad
  <2>1. QED
    BY <1>2, <1>4
<1>6. m - 1 \in S
  BY <1>4, <1>5
<1>7. QED
  BY <1>3, <1>6

\* A recursion over the places of a sequence has a value.
Iteration(f, n, base, step) == f[0] = base /\ \A i \in 1 .. n : f[i] = step[i][f[i - 1]]
LEMMA Iterates ==
  ASSUME NEW n \in Nat, NEW D, NEW base \in D, NEW step \in [1 .. n -> [D -> D]]
  PROVE  \E f \in [0 .. n -> D] : Iteration(f, n, base, step)
<1> DEFINE Table(f, k) == f[0] = base /\ \A i \in 1 .. k : f[i] = step[i][f[i - 1]]
           S == {k \in 0 .. n : \E f \in [0 .. n -> D] : Table(f, k)}
<1>1. 0 \in S
  <2> DEFINE flat == [i \in 0 .. n |-> base]
  <2>1. flat \in [0 .. n -> D] /\ flat[0] = base
    OBVIOUS
  <2> HIDE DEF flat
  <2>2. QED
    BY <2>1
<1>2. ASSUME NEW k \in 1 .. n, k - 1 \in S PROVE k \in S
  <2>1. PICK f \in [0 .. n -> D] : Table(f, k - 1)
    BY <1>2
  <2> DEFINE g == [f EXCEPT ![k] = step[k][f[k - 1]]]
  <2>2. g \in [0 .. n -> D]
    BY <2>1
  <2>3. g[k] = step[k][f[k - 1]] /\ \A i \in 0 .. n : i # k => g[i] = f[i]
    BY <2>1
  <2> HIDE DEF g
  <2>4. g[0] = base
    BY <2>1, <2>3
  <2>5. ASSUME NEW i \in 1 .. k PROVE g[i] = step[i][g[i - 1]]
    <3>1. i - 1 # k /\ i - 1 \in 0 .. n
      OBVIOUS
    <3>2. CASE i = k
      BY <2>3, <3>1, <3>2
    <3>3. CASE i # k
      <4>1. i \in 1 .. k - 1
        BY <3>3
      <4>2. f[i] = step[i][f[i - 1]]
        BY <2>1, <4>1
      <4>3. QED
        BY <2>3, <3>1, <3>3, <4>2
    <3>4. QED
      BY <3>2, <3>3
  <2>6. Table(g, k)
    BY <2>4, <2>5
  <2>7. QED
    BY <2>2, <2>6
<1>3. \A k \in 0 .. n : k \in S
  <2> HIDE DEF S
  <2>1. QED
    BY <1>1, <1>2, Climb
<1>4. n \in S
  <2>1. n \in 0 .. n
    OBVIOUS
  <2> HIDE DEF S
  <2>2. QED
    BY <1>3, <2>1
<1>5. QED
  BY <1>4 DEF Iteration

\* The recursion of KeptDigests, one message at a time.
KeptStep(q, g, n) ==
  IF n = 0 THEN <<>>
  ELSE IF q[n].role = "digest" THEN Append(g[n - 1], q[n])
  ELSE g[n - 1]
Keeps(q, g) == g = [n \in 0 .. Len(q) |-> KeptStep(q, g, n)]
KeptBy(q, g) ==
  /\ C!KeptDigests(q) = g[Len(q)]
  /\ g[0] = <<>>
  /\ \A n \in 1 .. Len(q) :
       g[n] = IF q[n].role = "digest" THEN Append(g[n - 1], q[n]) ELSE g[n - 1]

LEMMA KeptTable ==
  ASSUME NEW M, NEW q \in Seq(M)
  PROVE  \E g \in [0 .. Len(q) -> Seq(M)] : KeptBy(q, g)
<1> DEFINE N == Len(q)
           D == Seq(M)
           step == [n \in 1 .. N |-> [s \in D |->
                      IF q[n].role = "digest" THEN Append(s, q[n]) ELSE s]]
           kept == CHOOSE g : Keeps(q, g)
<1>1. N \in Nat /\ \A n \in 1 .. N : q[n] \in M
  OBVIOUS
<1>2. <<>> \in D /\ step \in [1 .. N -> [D -> D]]
  BY <1>1
<1>3. PICK f \in [0 .. N -> D] : f[0] = <<>> /\ \A n \in 1 .. N : f[n] = step[n][f[n - 1]]
  <2> DEFINE none == <<>>
  <2>1. N \in Nat /\ none \in D /\ step \in [1 .. N -> [D -> D]]
    BY <1>1, <1>2
  <2> HIDE DEF N, step, D, none
  <2>2. \E f \in [0 .. N -> D] : Iteration(f, N, none, step)
    BY <2>1, Iterates
  <2>3. QED
    BY <2>2 DEF none, Iteration
<1>4. \A n \in 0 .. N : f[n] = KeptStep(q, f, n)
  <2> TAKE n \in 0 .. N
  <2>1. n # 0 => n \in 1 .. N /\ n - 1 \in 0 .. N /\ f[n - 1] \in D
    BY <1>1, <1>3
  <2>2. QED
    BY <1>3, <2>1 DEF KeptStep
<1>5. Keeps(q, f)
  BY <1>3, <1>4 DEF Keeps
<1>6. Keeps(q, kept)
  BY <1>5
<1>7. C!KeptDigests(q) = kept[N]
  BY DEF C!KeptDigests, Keeps, KeptStep
<1> HIDE DEF kept
<1>8. /\ kept = [n \in 0 .. N |-> KeptStep(q, kept, n)]
      /\ \A n \in 0 .. N : kept[n] = KeptStep(q, kept, n)
  BY <1>6 DEF Keeps
<1> DEFINE S == {n \in 0 .. N : kept[n] \in Seq(M)}
<1>9. 0 \in S
  BY <1>1, <1>8 DEF KeptStep
<1>10. ASSUME NEW n \in 1 .. N, n - 1 \in S PROVE n \in S
  <2>1. kept[n] = KeptStep(q, kept, n) /\ n # 0 /\ q[n] \in M /\ kept[n - 1] \in Seq(M)
    BY <1>1, <1>8, <1>10
  <2>2. kept[n] \in Seq(M)
    <3> HIDE DEF S, N
    <3>1. QED
      BY <2>1 DEF KeptStep
  <2>3. QED
    BY <2>2
<1>11. \A n \in 0 .. N : n \in S
  <2> HIDE DEF S, N
  <2>1. QED
    BY <1>1, <1>9, <1>10, Climb
<1>12. \A n \in 0 .. N : kept[n] \in Seq(M)
  BY <1>11
<1>13. kept \in [0 .. N -> Seq(M)]
  BY <1>8, <1>12
<1>14. kept[0] = <<>> /\ \A n \in 1 .. N :
         kept[n] = IF q[n].role = "digest" THEN Append(kept[n - 1], q[n]) ELSE kept[n - 1]
  BY <1>1, <1>8 DEF KeptStep
<1>15. KeptBy(q, kept)
  BY <1>7, <1>14 DEF KeptBy
<1>16. QED
  BY <1>13, <1>15

\* What a partition keeps are digests, no more than there are messages.
LEMMA KeptAre ==
  ASSUME NEW M, NEW q \in Seq(M)
  PROVE  /\ C!KeptDigests(q) \in Seq(M)
         /\ Len(C!KeptDigests(q)) \in 0 .. Len(q)
         /\ \A i \in 1 .. Len(C!KeptDigests(q)) : C!KeptDigests(q)[i].role = "digest"
<1>1. PICK g \in [0 .. Len(q) -> Seq(M)] : KeptBy(q, g)
  BY KeptTable
<1> USE DEF KeptBy
<1> DEFINE N == Len(q)
           Fine(n) == Len(g[n]) <= n /\ \A i \in 1 .. Len(g[n]) : g[n][i].role = "digest"
           S == {n \in 0 .. N : Fine(n)}
<1>2. N \in Nat /\ \A n \in 0 .. N : g[n] \in Seq(M) /\ Len(g[n]) \in Nat
  BY <1>1
<1>3. 0 \in S
  BY <1>1, <1>2
<1>4. ASSUME NEW n \in 1 .. N, n - 1 \in S PROVE n \in S
  <2>1. n - 1 \in 0 .. N /\ Fine(n - 1) /\ q[n] \in M
    BY <1>4
  <2>2. g[n - 1] \in Seq(M) /\ Len(g[n - 1]) \in Nat
    BY <1>2, <2>1
  <2>3. CASE q[n].role = "digest"
    <3>1. g[n] = Append(g[n - 1], q[n])
      BY <1>1, <2>3
    <3>2. /\ Len(g[n]) = Len(g[n - 1]) + 1
          /\ \A i \in 1 .. Len(g[n - 1]) : g[n][i] = g[n - 1][i]
          /\ g[n][Len(g[n - 1]) + 1] = q[n]
      BY <2>1, <2>2, <3>1
    <3>3. Fine(n)
      BY <2>1, <2>2, <2>3, <3>2
    <3>4. QED
      BY <3>3
  <2>4. CASE q[n].role # "digest"
    <3>1. g[n] = g[n - 1]
      BY <1>1, <2>4
    <3>2. Fine(n)
      BY <2>1, <2>2, <3>1
    <3>3. QED
      BY <3>2
  <2>5. QED
    BY <2>3, <2>4
<1>5. \A n \in 0 .. N : n \in S
  <2> HIDE DEF S, N
  <2>1. QED
    BY <1>2, <1>3, <1>4, Climb
<1>6. Fine(N)
  BY <1>2, <1>5
<1>7. QED
  BY <1>1, <1>2, <1>6

\* Digests a conversation begins with are the first that are kept.
LEMMA KeptFirst ==
  ASSUME NEW M, NEW q \in Seq(M), NEW m \in 0 .. Len(q),
         \A i \in 1 .. m : q[i].role = "digest"
  PROVE  m <= Len(C!KeptDigests(q)) /\ \A i \in 1 .. m : C!KeptDigests(q)[i] = q[i]
<1>1. PICK g \in [0 .. Len(q) -> Seq(M)] : KeptBy(q, g)
  BY KeptTable
<1> USE DEF KeptBy
<1> DEFINE N == Len(q)
           Fine(n) ==
             /\ n <= m => Len(g[n]) = n
             /\ n > m => Len(g[n]) >= m
             /\ \A i \in 1 .. m : i <= n => g[n][i] = q[i]
           S == {n \in 0 .. N : Fine(n)}
<1>2. N \in Nat /\ \A n \in 0 .. N : g[n] \in Seq(M) /\ Len(g[n]) \in Nat
  BY <1>1
<1>3. 0 \in S
  BY <1>1, <1>2
<1>4. ASSUME NEW n \in 1 .. N, n - 1 \in S PROVE n \in S
  <2>1. n - 1 \in 0 .. N /\ Fine(n - 1) /\ q[n] \in M
    BY <1>4
  <2>2. g[n - 1] \in Seq(M) /\ Len(g[n - 1]) \in Nat
    BY <1>2, <2>1
  <2>3. CASE q[n].role = "digest"
    <3>1. g[n] = Append(g[n - 1], q[n])
      BY <1>1, <2>3
    <3>2. /\ Len(g[n]) = Len(g[n - 1]) + 1
          /\ \A i \in 1 .. Len(g[n - 1]) : g[n][i] = g[n - 1][i]
          /\ g[n][Len(g[n - 1]) + 1] = q[n]
      BY <2>1, <2>2, <3>1
    <3>3. n <= m => Len(g[n]) = n
      BY <2>1, <3>2
    <3>4. n > m => Len(g[n]) >= m
      BY <2>1, <2>2, <3>2
    <3>5. ASSUME NEW i \in 1 .. m, i <= n PROVE g[n][i] = q[i]
      <4>1. CASE i = n
        <5>1. Len(g[n - 1]) = n - 1
          BY <2>1, <3>5, <4>1
        <5>2. QED
          BY <3>2, <4>1, <5>1
      <4>2. CASE i # n
        <5>1. i <= n - 1 /\ i \in 1 .. Len(g[n - 1])
          BY <2>1, <2>2, <3>5, <4>2
        <5>2. QED
          BY <2>1, <3>2, <5>1
      <4>3. QED
        BY <4>1, <4>2
    <3>6. QED
      BY <3>3, <3>4, <3>5
  <2>4. CASE q[n].role # "digest"
    <3>1. g[n] = g[n - 1] /\ n > m
      BY <1>1, <2>4
    <3>2. Fine(n)
      BY <2>1, <2>2, <3>1
    <3>3. QED
      BY <3>2
  <2>5. QED
    BY <2>3, <2>4
<1>5. \A n \in 0 .. N : n \in S
  <2> HIDE DEF S, N
  <2>1. QED
    BY <1>2, <1>3, <1>4, Climb
<1>6. Fine(N)
  BY <1>2, <1>5
<1>7. QED
  BY <1>1, <1>2, <1>6

\* Of a conversation that begins with its digests, these are what is kept.
LEMMA KeptLead ==
  ASSUME NEW M, NEW q \in Seq(M), C!DigestsLead(q)
  PROVE  /\ \A i \in 1 .. Len(C!KeptDigests(q)) : C!KeptDigests(q)[i] = q[i]
         /\ \A i \in Len(C!KeptDigests(q)) + 1 .. Len(q) : q[i].role # "digest"
<1>1. PICK g \in [0 .. Len(q) -> Seq(M)] : KeptBy(q, g)
  BY KeptTable
<1> USE DEF KeptBy
<1> DEFINE N == Len(q)
           Fine(n) ==
             /\ Len(g[n]) <= n
             /\ \A i \in 1 .. Len(g[n]) : g[n][i] = q[i]
             /\ \A i \in Len(g[n]) + 1 .. n : q[i].role # "digest"
           S == {n \in 0 .. N : Fine(n)}
<1>2. N \in Nat /\ \A n \in 0 .. N : g[n] \in Seq(M) /\ Len(g[n]) \in Nat
  BY <1>1
<1>3. 0 \in S
  BY <1>1, <1>2
<1>4. \A i, j \in 1 .. N : i < j /\ q[j].role = "digest" => q[i].role = "digest"
  BY DEF C!DigestsLead
<1>5. ASSUME NEW n \in 1 .. N, n - 1 \in S PROVE n \in S
  <2>1. n - 1 \in 0 .. N /\ Fine(n - 1) /\ q[n] \in M
    BY <1>5
  <2>2. g[n - 1] \in Seq(M) /\ Len(g[n - 1]) \in Nat
    BY <1>2, <2>1
  <2>3. CASE q[n].role = "digest"
    <3>1. g[n] = Append(g[n - 1], q[n])
      BY <1>1, <2>3
    <3>2. /\ Len(g[n]) = Len(g[n - 1]) + 1
          /\ \A i \in 1 .. Len(g[n - 1]) : g[n][i] = g[n - 1][i]
          /\ g[n][Len(g[n - 1]) + 1] = q[n]
      BY <2>1, <2>2, <3>1
    <3>3. Len(g[n - 1]) = n - 1
      <4>1. SUFFICES ASSUME Len(g[n - 1]) < n - 1 PROVE FALSE
        BY <2>1, <2>2
      <4>2. /\ Len(g[n - 1]) + 1 \in 1 .. N /\ Len(g[n - 1]) + 1 < n
            /\ Len(g[n - 1]) + 1 \in Len(g[n - 1]) + 1 .. n - 1
        BY <1>2, <2>1, <2>2, <4>1
      <4>3. q[Len(g[n - 1]) + 1].role # "digest"
        BY <2>1, <4>2
      <4>4. QED
        BY <1>4, <2>3, <4>2, <4>3
    <3>4. Fine(n)
      BY <2>1, <2>2, <3>2, <3>3
    <3>5. QED
      BY <3>4
  <2>4. CASE q[n].role # "digest"
    <3>1. g[n] = g[n - 1]
      BY <1>1, <2>4
    <3>2. Fine(n)
      BY <2>1, <2>2, <2>4, <3>1
    <3>3. QED
      BY <3>2
  <2>5. QED
    BY <2>3, <2>4
<1>6. \A n \in 0 .. N : n \in S
  <2> HIDE DEF S, N
  <2>1. QED
    BY <1>2, <1>3, <1>5, Climb
<1>7. Fine(N)
  <2>1. N \in S
    BY <1>2, <1>6
  <2>2. QED
    BY <2>1
<1>8. QED
  BY <1>1, <1>2, <1>7

\* What Min and Max choose.
LEMMA Lowest ==
  ASSUME NEW S \in SUBSET Nat, NEW k \in S
  PROVE  C!Min(S) \in S /\ \A x \in S : C!Min(S) <= x
<1>1. PICK n \in S : \A x \in S : n <= x
  BY Least
<1>2. QED
  BY <1>1 DEF C!Min

LEMMA Highest ==
  ASSUME NEW n \in Nat, NEW S \in SUBSET (0 .. n), NEW k \in S
  PROVE  C!Max(S) \in S /\ \A x \in S : x <= C!Max(S)
<1> DEFINE Gaps == {g \in 0 .. n : n - g \in S}
<1>1. n - k \in Gaps /\ Gaps \in SUBSET Nat
  OBVIOUS
<1>2. PICK g \in Gaps : \A h \in Gaps : g <= h
  <2> HIDE DEF Gaps
  <2>1. QED
    BY <1>1, Least
<1>3. g \in 0 .. n /\ n - g \in S
  OBVIOUS
<1>4. ASSUME NEW x \in S PROVE n - g >= x
  <2>1. n - x \in Gaps
    OBVIOUS
  <2>2. g <= n - x
    <3> HIDE DEF Gaps
    <3>1. QED
      BY <1>2, <2>1
  <2>3. QED
    BY <1>3, <2>2
<1>5. QED
  BY <1>3, <1>4 DEF C!Max

\* Where the tail ends: before the last message only if that is not answered.
LEMMA TailEnds ==
  ASSUME NEW M, NEW q \in Seq(M), NEW s \in 0 .. Len(q)
  PROVE  /\ C!TailEnd(q, s) \in s .. Len(q)
         /\ s < Len(q) => (C!TailEnd(q, s) < Len(q) <=> C!Unanswered(q, s, Len(q)))
<1> DEFINE L == Len(q)
           Stops == {e \in s .. L : \A i \in (e + 1) .. L : C!Unanswered(q, s, i)}
<1>1. L \in Nat /\ s \in Nat /\ Stops \in SUBSET Nat /\ L \in Stops
  OBVIOUS
<1>2. C!TailEnd(q, s) = C!Min(Stops)
  BY DEF C!TailEnd
<1>3. C!TailEnd(q, s) \in Stops /\ \A x \in Stops : C!TailEnd(q, s) <= x
  <2> HIDE DEF L, Stops
  <2>1. QED
    BY <1>1, <1>2, Lowest
<1>4. C!TailEnd(q, s) \in s .. L
  BY <1>3
<1>5. ASSUME s < L, C!TailEnd(q, s) < L PROVE C!Unanswered(q, s, L)
  <2>1. L \in (C!TailEnd(q, s) + 1) .. L
    BY <1>1, <1>4, <1>5
  <2>2. QED
    BY <1>3, <2>1
<1>6. ASSUME s < L, C!Unanswered(q, s, L) PROVE C!TailEnd(q, s) < L
  <2>1. L - 1 \in s .. L /\ \A i \in (L - 1 + 1) .. L : i = L
    BY <1>1, <1>6
  <2>2. L - 1 \in Stops
    BY <1>6, <2>1
  <2>3. C!TailEnd(q, s) <= L - 1
    BY <1>3, <2>2
  <2>4. QED
    BY <1>1, <1>4, <2>3
<1>7. QED
  BY <1>4, <1>5, <1>6

\* Where a tail that is moved back begins: with the nearest call its first message answers.
LEMMA Backs ==
  ASSUME NEW M, NEW q \in Seq(M), NEW s \in 0 .. Len(q)
  PROVE  /\ C!MoveBack(q, s) \in 0 .. s
         /\ C!MoveBack(q, s) < s =>
              /\ s < Len(q)
              /\ C!Answers(q, s + 1, C!MoveBack(q, s) + 1)
              /\ \A i \in C!MoveBack(q, s) + 2 .. s : ~ C!Answers(q, s + 1, i)
         /\ s < Len(q) /\ (\E i \in 1 .. s : C!Answers(q, s + 1, i)) => C!MoveBack(q, s) < s
<1> DEFINE callers == {i \in 1 .. s : C!Answers(q, s + 1, i)}
<1>1. s \in Nat /\ callers \in SUBSET (0 .. s)
  OBVIOUS
<1>2. C!MoveBack(q, s) = IF s < Len(q) /\ callers # {} THEN C!Max(callers) - 1 ELSE s
  BY DEF C!MoveBack
<1>3. CASE s < Len(q) /\ callers # {}
  <2>1. C!Max(callers) \in callers /\ \A x \in callers : x <= C!Max(callers)
    <3>1. PICK k \in callers : TRUE
      BY <1>3
    <3> HIDE DEF callers
    <3>2. QED
      BY <1>1, <3>1, Highest
  <2>2. C!MoveBack(q, s) = C!Max(callers) - 1
    BY <1>2, <1>3
  <2>3. C!Max(callers) \in 1 .. s /\ C!Answers(q, s + 1, C!Max(callers))
    BY <2>1
  <2> DEFINE m == C!Max(callers)
  <2>4. \A i \in m + 1 .. s : ~ C!Answers(q, s + 1, i)
    <3>1. SUFFICES ASSUME NEW i \in m + 1 .. s, C!Answers(q, s + 1, i) PROVE FALSE
      OBVIOUS
    <3>2. i \in callers
      BY <2>3, <3>1
    <3>3. i <= m
      BY <2>1, <3>2
    <3>4. QED
      BY <2>3, <3>3
  <2> HIDE DEF m
  <2>5. m \in 1 .. s /\ C!Answers(q, s + 1, m) /\ C!MoveBack(q, s) = m - 1
    BY <2>2, <2>3 DEF m
  <2>6. m - 1 + 1 = m /\ m - 1 + 2 = m + 1 /\ m - 1 \in 0 .. s /\ m - 1 < s
    BY <2>5
  <2>7. QED
    BY <1>3, <2>4, <2>5, <2>6
<1>4. CASE ~ (s < Len(q) /\ callers # {})
  <2>1. C!MoveBack(q, s) = s
    BY <1>2, <1>4
  <2>2. ~ (s < Len(q) /\ \E i \in 1 .. s : C!Answers(q, s + 1, i))
    BY <1>4
  <2>3. QED
    BY <1>1, <2>1, <2>2
<1>5. QED
  BY <1>3, <1>4

\* Where the tail of a conversation begins: T by its length alone, B moved back, and A
\* as a partition has it.
TailAt(q, T, B, A) ==
  /\ T \in 0 .. Len(q) /\ B \in 0 .. T /\ A \in B .. T
  /\ T = IF Len(q) > RecentKeep THEN Len(q) - RecentKeep ELSE 0
  /\ q # <<>> => T < Len(q)
  /\ B < T => C!Answers(q, T + 1, B + 1) /\ \A i \in B + 2 .. T : ~ C!Answers(q, T + 1, i)
  /\ q # <<>> /\ (\E i \in 1 .. T : C!Answers(q, T + 1, i)) => B < T
  /\ A < T => B < T
  /\ B < T => (A = B <=> ~ C!Unanswered(q, B, Len(q)))

LEMMA Aligned ==
  ASSUME NEW M, NEW q \in Seq(M)
  PROVE  TailAt(q, C!TailStart(q), C!MoveBack(q, C!TailStart(q)), C!Partition(q).start)
<1> DEFINE L == Len(q)
           T == C!TailStart(q)
           B == C!MoveBack(q, T)
           E == C!TailEnd(q, B)
           A == C!Partition(q).start
<1>1. L \in Nat /\ RecentKeep \in Nat /\ RecentKeep > 0 /\ (q # <<>> => L > 0)
  BY PartsAssumption DEF C!CompactionAssumption
<1>2. T = IF L > RecentKeep THEN L - RecentKeep ELSE 0
  BY DEF C!TailStart
<1>3. T \in 0 .. L /\ (L > 0 => T < L)
  BY <1>1, <1>2
<1>4. A = IF T < L /\ E - B > L - T THEN L - (E - B) ELSE T
  BY DEF C!Partition, C!Align
<1> HIDE DEF A, T
<1>5. /\ B \in 0 .. T
      /\ B < T => /\ T < L /\ C!Answers(q, T + 1, B + 1)
                  /\ \A i \in B + 2 .. T : ~ C!Answers(q, T + 1, i)
      /\ T < L /\ (\E i \in 1 .. T : C!Answers(q, T + 1, i)) => B < T
  BY <1>3, Backs
<1> HIDE DEF B
<1>6. B \in 0 .. L
  BY <1>1, <1>3, <1>5
<1>7. E \in B .. L /\ (B < L => (E < L <=> C!Unanswered(q, B, L)))
  BY <1>6, TailEnds
<1> HIDE DEF E, L
<1>8. CASE T < L /\ E - B > L - T
  <2>1. A = L - (E - B)
    BY <1>4, <1>8
  <2>2. A \in B .. T /\ A < T /\ B < T
    BY <1>1, <1>3, <1>5, <1>7, <1>8, <2>1
  <2>3. A # B <=> E < L
    BY <1>1, <1>3, <1>5, <1>7, <1>8, <2>1
  <2>4. B < L
    BY <1>1, <1>3, <1>5, <1>8
  <2>5. A # B <=> C!Unanswered(q, B, L)
    BY <1>7, <2>3, <2>4
  <2>6. QED
    BY <1>1, <1>2, <1>3, <1>5, <2>2, <2>5 DEF TailAt, L, T, B, A
<1>9. CASE ~ (T < L /\ E - B > L - T)
  <2>1. A = T
    BY <1>4, <1>9
  <2>2. B < T => E < L /\ C!Unanswered(q, B, L) /\ A # B
    BY <1>1, <1>3, <1>5, <1>7, <1>9, <2>1
  <2>3. A \in B .. T
    BY <1>3, <1>5, <2>1
  <2>4. QED
    BY <1>1, <1>2, <1>3, <1>5, <2>1, <2>2, <2>3 DEF TailAt, L, T, B, A
<1>10. QED
  BY <1>8, <1>9

\* The fold ends behind the beginning of the tail, within the conversation.
LEMMA FoldEnds ==
  ASSUME NEW M, NEW q \in Seq(M), NEW k \in Nat, NEW s \in 0 .. Len(q)
  PROVE  C!FoldEnd(q, k, s) \in s .. Len(q)
<1> DEFINE L == Len(q)
           Stops == {e \in s .. L : e = L \/ ~ C!Together(q, k, e)}
<1>1. L \in Nat /\ s \in Nat /\ Stops \in SUBSET Nat /\ L \in Stops
  OBVIOUS
<1>2. C!FoldEnd(q, k, s) = C!Min(Stops)
  BY DEF C!FoldEnd
<1>3. C!FoldEnd(q, k, s) \in Stops
  <2> HIDE DEF L, Stops
  <2>1. QED
    BY <1>1, <1>2, Lowest
<1>4. QED
  BY <1>3

\* The keys of messages.
LEMMA KeysAre ==
  ASSUME NEW U, NEW q \in Seq(Messages(U))
  PROVE  /\ C!Keys(q) = {C!KeyOf(q[i]) : i \in {j \in 1 .. Len(q) : q[j].role # "digest"}}
         /\ C!Keys(q) \in SUBSET KeySet
<1>1. \A i \in 1 .. Len(q) : q[i] \in Messages(U)
  OBVIOUS
<1>2. \A m \in Messages(U) : C!KeyOf(m) \in KeySet
  BY DEF Messages, C!KeyOf, KeySet
<1>3. DOMAIN q = 1 .. Len(q)
  OBVIOUS
<1>4. QED
  BY <1>1, <1>2, <1>3 DEF C!Keys

\* Where a conversation is cut has an id and a time.
LEMMA Boundaries ==
  ASSUME NEW U, NoId \in U, NEW q \in Seq(Messages(U)), NEW t \in 0 .. Len(q)
  PROVE  C!Boundary(q, t) \in Firsts(U)
<1>1. CASE t = 0 \/ q = <<>>
  BY <1>1 DEF C!Boundary, Firsts
<1>2. CASE ~ (t = 0 \/ q = <<>>)
  <2>1. Len(q) - t + 1 \in 1 .. Len(q)
    BY <1>2
  <2>2. q[Len(q) - t + 1] \in Messages(U)
    BY <2>1
  <2>3. QED
    BY <1>2, <2>2 DEF C!Boundary, Firsts, Messages
<1>3. QED
  BY <1>1, <1>2

\* A summary of q: the k digests kept, the new one, and the tail behind place s.
Summarised(q, m, k, s) ==
  /\ Len(m) = k + 1 + Len(q) - s
  /\ \A i \in 1 .. k : m[i] = C!KeptDigests(q)[i]
  /\ \A i \in 1 .. k + 1 : m[i].role = "digest"
  /\ m[k + 1].run = 0
  /\ \A i \in k + 2 .. Len(m) : m[i] = q[i - (k + 1) + s]

LEMMA Halves ==
  ASSUME NEW n \in Nat, NEW h \in C!Halvings(n)
  PROVE  h \in 1 .. n
BY DEF C!Halvings

\* A sequence m is made of a, one more and t.
MadeOf(m, a, b, t) ==
  /\ Len(m) = Len(a) + 1 + Len(t)
  /\ \A i \in 1 .. Len(a) : m[i] = a[i]
  /\ m[Len(a) + 1] = b
  /\ \A i \in Len(a) + 2 .. Len(a) + 1 + Len(t) : m[i] = t[i - (Len(a) + 1)]
LEMMA Threes ==
  ASSUME NEW S, NEW a \in Seq(S), NEW b \in S, NEW t \in Seq(S)
  PROVE  a \o <<b>> \o t \in Seq(S) /\ MadeOf(a \o <<b>> \o t, a, b, t)
<1> DEFINE ab == a \o <<b>>
<1>1. /\ ab \in Seq(S) /\ Len(ab) = Len(a) + 1 /\ ab[Len(a) + 1] = b
      /\ \A i \in 1 .. Len(a) : ab[i] = a[i]
  OBVIOUS
<1> HIDE DEF ab
<1>2. /\ ab \o t \in Seq(S) /\ Len(ab \o t) = Len(ab) + Len(t)
      /\ \A i \in 1 .. Len(ab) : (ab \o t)[i] = ab[i]
      /\ \A i \in Len(ab) + 1 .. Len(ab) + Len(t) : (ab \o t)[i] = t[i - Len(ab)]
  BY <1>1
<1>3. QED
  BY <1>1, <1>2 DEF ab, MadeOf

\* What is in a fold is in the part of it that is summarised, or was dropped.
CoversFold(q, c, k, s) ==
  \E e \in s .. Len(q) : \A i \in k + 1 .. e : q[i].role # "digest" => C!KeyOf(q[i]) \in c.of \cup c.dropped

\* A compaction leaves the conversation as it is, if it succeeds for want of anything to
\* fold, or makes a summary of it.
LEMMA CompactionMakes ==
  ASSUME NEW U, NoId \in U, NEW q \in Seq(Messages(U)), NEW c \in C!Compactions(q)
  PROVE  LET k == Len(C!KeptDigests(q))
             s == C!Partition(q).start
         IN /\ c \in Outcomes(U) /\ c.from = q
            /\ \/ c.messages = q /\ (c.success => s <= k)
               \/ /\ k < s /\ s < Len(q)
                  /\ Summarised(q, c.messages, k, s) /\ CoversFold(q, c, k, s)
<1> DEFINE L == Len(q)
           K == C!KeptDigests(q)
           k == Len(K)
           s == C!Partition(q).start
           e == C!FoldEnd(q, k, s)
           fold == SubSeq(q, k + 1, e)
           p == C!Partition(q)
           Made ==
             /\ c \in Outcomes(U) /\ c.from = q
             /\ \/ c.messages = q /\ (c.success => s <= k)
                \/ k < s /\ s < L /\ Summarised(q, c.messages, k, s) /\ CoversFold(q, c, k, s)
           Plain == c = C!Failure(q) \/ (s <= k /\ c = C!Unchanged(q, L))
           Summed == k < s /\ s < L /\ \E n \in C!Halvings(Len(fold)) : c = C!Summary(q, p, fold, n)
<1>0. SUFFICES Made
  OBVIOUS
<1>1. L \in Nat /\ q \in Seq(Messages(U)) /\ \A i \in 1 .. L : q[i] \in Messages(U)
  OBVIOUS
<1>2. K \in Seq(Messages(U)) /\ k \in 0 .. L /\ \A i \in 1 .. k : K[i].role = "digest"
  BY KeptAre
<1>3. s \in 0 .. L
  <2>1. TailAt(q, C!TailStart(q), C!MoveBack(q, C!TailStart(q)), s)
    BY Aligned
  <2>2. QED
    BY <1>1, <2>1 DEF TailAt
<1>4. p.kept = k /\ p.start = s
  BY DEF C!Partition
<1>5. e \in s .. L
  <2>1. k \in Nat
    BY <1>1, <1>2
  <2> HIDE DEF s, k
  <2>2. QED
    BY <1>3, <2>1, FoldEnds
<1>6. Plain \/ Summed
  <2>1. C!Compactions(q) =
          IF s >= L THEN {C!Failure(q)}
          ELSE IF s <= k THEN {C!Unchanged(q, L)}
          ELSE {C!Failure(q)} \cup {C!Summary(q, p, fold, n) : n \in C!Halvings(Len(fold))}
    BY <1>4 DEF C!Compactions
  <2> HIDE DEF s, k, L, p, fold
  <2>2. s \in Nat /\ k \in Nat /\ L \in Nat
    BY <1>1, <1>2, <1>3
  <2>3. c \in C!Compactions(q)
    OBVIOUS
  <2>4. CASE s >= L
    <3>1. c = C!Failure(q)
      BY <2>1, <2>3, <2>4
    <3>2. Plain
      BY <3>1
    <3> HIDE DEF Plain, Summed
    <3>3. QED
      BY <3>2
  <2>5. CASE ~ (s >= L) /\ s <= k
    BY <2>1, <2>3, <2>5
  <2>6. CASE ~ (s >= L) /\ ~ (s <= k)
    <3>1. s < L /\ k < s
      BY <2>2, <2>6
    <3>2. c \in {C!Failure(q)} \cup {C!Summary(q, p, fold, n) : n \in C!Halvings(Len(fold))}
      BY <2>1, <2>3, <2>6
    <3>3. CASE c = C!Failure(q)
      <4>1. Plain
        BY <3>3
      <4> HIDE DEF Plain, Summed
      <4>2. QED
        BY <4>1
    <3>4. CASE c \in {C!Summary(q, p, fold, n) : n \in C!Halvings(Len(fold))}
      <4>1. PICK n \in C!Halvings(Len(fold)) : c = C!Summary(q, p, fold, n)
        BY <3>4
      <4>2. Summed
        BY <3>1, <4>1
      <4> HIDE DEF Plain, Summed
      <4>3. QED
        BY <4>2
    <3>5. QED
      BY <3>2, <3>3, <3>4
  <2>7. QED
    BY <2>4, <2>5, <2>6
<1>7. CASE Plain
  <2>1. C!Boundary(q, 0) \in Firsts(U) /\ C!Boundary(q, L) \in Firsts(U)
    BY <1>1, Boundaries
  <2>2. {} \in SUBSET KeySet
    OBVIOUS
  <2> HIDE DEF s, k, L
  <2>3. C!Unchanged(q, 0) \in Outcomes(U) /\ C!Unchanged(q, L) \in Outcomes(U)
    BY <1>1, <2>1, <2>2 DEF C!Unchanged, Outcomes
  <2>4. c \in Outcomes(U)
    BY <1>7, <2>3 DEF C!Failure, Outcomes
  <2>5. c.from = q /\ c.messages = q
    BY <1>7 DEF C!Failure, C!Unchanged
  <2>6. c.success => s <= k
    BY <1>7 DEF C!Failure, C!Unchanged
  <2>7. QED
    BY <2>4, <2>5, <2>6
<1>8. CASE Summed
  <2>1. PICK n \in C!Halvings(Len(fold)) : c = C!Summary(q, p, fold, n)
    BY <1>8
  <2> DEFINE D == C!DigestMessage(NoId, 0, C!Keys(SubSeq(fold, 1, n)))
             tail == SubSeq(q, s + 1, L)
             kept == SubSeq(K, 1, k)
  <2>2. /\ fold \in Seq(Messages(U)) /\ Len(fold) = e - k
        /\ \A i \in 1 .. Len(fold) : fold[i] = q[k + i]
    <3>1. k + 1 \in 1 .. L + 1 /\ k \in Nat /\ e \in 0 .. L /\ k <= e
      BY <1>1, <1>2, <1>3, <1>5, <1>8
    <3> HIDE DEF s, k, K, e
    <3>2. QED
      BY <1>1, <3>1
  <2>3. n \in 1 .. Len(fold)
    BY <2>2, Halves
  <2>4. SubSeq(fold, 1, n) \in Seq(Messages(U))
    BY <2>2, <2>3
  <2>5. C!Keys(SubSeq(fold, 1, n)) \in SUBSET KeySet /\ C!Keys(fold) \in SUBSET KeySet
    BY <2>2, <2>4, KeysAre
  <2>6. D \in Messages(U) /\ D.role = "digest" /\ D.run = 0
    BY <2>5 DEF C!DigestMessage, Messages, Roles
  <2>7. /\ tail \in Seq(Messages(U)) /\ Len(tail) = L - s
        /\ \A i \in 1 .. L - s : tail[i] = q[s + i]
    BY <1>1, <1>3, <1>8
  <2>8. kept \in Seq(Messages(U)) /\ Len(kept) = k /\ \A i \in 1 .. k : kept[i] = K[i]
    BY <1>2
  <2>9. /\ c.success /\ c.from = q /\ c.messages = kept \o <<D>> \o tail
        /\ c.of = C!Keys(SubSeq(fold, 1, n)) /\ c.dropped = C!Keys(fold) \ C!Keys(SubSeq(fold, 1, n))
        /\ c.first = C!Boundary(q, L - s)
        /\ c = [success |-> c.success, from |-> c.from, messages |-> c.messages, of |-> c.of,
                dropped |-> c.dropped, first |-> c.first]
    <3> HIDE DEF p, fold
    <3>1. QED
      BY <1>4, <2>1 DEF C!Summary, C!Tail2
  <2>10. L - s \in 0 .. L
    BY <1>3
  <2>11. c.first \in Firsts(U)
    BY <2>9, <2>10, Boundaries
  <2> DEFINE m == kept \o <<D>> \o tail
  <2>12. /\ m \in Seq(Messages(U)) /\ Len(m) = k + 1 + (L - s)
         /\ \A i \in 1 .. k : m[i] = kept[i]
         /\ m[k + 1] = D
         /\ \A i \in k + 2 .. Len(m) : m[i] = tail[i - (k + 1)]
    <3>1. k \in Nat
      BY <1>1, <1>2
    <3> HIDE DEF D, tail, kept, s, k, K
    <3>2. m \in Seq(Messages(U)) /\ MadeOf(m, kept, D, tail)
      BY <2>6, <2>7, <2>8, Threes
    <3> HIDE DEF m
    <3>3. QED
      BY <2>7, <2>8, <3>1, <3>2 DEF MadeOf
  <2>13. Summarised(q, m, k, s)
    <3>1. \A i \in k + 2 .. Len(m) : i - (k + 1) \in 1 .. L - s /\ s + (i - (k + 1)) = i - (k + 1) + s
      BY <1>2, <1>3, <2>12
    <3> HIDE DEF m, D, tail, kept, s, K
    <3>2. \A i \in k + 2 .. Len(m) : m[i] = q[i - (k + 1) + s]
      BY <2>7, <2>12, <3>1
    <3>3. \A i \in 1 .. k + 1 : i \in 1 .. k \/ i = k + 1
      BY <1>2
    <3>4. \A i \in 1 .. k + 1 : m[i].role = "digest"
      BY <1>2, <2>6, <2>8, <2>12, <3>3
    <3>5. \A i \in 1 .. k : m[i] = C!KeptDigests(q)[i]
      BY <2>8, <2>12 DEF K
    <3>6. Len(m) = k + 1 + Len(q) - s /\ m[k + 1].run = 0
      BY <1>1, <1>2, <1>3, <2>6, <2>12
    <3>7. QED
      BY <3>2, <3>4, <3>5, <3>6 DEF Summarised
  <2>14. CoversFold(q, c, k, s)
    <3>1. ASSUME NEW i \in k + 1 .. e, q[i].role # "digest" PROVE C!KeyOf(q[i]) \in c.of \cup c.dropped
      <4>1. i - k \in 1 .. Len(fold) /\ fold[i - k] = q[i]
        BY <1>2, <1>5, <2>2
      <4> HIDE DEF fold
      <4>2. C!KeyOf(q[i]) \in C!Keys(fold)
        BY <2>2, <3>1, <4>1, KeysAre
      <4>3. QED
        BY <2>9, <4>2
    <3>2. QED
      BY <1>5, <3>1 DEF CoversFold
  <2>15. c \in Outcomes(U)
    <3> HIDE DEF fold, D, tail, kept
    <3>1. QED
      BY <1>1, <2>5, <2>9, <2>11, <2>12 DEF Outcomes
  <2>16. QED
    BY <1>8, <2>9, <2>13, <2>14, <2>15
<1>9. QED
  <2> HIDE DEF Plain, Summed, Made
  <2>1. QED
    BY <1>6, <1>7, <1>8

\* The last message is no call that another message answers.
EndsFresh(q) == q # <<>> => \A j \in 1 .. Len(q) : ~ C!Answers(q, j, Len(q))

\* A conversation that ends with an unanswered call is not compacted any further.
Steady(q) ==
  C!PairsIntact(q) /\ C!CutShort(q) => C!Partition(q).start <= Len(C!KeptDigests(q))

\* Whether a message answers another depends on these two only.
LEMMA SameAnswers ==
  ASSUME NEW p, NEW i, NEW j, NEW q, NEW a, NEW b, p[i] = q[a], p[j] = q[b]
  PROVE  C!Answers(p, j, i) <=> C!Answers(q, b, a)
BY DEF C!Answers

\* A summary has its messages from the tail.
LEMMA FromTail ==
  ASSUME NEW U, NEW q \in Seq(Messages(U)), NEW m \in Seq(Messages(U)), NEW k \in Nat,
         NEW s \in 0 .. Len(q) - 1, k < s, Summarised(q, m, k, s)
  PROVE  /\ Len(m) = k + 1 + Len(q) - s /\ Len(m) \in Nat
         /\ \A i \in 1 .. Len(m) : m[i].role # "digest" => i \in k + 2 .. Len(m)
         /\ \A i \in k + 2 .. Len(m) : i - (k + 1) + s \in s + 1 .. Len(q) /\ m[i] = q[i - (k + 1) + s]
         /\ \A i \in s + 1 .. Len(q) : i - s + (k + 1) \in k + 2 .. Len(m) /\ m[i - s + (k + 1)] = q[i]
         /\ \A j, i \in 1 .. Len(m) : C!Answers(m, j, i) =>
              /\ j \in k + 2 .. Len(m) /\ i \in k + 2 .. Len(m)
              /\ C!Answers(q, j - (k + 1) + s, i - (k + 1) + s)
<1>1. Len(m) = k + 1 + Len(q) - s /\ Len(m) \in Nat /\ Len(q) \in Nat /\ s \in Nat
  BY DEF Summarised
<1>2. \A i \in 1 .. Len(m) : m[i].role # "digest" => i \in k + 2 .. Len(m)
  BY <1>1 DEF Summarised
<1>3. \A i \in k + 2 .. Len(m) : i - (k + 1) + s \in s + 1 .. Len(q) /\ m[i] = q[i - (k + 1) + s]
  BY <1>1 DEF Summarised
<1>4. ASSUME NEW i \in s + 1 .. Len(q)
      PROVE  i - s + (k + 1) \in k + 2 .. Len(m) /\ m[i - s + (k + 1)] = q[i]
  <2>1. i - s + (k + 1) \in k + 2 .. Len(m) /\ (i - s + (k + 1)) - (k + 1) + s = i
    BY <1>1
  <2>2. QED
    BY <1>3, <2>1
<1>5. ASSUME NEW j \in 1 .. Len(m), NEW i \in 1 .. Len(m), C!Answers(m, j, i)
      PROVE  /\ j \in k + 2 .. Len(m) /\ i \in k + 2 .. Len(m)
             /\ C!Answers(q, j - (k + 1) + s, i - (k + 1) + s)
  <2>1. m[i].role # "digest" /\ m[j].role # "digest"
    BY <1>5 DEF C!Answers
  <2>2. j \in k + 2 .. Len(m) /\ i \in k + 2 .. Len(m)
    BY <1>2, <2>1
  <2>3. m[i] = q[i - (k + 1) + s] /\ m[j] = q[j - (k + 1) + s]
    BY <1>3, <2>2
  <2>4. QED
    BY <1>5, <2>2, <2>3, SameAnswers
<1>6. QED
  BY <1>1, <1>2, <1>3, <1>4, <1>5

\* A compaction ends as the conversation does.
LEMMA StaysFresh ==
  ASSUME NEW U, NoId \in U, NEW q \in Seq(Messages(U)), NEW c \in C!Compactions(q), EndsFresh(q)
  PROVE  EndsFresh(c.messages)
<1> DEFINE k == Len(C!KeptDigests(q))
           s == C!Partition(q).start
           m == c.messages
<1>1. /\ c \in Outcomes(U)
      /\ \/ m = q
         \/ k < s /\ s < Len(q) /\ Summarised(q, m, k, s)
  BY CompactionMakes
<1>2. k \in Nat /\ s \in 0 .. Len(q) /\ m \in Seq(Messages(U))
  <2>1. k \in Nat
    BY KeptAre
  <2>2. TailAt(q, C!TailStart(q), C!MoveBack(q, C!TailStart(q)), s)
    BY Aligned
  <2>3. s \in 0 .. Len(q)
    BY <2>2 DEF TailAt
  <2>4. QED
    BY <1>1, <2>1, <2>3 DEF Outcomes
<1>3. CASE m = q
  BY <1>3
<1>4. CASE k < s /\ s < Len(q) /\ Summarised(q, m, k, s)
  <2> HIDE DEF k, s, m
  <2>1. s \in 0 .. Len(q) - 1
    BY <1>2, <1>4
  <2>2. /\ Len(m) = k + 1 + Len(q) - s /\ Len(m) \in Nat
        /\ \A i \in k + 2 .. Len(m) : i - (k + 1) + s \in s + 1 .. Len(q) /\ m[i] = q[i - (k + 1) + s]
        /\ \A j, i \in 1 .. Len(m) : C!Answers(m, j, i) =>
             /\ j \in k + 2 .. Len(m) /\ i \in k + 2 .. Len(m)
             /\ C!Answers(q, j - (k + 1) + s, i - (k + 1) + s)
    BY <1>2, <1>4, <2>1, FromTail
  <2>3. SUFFICES ASSUME NEW j \in 1 .. Len(m), C!Answers(m, j, Len(m)) PROVE FALSE
    BY DEF EndsFresh, m
  <2>4. Len(m) \in 1 .. Len(m) /\ Len(m) - (k + 1) + s = Len(q)
    BY <1>2, <2>1, <2>2, <2>3
  <2>5. j \in k + 2 .. Len(m) /\ C!Answers(q, j - (k + 1) + s, Len(q))
    BY <2>2, <2>3, <2>4
  <2>6. j - (k + 1) + s \in 1 .. Len(q) /\ q # <<>>
    BY <1>2, <2>1, <2>2, <2>5
  <2>7. QED
    BY <2>5, <2>6 DEF EndsFresh
<1>5. QED
  BY <1>1, <1>3, <1>4

\* Where a compaction cuts, and what it leaves.
LEMMA Cuts ==
  ASSUME NEW U, NoId \in U, NEW q \in Seq(Messages(U)), NEW c \in C!Compactions(q)
  PROVE  LET k == Len(C!KeptDigests(q))
             s == C!Partition(q).start
         IN /\ k \in Nat /\ s \in 0 .. Len(q) /\ c.messages \in Seq(Messages(U))
            /\ \/ c.messages = q /\ (c.success => s <= k)
               \/ /\ k < s /\ s \in 0 .. Len(q) - 1
                  /\ Summarised(q, c.messages, k, s) /\ CoversFold(q, c, k, s)
<1> DEFINE k == Len(C!KeptDigests(q))
           s == C!Partition(q).start
<1>1. k \in Nat
  BY KeptAre
<1>2. TailAt(q, C!TailStart(q), C!MoveBack(q, C!TailStart(q)), s)
  BY Aligned
<1>3. s \in 0 .. Len(q)
  BY <1>2 DEF TailAt
<1>4. /\ c \in Outcomes(U)
      /\ \/ c.messages = q /\ (c.success => s <= k)
         \/ k < s /\ s < Len(q) /\ Summarised(q, c.messages, k, s) /\ CoversFold(q, c, k, s)
  BY CompactionMakes
<1> HIDE DEF k, s
<1>5. s < Len(q) => s \in 0 .. Len(q) - 1
  BY <1>3
<1>6. c.messages \in Seq(Messages(U))
  BY <1>4 DEF Outcomes
<1>7. QED
  BY <1>1, <1>3, <1>4, <1>5, <1>6 DEF k, s

\* A compaction of a conversation that does not end with an unanswered call, or that is
\* left alone, keeps the results of each call behind it.
LEMMA PairsStay ==
  ASSUME NEW U, NoId \in U, NEW q \in Seq(Messages(U)), NEW c \in C!Compactions(q),
         C!PairsIntact(q), EndsFresh(q),
         C!CutShort(q) => C!Partition(q).start <= Len(C!KeptDigests(q))
  PROVE  C!PairsIntact(c.messages)
<1> DEFINE k == Len(C!KeptDigests(q))
           s == C!Partition(q).start
           m == c.messages
           L == Len(q)
           T == C!TailStart(q)
           B == C!MoveBack(q, T)
<1>1. /\ k \in Nat /\ s \in 0 .. L /\ m \in Seq(Messages(U))
      /\ \/ m = q
         \/ k < s /\ s \in 0 .. L - 1 /\ Summarised(q, m, k, s)
  BY Cuts
<1>2. CASE m = q
  BY <1>2
<1>3. CASE k < s /\ s \in 0 .. L - 1 /\ Summarised(q, m, k, s)
  <2>1. L \in Nat /\ L > 0 /\ q # <<>> /\ ~ C!CutShort(q)
    BY <1>1, <1>3
  <2>2. TailAt(q, T, B, s)
    BY Aligned
  <2>3. \A j \in 1 .. L : q[j].role = "tool" =>
          \E i \in 1 .. j - 1 : \A x \in i + 1 .. j : C!Answers(q, x, i)
    BY DEF C!PairsIntact
  <2> HIDE DEF k, s, m, T, B
  <2>4. T \in 0 .. L /\ B \in 0 .. T /\ T < L
    BY <2>1, <2>2 DEF TailAt
  <2>5. ~ C!Unanswered(q, B, L)
    <3>1. SUFFICES ASSUME C!Unanswered(q, B, L) PROVE FALSE
      OBVIOUS
    <3>2. /\ q[L].role = "assistant"
          /\ \E n \in 1 .. q[L].calls : ~ \E j \in B + 1 .. L : C!Answers(q, j, L) /\ q[j].calls = n
      BY <3>1 DEF C!Unanswered
    <3>3. \A j \in 1 .. L : ~ C!Answers(q, j, L)
      BY <2>1 DEF EndsFresh
    <3>4. C!Unanswered(q, 0, L)
      BY <3>2, <3>3 DEF C!Unanswered
    <3>5. QED
      BY <2>1, <3>4 DEF C!CutShort
  <2>6. q[s + 1].role # "tool"
    <3>1. CASE q[T + 1].role = "tool"
      <4>1. PICK t \in 1 .. L : t = T + 1 /\ t - 1 = T
        BY <2>1, <2>4
      <4>2. PICK i \in 1 .. T : \A x \in i + 1 .. T + 1 : C!Answers(q, x, i)
        <5>1. \E i \in 1 .. t - 1 : \A x \in i + 1 .. t : C!Answers(q, x, i)
          BY <2>3, <3>1, <4>1
        <5>2. QED
          BY <4>1, <5>1
      <4>3. C!Answers(q, T + 1, i)
        BY <2>4, <4>2
      <4>4. B < T /\ s = B /\ C!Answers(q, T + 1, B + 1)
        BY <2>1, <2>2, <2>5, <4>3 DEF TailAt
      <4>5. q[B + 1].role = "assistant"
        BY <4>4 DEF C!Answers
      <4>6. QED
        BY <4>4, <4>5
    <3>2. CASE q[T + 1].role # "tool"
      <4>1. ~ (B < T)
        BY <2>2, <3>2 DEF TailAt, C!Answers
      <4>2. s = T
        BY <1>3, <2>2, <2>4, <4>1 DEF TailAt
      <4>3. QED
        BY <3>2, <4>2
    <3>3. QED
      BY <3>1, <3>2
  <2>7. /\ Len(m) = k + 1 + L - s /\ Len(m) \in Nat
        /\ \A i \in 1 .. Len(m) : m[i].role # "digest" => i \in k + 2 .. Len(m)
        /\ \A i \in k + 2 .. Len(m) : i - (k + 1) + s \in s + 1 .. L /\ m[i] = q[i - (k + 1) + s]
    BY <1>1, <1>3, FromTail
  <2>8. ASSUME NEW j \in 1 .. Len(m), m[j].role = "tool"
        PROVE  \E i \in 1 .. j - 1 : \A x \in i + 1 .. j : C!Answers(m, x, i)
    <3>1. j \in k + 2 .. Len(m)
      BY <2>7, <2>8
    <3> DEFINE jj == j - (k + 1) + s
    <3>2. jj \in s + 1 .. L /\ jj \in 1 .. L /\ q[jj].role = "tool"
      BY <1>3, <2>7, <2>8, <3>1
    <3>3. PICK ii \in 1 .. jj - 1 : \A x \in ii + 1 .. jj : C!Answers(q, x, ii)
      <4> HIDE DEF jj
      <4>1. QED
        BY <2>3, <3>2
    <3>4. ii >= s + 1
      <4>1. SUFFICES ASSUME ii <= s PROVE FALSE
        BY <1>3
      <4>2. s + 1 \in ii + 1 .. jj
        BY <1>3, <3>2, <4>1
      <4>3. C!Answers(q, s + 1, ii)
        BY <3>3, <4>2
      <4>4. QED
        BY <2>6, <4>3 DEF C!Answers
    <3> DEFINE i == ii - s + (k + 1)
    <3>5. i \in 1 .. j - 1 /\ i \in k + 2 .. Len(m) /\ i - (k + 1) + s = ii
      BY <1>1, <1>3, <2>7, <3>1, <3>2, <3>3, <3>4
    <3>6. ASSUME NEW x \in i + 1 .. j PROVE C!Answers(m, x, i)
      <4>1. x \in k + 2 .. Len(m) /\ x - (k + 1) + s \in ii + 1 .. jj
        BY <1>1, <1>3, <2>7, <3>1, <3>5
      <4>2. m[x] = q[x - (k + 1) + s] /\ m[i] = q[ii]
        BY <2>7, <3>5, <4>1
      <4>3. C!Answers(q, x - (k + 1) + s, ii)
        BY <3>3, <4>1
      <4> HIDE DEF i, jj
      <4>4. QED
        BY <4>2, <4>3, SameAnswers
    <3>7. QED
      BY <3>5, <3>6
  <2>9. DOMAIN m = 1 .. Len(m)
    BY <1>1
  <2>10. QED
    BY <2>8, <2>9 DEF C!PairsIntact, m
<1>4. QED
  BY <1>1, <1>2, <1>3

\* What a compaction leaves is not compacted any further while it ends with an unanswered
\* call.
LEMMA StaysSteady ==
  ASSUME NEW U, NoId \in U, NEW q \in Seq(Messages(U)), NEW c \in C!Compactions(q),
         c.success, EndsFresh(q)
  PROVE  Steady(c.messages)
<1> DEFINE k == Len(C!KeptDigests(q))
           s == C!Partition(q).start
           m == c.messages
           L == Len(q)
           T == C!TailStart(q)
           B == C!MoveBack(q, T)
<1>1. /\ k \in Nat /\ s \in 0 .. L /\ m \in Seq(Messages(U))
      /\ \/ m = q /\ s <= k
         \/ k < s /\ s \in 0 .. L - 1 /\ Summarised(q, m, k, s)
  BY Cuts
<1>2. CASE m = q /\ s <= k
  BY <1>2 DEF Steady
<1>3. CASE k < s /\ s \in 0 .. L - 1 /\ Summarised(q, m, k, s)
  <2> DEFINE mk == Len(C!KeptDigests(m))
             ms == C!Partition(m).start
             mT == C!TailStart(m)
             mB == C!MoveBack(m, mT)
  <2>1. SUFFICES ASSUME C!PairsIntact(m), C!CutShort(m) PROVE ms <= mk
    BY DEF Steady
  <2>2. TailAt(q, T, B, s) /\ TailAt(m, mT, mB, ms)
    <3>1. TailAt(q, T, B, s)
      BY Aligned
    <3> HIDE DEF m
    <3>2. TailAt(m, mT, mB, ms)
      BY <1>1, Aligned
    <3>3. QED
      BY <3>1, <3>2
  <2>3. RecentKeep \in Nat
    BY PartsAssumption DEF C!CompactionAssumption
  <2>4. L \in Nat /\ L > 0 /\ q # <<>>
    BY <1>1, <1>3
  <2>5. /\ Len(m) = k + 1 + L - s /\ Len(m) \in Nat
        /\ \A i \in k + 2 .. Len(m) : i - (k + 1) + s \in s + 1 .. L /\ m[i] = q[i - (k + 1) + s]
        /\ \A i \in s + 1 .. L : i - s + (k + 1) \in k + 2 .. Len(m) /\ m[i - s + (k + 1)] = q[i]
        /\ \A j, i \in 1 .. Len(m) : C!Answers(m, j, i) =>
             /\ j \in k + 2 .. Len(m) /\ i \in k + 2 .. Len(m)
             /\ C!Answers(q, j - (k + 1) + s, i - (k + 1) + s)
    <3> HIDE DEF k, s, m
    <3>1. QED
      BY <1>1, <1>3, FromTail
  <2>6. k + 1 <= mk
    <3>1. k + 1 \in 0 .. Len(m) /\ \A i \in 1 .. k + 1 : m[i].role = "digest"
      BY <1>1, <1>3, <2>5 DEF Summarised
    <3> HIDE DEF k, s, m
    <3>2. QED
      BY <1>1, <3>1, KeptFirst
  <2>7. mk \in Nat
    <3> HIDE DEF m
    <3>1. QED
      BY <1>1, KeptAre
  <2>8. \A j \in 1 .. Len(m) : m[j].role = "tool" =>
          \E i \in 1 .. j - 1 : \A x \in i + 1 .. j : C!Answers(m, x, i)
    BY <1>1, <2>1 DEF C!PairsIntact
  <2> HIDE DEF k, s, m, T, B, mk, ms, mT, mB
  <2>9. /\ T \in 0 .. L /\ B \in 0 .. T /\ T < L /\ s \in B .. T /\ (s < T => B < T)
        /\ T = IF L > RecentKeep THEN L - RecentKeep ELSE 0
    BY <2>2, <2>4 DEF TailAt
  <2>10. s = T
    <3>1. SUFFICES ASSUME s < T PROVE FALSE
      BY <1>1, <2>9
    <3>2. B < T /\ C!Answers(q, T + 1, B + 1) /\ \A i \in B + 2 .. T : ~ C!Answers(q, T + 1, i)
      BY <2>2, <2>9, <3>1 DEF TailAt
    <3>3. q[L].role = "assistant" /\ \E n \in 1 .. q[L].calls : TRUE
      <4>1. C!Unanswered(m, 0, Len(m))
        BY <2>1 DEF C!CutShort
      <4>2. m[Len(m)] = q[L]
        <5>1. L \in s + 1 .. L /\ L - s + (k + 1) = Len(m)
          BY <1>1, <1>3, <2>4, <2>5
        <5>2. QED
          BY <2>5, <5>1
      <4>3. QED
        BY <4>1, <4>2 DEF C!Unanswered
    <3>4. C!Unanswered(q, B, L)
      <4>1. \A j \in 1 .. L : ~ C!Answers(q, j, L)
        BY <2>4 DEF EndsFresh
      <4>2. B + 1 .. L \subseteq 1 .. L
        BY <2>9
      <4>3. QED
        BY <3>3, <4>1, <4>2 DEF C!Unanswered
    <3>5. B < s
      BY <2>2, <2>9, <3>2, <3>4 DEF TailAt
    <3> DEFINE j == T + 1 - s + (k + 1)
    <3>6. j \in k + 2 .. Len(m) /\ j \in 1 .. Len(m) /\ m[j] = q[T + 1] /\ j - (k + 1) + s = T + 1
      <4>1. PICK t \in s + 1 .. L : t = T + 1
        BY <1>3, <2>9, <3>1
      <4>2. j \in k + 2 .. Len(m) /\ m[j] = q[T + 1]
        <5>1. t - s + (k + 1) \in k + 2 .. Len(m) /\ m[t - s + (k + 1)] = q[t]
          BY <2>5
        <5>2. T \in Nat /\ s \in Nat
          BY <1>1, <2>9
        <5>3. j = t - s + (k + 1) /\ q[T + 1] = q[t]
          BY <1>1, <4>1, <5>2
        <5> HIDE DEF j
        <5>4. QED
          BY <5>1, <5>3
      <4>3. j - (k + 1) + s = T + 1
        BY <1>1, <2>9
      <4>4. j \in 1 .. Len(m)
        <5>1. k + 2 .. Len(m) \subseteq 1 .. Len(m)
          BY <1>1
        <5> HIDE DEF j
        <5>2. QED
          BY <4>2, <5>1
      <4>5. QED
        BY <4>2, <4>3, <4>4
    <3>7. m[j].role = "tool"
      BY <3>2, <3>6 DEF C!Answers
    <3>8. PICK i \in 1 .. j - 1 : \A x \in i + 1 .. j : C!Answers(m, x, i)
      <4> HIDE DEF j
      <4>1. QED
        BY <2>8, <3>6, <3>7
    <3>9. C!Answers(m, j, i) /\ i \in 1 .. Len(m) /\ i < j
      <4> HIDE DEF j
      <4>1. QED
        BY <2>5, <3>6, <3>8
    <3>10. i \in k + 2 .. Len(m) /\ C!Answers(q, T + 1, i - (k + 1) + s)
      <4> HIDE DEF j
      <4>1. QED
        BY <2>5, <3>6, <3>9
    <3>11. i - (k + 1) + s \in B + 2 .. T
      BY <1>1, <1>3, <2>9, <3>5, <3>9, <3>10
    <3>12. QED
      BY <3>2, <3>10, <3>11
  <2>11. mT <= k + 1 /\ ms <= mT
    <3>1. T > 0
      BY <1>1, <1>3, <2>10
    <3>2. L - s = RecentKeep
      BY <1>1, <1>3, <2>3, <2>4, <2>9, <2>10, <3>1
    <3>3. Len(m) - RecentKeep = k + 1
      <4>1. Len(m) = k + 1 + L - s /\ k \in Nat /\ s \in Nat
        BY <1>1, <2>5
      <4>2. QED
        BY <2>3, <2>4, <3>2, <4>1
    <3>4. /\ mT = IF Len(m) > RecentKeep THEN Len(m) - RecentKeep ELSE 0
          /\ mT \in 0 .. Len(m) /\ mB \in 0 .. mT /\ ms \in mB .. mT
      BY <2>2 DEF TailAt
    <3>5. QED
      BY <1>1, <2>3, <2>5, <3>3, <3>4
  <2>12. ms \in Nat /\ mT \in Nat
    BY <2>2, <2>5 DEF TailAt
  <2>13. QED
    BY <1>1, <2>6, <2>7, <2>11, <2>12
<1>4. QED
  BY <1>1, <1>2, <1>3

\* A compaction of a conversation that begins with its digests forgets none of it.
LEMMA NothingForgotten ==
  ASSUME NEW U, NoId \in U, NEW q \in Seq(Messages(U)), NEW c \in C!Compactions(q),
         C!DigestsLead(q)
  PROVE  ~ C!Forgets(c)
<1> DEFINE k == Len(C!KeptDigests(q))
           s == C!Partition(q).start
           m == c.messages
           L == Len(q)
<1>1. /\ k \in Nat /\ s \in 0 .. L /\ m \in Seq(Messages(U))
      /\ \/ m = q
         \/ k < s /\ s \in 0 .. L - 1 /\ Summarised(q, m, k, s) /\ CoversFold(q, c, k, s)
  BY Cuts
<1>2. c.from = q
  BY CompactionMakes
<1>3. CASE m = q
  BY <1>2, <1>3 DEF C!Forgets
<1>4. CASE k < s /\ s \in 0 .. L - 1 /\ Summarised(q, m, k, s) /\ CoversFold(q, c, k, s)
  <2>1. /\ \A i \in 1 .. k : C!KeptDigests(q)[i] = q[i]
        /\ \A i \in k + 1 .. L : q[i].role # "digest"
    BY KeptLead
  <2>2. DOMAIN q = 1 .. L /\ DOMAIN m = 1 .. Len(m) /\ L \in Nat
    BY <1>1
  <2>3. PICK e \in s .. L :
          \A i \in k + 1 .. e : q[i].role # "digest" => C!KeyOf(q[i]) \in c.of \cup c.dropped
    BY <1>4 DEF CoversFold
  <2> HIDE DEF k, s, m, L
  <2>4. /\ Len(m) = k + 1 + L - s /\ Len(m) \in Nat
        /\ \A i \in s + 1 .. L : i - s + (k + 1) \in k + 2 .. Len(m) /\ m[i - s + (k + 1)] = q[i]
    <3>1. k < s /\ s \in 0 .. Len(q) - 1 /\ Summarised(q, m, k, s)
      BY <1>4 DEF L
    <3>2. /\ Len(m) = k + 1 + Len(q) - s /\ Len(m) \in Nat
          /\ \A i \in s + 1 .. Len(q) : i - s + (k + 1) \in k + 2 .. Len(m) /\ m[i - s + (k + 1)] = q[i]
      BY <1>1, <3>1, FromTail
    <3>3. QED
      BY <3>2 DEF L
  <2>5. ASSUME NEW i \in 1 .. L, q[i].role = "digest" PROVE q[i] \in C!DigestsOf(m)
    <3>1. i \in 1 .. k
      BY <1>1, <2>1, <2>5
    <3>2. m[i] = q[i] /\ i \in 1 .. Len(m)
      BY <1>1, <1>4, <2>1, <2>2, <2>4, <3>1 DEF Summarised
    <3>3. m[i].role = "digest"
      BY <2>5, <3>2
    <3>4. QED
      BY <2>2, <3>2, <3>3 DEF C!DigestsOf
  <2>6. ASSUME NEW i \in 1 .. L, q[i].role # "digest"
        PROVE  C!KeyOf(q[i]) \in C!Keys(m) \cup c.of \cup c.dropped
    <3>1. ~ (i \in 1 .. k)
      <4>1. SUFFICES ASSUME i \in 1 .. k PROVE FALSE
        OBVIOUS
      <4>2. C!KeptDigests(q)[i].role = "digest"
        BY <4>1, KeptAre DEF k
      <4>3. QED
        BY <2>1, <2>6, <4>1, <4>2
    <3>2. CASE i <= e
      BY <1>1, <2>3, <2>6, <3>1, <3>2
    <3>3. CASE i > e
      <4>1. i \in s + 1 .. L
        BY <1>4, <2>2, <2>3, <3>3
      <4>2. PICK x \in k + 2 .. Len(m) : m[x] = q[i]
        BY <2>4, <4>1
      <4>3. x \in 1 .. Len(m) /\ m[x].role # "digest"
        BY <1>1, <2>4, <2>6, <4>2
      <4>4. C!KeyOf(m[x]) \in C!Keys(m)
        BY <1>1, <4>3, KeysAre
      <4>5. QED
        BY <4>2, <4>4
    <3>4. QED
      BY <2>2, <2>3, <3>2, <3>3
  <2>7. C!DigestsOf(q) \subseteq C!DigestsOf(m)
    <3>1. C!DigestsOf(q) = {q[i] : i \in {j \in 1 .. L : q[j].role = "digest"}}
      BY <2>2 DEF C!DigestsOf
    <3>2. QED
      BY <2>5, <3>1
  <2>8. C!Keys(q) \subseteq C!Keys(m) \cup c.of \cup c.dropped
    <3>1. C!Keys(q) = {C!KeyOf(q[i]) : i \in {j \in 1 .. L : q[j].role # "digest"}}
      BY KeysAre DEF L
    <3>2. QED
      BY <2>6, <3>1
  <2>9. QED
    BY <1>2, <2>7, <2>8 DEF C!Forgets, m
<1>5. QED
  BY <1>1, <1>3, <1>4

\* What a compaction leaves was there, but for its digest.
LEMMA CompactionAdds ==
  ASSUME NEW U, NoId \in U, NEW M \in SUBSET Messages(U), NEW q \in Seq(M),
         NEW c \in C!Compactions(q)
  PROVE  /\ Len(c.messages) \in Nat
         /\ \A i \in 1 .. Len(c.messages) :
              \/ c.messages[i] \in M
              \/ c.messages[i].role = "digest" /\ c.messages[i].run = 0
<1> DEFINE k == Len(C!KeptDigests(q))
           s == C!Partition(q).start
           m == c.messages
<1>1. q \in Seq(Messages(U)) /\ \A i \in 1 .. Len(q) : q[i] \in M
  OBVIOUS
<1>2. /\ k \in Nat /\ s \in 0 .. Len(q) /\ m \in Seq(Messages(U))
      /\ \/ m = q
         \/ k < s /\ s \in 0 .. Len(q) - 1 /\ Summarised(q, m, k, s)
  BY <1>1, Cuts
<1>3. CASE m = q
  BY <1>1, <1>3
<1>4. CASE k < s /\ s \in 0 .. Len(q) - 1 /\ Summarised(q, m, k, s)
  <2>1. C!KeptDigests(q) \in Seq(M)
    BY KeptAre
  <2>2. \A i \in 1 .. k : C!KeptDigests(q)[i] \in M
    BY <2>1
  <2> HIDE DEF k, s, m
  <2>3. /\ Len(m) = k + 1 + Len(q) - s /\ Len(m) \in Nat
        /\ \A i \in k + 2 .. Len(m) : i - (k + 1) + s \in s + 1 .. Len(q) /\ m[i] = q[i - (k + 1) + s]
    BY <1>1, <1>2, <1>4, FromTail
  <2>4. ASSUME NEW i \in 1 .. Len(m) PROVE m[i] \in M \/ (m[i].role = "digest" /\ m[i].run = 0)
    <3>1. CASE i \in 1 .. k
      BY <1>4, <2>2, <3>1 DEF Summarised
    <3>2. CASE i = k + 1
      BY <1>2, <1>4, <3>2 DEF Summarised
    <3>3. CASE i \in k + 2 .. Len(m)
      <4>1. i - (k + 1) + s \in 1 .. Len(q)
        BY <1>2, <2>3, <3>3
      <4>2. QED
        BY <1>1, <2>3, <3>3, <4>1
    <3>4. QED
      BY <1>2, <2>3, <3>1, <3>2, <3>3
  <2>5. QED
    BY <2>3, <2>4 DEF m
<1>5. QED
  BY <1>2, <1>3, <1>4

\* A table has no two rows with an id.
Distinct(d) == \A i, j \in 1 .. Len(d) : i # j => d[i].id # d[j].id

\* Table new is d with the row behind the first n.
InsertedAt(new, d, n, row) ==
  /\ Len(new) = Len(d) + 1
  /\ \A i \in 1 .. n : new[i] = d[i]
  /\ new[n + 1] = row
  /\ \A i \in n + 2 .. Len(d) + 1 : new[i] = d[i - 1]

LEMMA Inserts ==
  ASSUME NEW R, NEW d \in Seq(R), NEW n \in 0 .. Len(d), NEW row \in R
  PROVE  C!InsertAt(d, n + 1, row) \in Seq(R) /\ InsertedAt(C!InsertAt(d, n + 1, row), d, n, row)
<1> DEFINE L == Len(d)
           a == SubSeq(d, 1, n)
           t == SubSeq(d, n + 1, L)
           new == C!InsertAt(d, n + 1, row)
<1>1. L \in Nat /\ n \in Nat /\ n <= L /\ d \in Seq(R)
  OBVIOUS
<1>2. new = a \o <<row>> \o t
  <2>1. PICK p \in Nat : p = n + 1 /\ p - 1 = n
    BY <1>1
  <2>2. C!InsertAt(d, p, row) = SubSeq(d, 1, p - 1) \o <<row>> \o SubSeq(d, p, Len(d))
    BY DEF C!InsertAt
  <2>3. QED
    BY <2>1, <2>2
<1>3. a \in Seq(R) /\ Len(a) = n /\ \A i \in 1 .. n : a[i] = d[i]
  <2> HIDE DEF L
  <2>1. QED
    BY <1>1 DEF L
<1>4. t \in Seq(R) /\ Len(t) = L - n /\ \A i \in 1 .. L - n : t[i] = d[n + i]
  <2>1. n + 1 \in 1 .. L + 1
    BY <1>1
  <2>2. QED
    BY <1>1, <2>1
<1> HIDE DEF a, t, new
<1>5. new \in Seq(R) /\ MadeOf(new, a, row, t)
  BY <1>2, <1>3, <1>4, Threes
<1> HIDE DEF L
<1>6. /\ Len(new) = L + 1
      /\ \A i \in 1 .. n : new[i] = d[i]
      /\ new[n + 1] = row
  BY <1>1, <1>3, <1>4, <1>5 DEF MadeOf
<1>7. ASSUME NEW i \in n + 2 .. L + 1 PROVE new[i] = d[i - 1]
  <2>1. i \in Len(a) + 2 .. Len(a) + 1 + Len(t)
    BY <1>1, <1>3, <1>4
  <2>2. new[i] = t[i - (n + 1)]
    BY <1>3, <1>5, <2>1 DEF MadeOf
  <2>3. i - (n + 1) \in 1 .. L - n /\ n + (i - (n + 1)) = i - 1
    BY <1>1
  <2>4. QED
    BY <1>4, <2>2, <2>3
<1>8. QED
  BY <1>5, <1>6, <1>7 DEF new, L, InsertedAt

\* Table new has the row, and of d all but one with its id.
SavedIn(new, d, row) ==
  /\ \E i \in 1 .. Len(new) : new[i] = row
  /\ \A j \in 1 .. Len(d) : d[j].id # row.id => \E i \in 1 .. Len(new) : new[i] = d[j]
  /\ \A i \in 1 .. Len(new) : new[i] = row \/ \E j \in 1 .. Len(d) : new[i] = d[j]

\* Saving a row: the table keeps one row for an id, and every row with another.
LEMMA SavesRow ==
  ASSUME NEW R, NEW d \in Seq(R), NEW row \in R, Distinct(d)
  PROVE  /\ C!SaveRow(d, row) \in Seq(R) /\ Distinct(C!SaveRow(d, row))
         /\ SavedIn(C!SaveRow(d, row), d, row)
<1> DEFINE L == Len(d)
           new == C!SaveRow(d, row)
<1>1. L \in Nat /\ DOMAIN d = 1 .. L /\ \A i \in 1 .. L : d[i] \in R
  OBVIOUS
<1>2. CASE \E i \in 1 .. L : d[i].id = row.id
  <2>1. new = [i \in 1 .. L |-> IF d[i].id = row.id THEN row ELSE d[i]]
    BY <1>1, <1>2 DEF C!SaveRow
  <2> HIDE DEF new
  <2>2. new \in Seq(R) /\ Len(new) = L
    BY <1>1, <2>1
  <2>3. \A i \in 1 .. L : new[i] = IF d[i].id = row.id THEN row ELSE d[i]
    BY <2>1
  <2> HIDE DEF L
  <2>4. \A i \in 1 .. L : new[i].id = d[i].id
    BY <2>3
  <2>5. Distinct(new)
    BY <2>2, <2>4 DEF Distinct, L
  <2>6. \E i \in 1 .. L : new[i] = row
    BY <1>2, <2>3
  <2>7. QED
    BY <2>2, <2>3, <2>5, <2>6 DEF new, L, SavedIn
<1>3. CASE \A i \in 1 .. L : d[i].id # row.id
  <2> DEFINE older == {i \in DOMAIN d : d[i].ts <= row.ts}
             n == C!Cardinality(older)
  <2>1. new = C!InsertAt(d, n + 1, row)
    BY <1>1, <1>3 DEF C!SaveRow
  <2>2. n \in 0 .. L
    <3>1. IsFiniteSet(1 .. L) /\ Cardinality(1 .. L) = L
      <4>1. IsFiniteSet(1 .. L) /\ Cardinality(1 .. L) = IF 1 > L THEN 0 ELSE L - 1 + 1
        BY <1>1, FS_Interval
      <4> HIDE DEF L
      <4>2. QED
        BY <1>1, <4>1
    <3>2. older \in SUBSET (1 .. L)
      BY <1>1
    <3>3. Cardinality(older) <= L /\ IsFiniteSet(older)
      BY <3>1, <3>2, FS_Subset
    <3>4. Cardinality(older) \in Nat
      BY <3>3, FS_CardinalityType
    <3>5. n = Cardinality(older)
      BY DEF C!Cardinality, Cardinality
    <3>6. QED
      BY <1>1, <3>3, <3>4, <3>5
  <2> HIDE DEF n, new, L
  <2>3. /\ new \in Seq(R) /\ Len(new) = L + 1
        /\ \A i \in 1 .. n : new[i] = d[i]
        /\ new[n + 1] = row
        /\ \A i \in n + 2 .. L + 1 : new[i] = d[i - 1]
    <3>1. new \in Seq(R) /\ InsertedAt(new, d, n, row)
      BY <2>1, <2>2, Inserts DEF L
    <3>2. QED
      BY <3>1 DEF InsertedAt, L
  <2>4. \A i \in 1 .. L + 1 : \/ i \in 1 .. n /\ i \in 1 .. L
                              \/ i = n + 1
                              \/ i \in n + 2 .. L + 1 /\ i - 1 \in 1 .. L
    BY <1>1, <2>2
  <2>5. ASSUME NEW i \in 1 .. L + 1, NEW j \in 1 .. L + 1, i < j PROVE new[i].id # new[j].id
    <3>1. ASSUME NEW x \in 1 .. L, NEW y \in 1 .. L, x # y PROVE d[x].id # d[y].id
      BY <3>1 DEF Distinct, L
    <3>2. CASE i \in 1 .. n
      <4>1. new[i] = d[i] /\ i \in 1 .. L
        BY <1>1, <2>2, <2>3, <3>2
      <4>2. CASE j \in 1 .. n
        BY <1>1, <2>2, <2>3, <2>5, <3>1, <4>1, <4>2
      <4>3. CASE j = n + 1
        BY <1>3, <2>3, <4>1, <4>3
      <4>4. CASE j \in n + 2 .. L + 1
        <5>1. j - 1 \in 1 .. L /\ i # j - 1
          BY <1>1, <2>2, <3>2, <4>4
        <5>2. QED
          BY <2>3, <3>1, <4>1, <4>4, <5>1
      <4>5. QED
        BY <2>4, <4>2, <4>3, <4>4
    <3>3. CASE i = n + 1
      BY <1>1, <1>3, <2>2, <2>3, <2>4, <2>5, <3>3
    <3>4. CASE i \in n + 2 .. L + 1
      <4>1. j \in n + 2 .. L + 1 /\ i - 1 \in 1 .. L /\ j - 1 \in 1 .. L /\ i - 1 # j - 1
        BY <1>1, <2>2, <2>5, <3>4
      <4>2. QED
        BY <2>3, <3>1, <3>4, <4>1
    <3>5. QED
      BY <2>4, <3>2, <3>3, <3>4
  <2>6. Distinct(new)
    <3>1. SUFFICES ASSUME NEW i \in 1 .. L + 1, NEW j \in 1 .. L + 1, i # j PROVE new[i].id # new[j].id
      BY <2>3 DEF Distinct
    <3>2. i < j \/ j < i
      BY <1>1, <3>1
    <3>3. QED
      BY <2>5, <3>2
  <2>7. n + 1 \in 1 .. L + 1
    BY <1>1, <2>2
  <2>8. ASSUME NEW j \in 1 .. L PROVE \E i \in 1 .. L + 1 : new[i] = d[j]
    <3>1. CASE j <= n
      <4>1. j \in 1 .. n /\ j \in 1 .. L + 1
        BY <1>1, <2>2, <3>1
      <4>2. QED
        BY <2>3, <4>1
    <3>2. CASE j > n
      <4>1. PICK i \in n + 2 .. L + 1 : i = j + 1 /\ i - 1 = j
        BY <1>1, <2>2, <3>2
      <4>2. i \in 1 .. L + 1 /\ new[i] = d[j]
        BY <1>1, <2>2, <2>3, <4>1
      <4>3. QED
        BY <4>2
    <3>3. QED
      BY <1>1, <2>2, <3>1, <3>2
  <2>9. \A i \in 1 .. L + 1 : new[i] = row \/ \E j \in 1 .. L : new[i] = d[j]
    BY <2>3, <2>4
  <2>10. QED
    BY <2>3, <2>6, <2>7, <2>8, <2>9 DEF new, L, SavedIn
<1>4. QED
  BY <1>2, <1>3

\* The rows of a table with the ids U, none of them of a tool message.
RowsOf(U) == {m \in Messages(U) : m.role # "tool"}
Spoken(n) == mem[n].role \in {"assistant", "digest"}

\* The recursion of AnswersSaved, one message at a time.
AnswerStep(g, n) ==
  IF n <= before THEN disk
  ELSE IF mem[n].role \in {"assistant", "digest"} THEN C!SaveRow(g[n - 1], C!RowOf(n))
  ELSE g[n - 1]
SavesAnswers(g) == g = [n \in 0 .. Len(mem) |-> AnswerStep(g, n)]

\* A row is that of message n.
RowFor(row, n) ==
  /\ row.id = <<"row", run, n>> /\ row.run = mem[n].run /\ row.role = mem[n].role
  /\ C!KeyOf(row) = C!KeyOf(mem[n])

LEMMA RowOfIs ==
  ASSUME NEW U, mem \in Seq(Messages(U)), before \in Nat, now \in Nat,
         NEW n \in 1 .. Len(mem), n > before, Spoken(n), <<"row", run, n>> \in U
  PROVE  C!RowOf(n) \in RowsOf(U) /\ RowFor(C!RowOf(n), n)
<1>1. mem[n] \in Messages(U)
  OBVIOUS
<1>2. now + n - before - 1 \in Nat
  OBVIOUS
<1>3. C!RowOf(n) = [mem[n] EXCEPT !.id = <<"row", run, n>>, !.ts = now + n - before - 1]
  BY DEF C!RowOf
<1>4. mem[n].role # "tool"
  BY DEF Spoken
<1>5. QED
  BY <1>1, <1>2, <1>3, <1>4 DEF RowsOf, Messages, C!KeyOf, RowFor

\* A table is made of disk and of rows of the first n messages.
AnswersUpTo(t, n) ==
  /\ \A i \in 1 .. Len(disk) : \E x \in 1 .. Len(t) : t[x] = disk[i]
  /\ \A i \in before + 1 .. Len(mem) : i <= n /\ Spoken(i) => \E x \in 1 .. Len(t) : t[x] = C!RowOf(i)
  /\ \A x \in 1 .. Len(t) :
       \/ \E i \in 1 .. Len(disk) : t[x] = disk[i]
       \/ \E i \in before + 1 .. Len(mem) : i <= n /\ Spoken(i) /\ t[x] = C!RowOf(i)

LEMMA AnswersTable ==
  ASSUME NEW U, mem \in Seq(Messages(U)), disk \in Seq(RowsOf(U)), Distinct(disk),
         before \in Nat, now \in Nat, \A n \in Nat : <<"row", run, n>> \in U
  PROVE  \E g : /\ C!AnswersSaved = g[Len(mem)]
                /\ g[0] = disk
                /\ \A n \in 0 .. Len(mem) : g[n] \in Seq(RowsOf(U)) /\ Distinct(g[n])
                /\ \A n \in 1 .. Len(mem) : g[n] = AnswerStep(g, n)
<1> DEFINE N == Len(mem)
           D == {s \in Seq(RowsOf(U)) : Distinct(s)}
           step == [n \in 1 .. N |-> [s \in D |->
                      IF n <= before THEN disk
                      ELSE IF mem[n].role \in {"assistant", "digest"} THEN C!SaveRow(s, C!RowOf(n))
                      ELSE s]]
           saved == CHOOSE g : SavesAnswers(g)
<1>1. N \in Nat /\ disk \in D
  OBVIOUS
<1>2. ASSUME NEW n \in 1 .. N, n > before, mem[n].role \in {"assistant", "digest"}, NEW s \in D
      PROVE  C!SaveRow(s, C!RowOf(n)) \in D
  <2>1. C!RowOf(n) \in RowsOf(U)
    <3>1. n \in 1 .. Len(mem) /\ n > before /\ Spoken(n) /\ <<"row", run, n>> \in U
      BY <1>1, <1>2 DEF Spoken
    <3>2. QED
      BY <3>1, RowOfIs
  <2>2. s \in Seq(RowsOf(U)) /\ Distinct(s)
    OBVIOUS
  <2>3. C!SaveRow(s, C!RowOf(n)) \in Seq(RowsOf(U)) /\ Distinct(C!SaveRow(s, C!RowOf(n)))
    BY <2>1, <2>2, SavesRow
  <2>4. QED
    BY <2>3
<1>3. step \in [1 .. N -> [D -> D]]
  <2>1. ASSUME NEW n \in 1 .. N, NEW s \in D
        PROVE  (IF n <= before THEN disk
                ELSE IF mem[n].role \in {"assistant", "digest"} THEN C!SaveRow(s, C!RowOf(n))
                ELSE s) \in D
    <3> HIDE DEF D
    <3>1. n > before \/ n <= before
      BY <1>1
    <3>2. QED
      BY <1>1, <1>2, <3>1
  <2> HIDE DEF D
  <2>2. QED
    BY <2>1
<1>4. PICK f \in [0 .. N -> D] : Iteration(f, N, disk, step)
  <2> HIDE DEF N, step, D
  <2>1. QED
    BY <1>1, <1>3, Iterates
<1>5. \A n \in 0 .. N : f[n] = AnswerStep(f, n)
  <2> TAKE n \in 0 .. N
  <2>1. CASE n = 0
    BY <1>4, <2>1 DEF AnswerStep, Iteration
  <2>2. CASE n # 0
    <3>1. n \in 1 .. N /\ n - 1 \in 0 .. N /\ f[n - 1] \in D
      BY <1>1, <1>4, <2>2
    <3>2. f[n] = step[n][f[n - 1]]
      BY <1>4, <3>1 DEF Iteration
    <3> HIDE DEF D
    <3>3. QED
      BY <3>1, <3>2 DEF AnswerStep
  <2>3. QED
    BY <2>1, <2>2
<1>6. SavesAnswers(f)
  <2> HIDE DEF D
  <2>1. QED
    BY <1>4, <1>5 DEF SavesAnswers
<1>7. SavesAnswers(saved)
  BY <1>6
<1>8. C!AnswersSaved = saved[N]
  BY DEF C!AnswersSaved, SavesAnswers, AnswerStep
<1> HIDE DEF saved
<1>9. \A n \in 0 .. N : saved[n] = AnswerStep(saved, n)
  BY <1>7 DEF SavesAnswers
<1>10. saved[0] = disk
  BY <1>1, <1>9 DEF AnswerStep
<1> DEFINE S == {n \in 0 .. N : saved[n] \in D}
<1>11. 0 \in S
  BY <1>1, <1>10
<1>12. ASSUME NEW n \in 1 .. N, n - 1 \in S PROVE n \in S
  <2>1. saved[n] = AnswerStep(saved, n) /\ saved[n - 1] \in D
    BY <1>1, <1>9, <1>12
  <2>2. n > before \/ n <= before
    BY <1>1
  <2>3. saved[n] \in D
    <3> HIDE DEF D, S
    <3>1. QED
      BY <1>1, <1>2, <2>1, <2>2 DEF AnswerStep
  <2>4. QED
    BY <2>3
<1>13. \A n \in 0 .. N : n \in S
  <2> HIDE DEF S, N
  <2>1. QED
    BY <1>1, <1>11, <1>12, Climb
<1>14. \A n \in 0 .. N : saved[n] \in Seq(RowsOf(U)) /\ Distinct(saved[n])
  BY <1>13
<1>15. \A n \in 1 .. N : saved[n] = AnswerStep(saved, n)
  BY <1>1, <1>9
<1>16. QED
  BY <1>8, <1>10, <1>14, <1>15

\* Hook 2 adds a row for each assistant message from turnsBefore on, and takes none away.
LEMMA AnswersAre ==
  ASSUME NEW U, mem \in Seq(Messages(U)), disk \in Seq(RowsOf(U)), Distinct(disk),
         before \in Nat, now \in Nat, \A n \in Nat : <<"row", run, n>> \in U,
         \A i \in 1 .. Len(disk) : \A n \in Nat : disk[i].id # <<"row", run, n>>
  PROVE  /\ C!AnswersSaved \in Seq(RowsOf(U)) /\ Distinct(C!AnswersSaved)
         /\ AnswersUpTo(C!AnswersSaved, Len(mem))
<1> DEFINE N == Len(mem)
<1>1. PICK g : /\ C!AnswersSaved = g[N]
               /\ g[0] = disk
               /\ \A n \in 0 .. N : g[n] \in Seq(RowsOf(U)) /\ Distinct(g[n])
               /\ \A n \in 1 .. N : g[n] = AnswerStep(g, n)
  BY AnswersTable
<1>2. N \in Nat
  OBVIOUS
<1> DEFINE S == {n \in 0 .. N : AnswersUpTo(g[n], n)}
<1>3. 0 \in S
  <2>1. \A i \in before + 1 .. Len(mem) : ~ (i <= 0)
    OBVIOUS
  <2>2. AnswersUpTo(disk, 0)
    BY <2>1 DEF AnswersUpTo
  <2>3. QED
    BY <1>1, <1>2, <2>2
<1>4. ASSUME NEW n \in 1 .. N, n - 1 \in S PROVE n \in S
  <2>1. n - 1 \in 0 .. N /\ AnswersUpTo(g[n - 1], n - 1)
    BY <1>2, <1>4
  <2>2. g[n] = AnswerStep(g, n) /\ g[n - 1] \in Seq(RowsOf(U)) /\ Distinct(g[n - 1])
    BY <1>1, <2>1
  <2> HIDE DEF S
  <2> DEFINE old == g[n - 1]
             new == g[n]
  <2>3. CASE n <= before
    <3>1. new = disk
      BY <2>2, <2>3 DEF AnswerStep
    <3>2. \A i \in before + 1 .. Len(mem) : ~ (i <= n)
      BY <1>2, <2>3
    <3>3. AnswersUpTo(disk, n)
      BY <3>2 DEF AnswersUpTo
    <3>4. QED
      BY <3>1, <3>3 DEF S
  <2>4. CASE n > before /\ ~ Spoken(n)
    <3>1. new = old
      BY <1>2, <2>2, <2>4 DEF AnswerStep, Spoken
    <3>2. \A i \in before + 1 .. Len(mem) : Spoken(i) => (i <= n <=> i <= n - 1)
      BY <1>2, <2>4
    <3> HIDE DEF old, new
    <3>3. AnswersUpTo(old, n - 1)
      BY <2>1 DEF old
    <3>4. AnswersUpTo(old, n)
      BY <3>2, <3>3 DEF AnswersUpTo
    <3>5. QED
      BY <3>1, <3>4 DEF S, new
  <2>5. CASE n > before /\ Spoken(n)
    <3> DEFINE row == C!RowOf(n)
    <3>1. new = C!SaveRow(old, row)
      BY <1>2, <2>2, <2>5 DEF AnswerStep, Spoken
    <3>2. row \in RowsOf(U) /\ row.id = <<"row", run, n>>
      <4>1. n \in 1 .. Len(mem) /\ <<"row", run, n>> \in U
        BY <1>2
      <4>2. row \in RowsOf(U) /\ RowFor(row, n)
        BY <2>5, <4>1, RowOfIs
      <4>3. QED
        BY <4>2 DEF RowFor
    <3> HIDE DEF old, new, row
    <3>3. AnswersUpTo(old, n - 1) /\ old \in Seq(RowsOf(U)) /\ Distinct(old)
      BY <2>1, <2>2 DEF old
    <3>4. /\ \E i \in 1 .. Len(new) : new[i] = row
          /\ \A j \in 1 .. Len(old) : old[j].id # row.id => \E i \in 1 .. Len(new) : new[i] = old[j]
          /\ \A i \in 1 .. Len(new) : new[i] = row \/ \E j \in 1 .. Len(old) : new[i] = old[j]
      <4>1. SavedIn(new, old, row)
        BY <3>1, <3>2, <3>3, SavesRow
      <4>2. QED
        BY <4>1 DEF SavedIn
    <3>5. n \in before + 1 .. Len(mem)
      BY <1>2, <2>5
    <3>6. ASSUME NEW j \in 1 .. Len(old) PROVE old[j].id # row.id
      <4>1. CASE \E i \in 1 .. Len(disk) : old[j] = disk[i]
        BY <1>2, <3>2, <4>1
      <4>2. CASE \E i \in before + 1 .. Len(mem) : i <= n - 1 /\ Spoken(i) /\ old[j] = C!RowOf(i)
        <5>1. PICK i \in before + 1 .. Len(mem) : i <= n - 1 /\ Spoken(i) /\ old[j] = C!RowOf(i)
          BY <4>2
        <5>2. i \in 1 .. Len(mem) /\ i > before /\ i # n
          BY <1>2, <5>1
        <5>3. old[j].id = <<"row", run, i>>
          <6>1. i \in Nat /\ <<"row", run, i>> \in U
            BY <5>2
          <6>2. RowFor(C!RowOf(i), i)
            BY <5>1, <5>2, <6>1, RowOfIs
          <6>3. QED
            BY <5>1, <6>2 DEF RowFor
        <5>4. QED
          BY <3>2, <5>2, <5>3
      <4>3. QED
        BY <3>3, <4>1, <4>2 DEF AnswersUpTo
    <3>7. ASSUME NEW i \in 1 .. Len(disk)
          PROVE  \E x \in 1 .. Len(new) : new[x] = disk[i]
      <4>1. PICK j \in 1 .. Len(old) : old[j] = disk[i]
        BY <3>3 DEF AnswersUpTo
      <4>2. old[j].id # row.id
        BY <3>6
      <4>3. QED
        BY <3>4, <4>1, <4>2
    <3>8. ASSUME NEW i \in before + 1 .. Len(mem), i <= n, Spoken(i)
          PROVE  \E x \in 1 .. Len(new) : new[x] = C!RowOf(i)
      <4>1. CASE i = n
        BY <3>4, <4>1 DEF row
      <4>2. CASE i # n
        <5>1. i <= n - 1
          BY <1>2, <3>8, <4>2
        <5>2. PICK j \in 1 .. Len(old) : old[j] = C!RowOf(i)
          BY <3>3, <3>8, <5>1 DEF AnswersUpTo
        <5>3. QED
          BY <3>4, <3>6, <5>2
      <4>3. QED
        BY <4>1, <4>2
    <3>9. ASSUME NEW x \in 1 .. Len(new)
          PROVE  \/ \E i \in 1 .. Len(disk) : new[x] = disk[i]
                 \/ \E i \in before + 1 .. Len(mem) : i <= n /\ Spoken(i) /\ new[x] = C!RowOf(i)
      <4>1. CASE new[x] = row
        <5>1. n <= n /\ Spoken(n) /\ new[x] = C!RowOf(n)
          BY <2>5, <4>1 DEF row
        <5>2. QED
          BY <3>5, <5>1
      <4>2. CASE \E j \in 1 .. Len(old) : new[x] = old[j]
        <5>1. PICK j \in 1 .. Len(old) : new[x] = old[j]
          BY <4>2
        <5>2. \A i \in before + 1 .. Len(mem) : i <= n - 1 => i <= n
          BY <1>2
        <5>3. QED
          BY <3>3, <5>1, <5>2 DEF AnswersUpTo
      <4>3. QED
        BY <3>4, <4>1, <4>2
    <3>10. AnswersUpTo(new, n)
      BY <3>7, <3>8, <3>9 DEF AnswersUpTo
    <3>11. QED
      BY <3>10 DEF S, new
  <2>6. n <= before \/ n > before
    BY <1>2
  <2>7. QED
    BY <2>3, <2>4, <2>5, <2>6
<1>5. \A n \in 0 .. N : n \in S
  <2> HIDE DEF S, N
  <2>1. QED
    BY <1>2, <1>3, <1>4, Climb
<1>6. AnswersUpTo(g[N], N)
  <2>1. N \in S
    BY <1>2, <1>5
  <2>2. QED
    BY <2>1
<1>7. QED
  BY <1>1, <1>2, <1>6

\* The last message is no call, and answers of the runs up to r.
Quiet(q) == q # <<>> => q[Len(q)].role # "assistant" \/ q[Len(q)].calls = 0
UpTo(S, r) == {m \in S : m.run <= r}

LEMMA QuietIsFresh ==
  ASSUME NEW U, NEW q \in Seq(Messages(U)), Quiet(q)
  PROVE  EndsFresh(q)
<1>1. ASSUME q # <<>>, NEW j \in 1 .. Len(q), C!Answers(q, j, Len(q)) PROVE FALSE
  <2>1. /\ q[Len(q)].role = "assistant" /\ q[j] \in Messages(U)
        /\ q[j].calls \in 1 .. q[Len(q)].calls
    BY <1>1 DEF C!Answers
  <2>2. q[Len(q)].calls = 0
    BY <1>1, <2>1 DEF Quiet
  <2>3. QED
    BY <2>1, <2>2 DEF Messages
<1>2. QED
  BY <1>1 DEF EndsFresh

\* Nothing is quiet and its end is.
LEMMA QuietEnds ==
  ASSUME NEW M, NEW q \in Seq(M), Quiet(q), NEW n \in 1 .. Len(q)
  PROVE  SubSeq(q, n, Len(q)) \in Seq(M) /\ Quiet(SubSeq(q, n, Len(q)))
<1> DEFINE L == Len(q)
           t == SubSeq(q, n, L)
<1>1. L \in Nat /\ \A i \in n .. L : q[i] \in M
  OBVIOUS
<1>2. /\ t \in Seq(M) /\ Len(t) = L - n + 1
      /\ \A i \in 1 .. L - n + 1 : t[i] = q[n + i - 1]
  <2>1. n \in Int /\ L \in Int /\ n <= L
    BY <1>1
  <2> HIDE DEF L
  <2>2. QED
    BY <1>1, <2>1, SubSeqProperties
<1>3. L - n + 1 \in 1 .. L - n + 1 /\ n + (L - n + 1) - 1 = L
  BY <1>1
<1>4. t[Len(t)] = q[L]
  <2> HIDE DEF L, t
  <2>1. QED
    BY <1>2, <1>3
<1>5. q # <<>>
  BY <1>1
<1>6. QED
  BY <1>2, <1>4, <1>5 DEF Quiet

\* One after the other is quiet if the second is, and there is one or the first is too.
LEMMA QuietJoins ==
  ASSUME NEW M, NEW p \in Seq(M), NEW q \in Seq(M), Quiet(p), Quiet(q)
  PROVE  p \o q \in Seq(M) /\ Quiet(p \o q)
<1>1. /\ p \o q \in Seq(M) /\ Len(p \o q) = Len(p) + Len(q)
      /\ Len(p) \in Nat /\ Len(q) \in Nat
      /\ \A i \in 1 .. Len(p) + Len(q) :
           (p \o q)[i] = IF i <= Len(p) THEN p[i] ELSE q[i - Len(p)]
  BY ConcatProperties
<1> DEFINE s == p \o q
<1> HIDE DEF s
<1>2. CASE Len(q) = 0
  <2>1. s # <<>> => Len(p) \in 1 .. Len(p) + Len(q) /\ p # <<>>
    <3>1. s # <<>> => Len(s) # 0
      BY <1>1, EmptySeq DEF s
    <3>2. QED
      BY <1>1, <1>2, <3>1 DEF s
  <2>2. s # <<>> => s[Len(s)] = p[Len(p)]
    BY <1>1, <1>2, <2>1 DEF s
  <2>3. QED
    BY <1>1, <2>1, <2>2 DEF Quiet, s
<1>3. CASE Len(q) > 0
  <2>1. Len(s) = Len(p) + Len(q) /\ Len(s) \in 1 .. Len(p) + Len(q) /\ ~ (Len(s) <= Len(p))
    BY <1>1, <1>3 DEF s
  <2>2. s[Len(s)] = q[Len(s) - Len(p)] /\ Len(s) - Len(p) = Len(q)
    BY <1>1, <2>1 DEF s
  <2>3. q # <<>>
    BY <1>3
  <2>4. QED
    BY <1>1, <2>2, <2>3 DEF Quiet, s
<1>4. QED
  BY <1>1, <1>2, <1>3

\* What a row is replayed as.
LEMMA ReplaysRow ==
  ASSUME NEW U, NoId \in U, NEW r \in Nat, NEW row \in UpTo(RowsOf(U), r)
  PROVE  C!Replayed(row) \in Seq(UpTo(Messages(U), r)) /\ Quiet(C!Replayed(row))
<1> DEFINE M == UpTo(Messages(U), r)
           answers == [c \in 1 .. row.calls |-> C!ToolMessage(row.run, row.turn, c, row.ts)]
<1>1. row \in M /\ row \in Messages(U) /\ row.run <= r
  BY DEF UpTo, RowsOf
<1>2. <<row>> \in Seq(M) /\ Len(<<row>>) = 1 /\ <<row>>[1] = row
  BY <1>1
<1>3. CASE row.role # "assistant"
  <2>1. C!Replayed(row) = <<row>>
    BY <1>2, <1>3 DEF C!Replayed
  <2>2. Quiet(<<row>>)
    BY <1>2, <1>3 DEF Quiet
  <2>3. QED
    BY <1>2, <2>1, <2>2
<1>4. CASE row.role = "assistant"
  <2>1. row.calls \in Nat
    BY <1>1 DEF Messages
  <2>2. \A c \in 1 .. row.calls : C!ToolMessage(row.run, row.turn, c, row.ts) \in M
    BY <1>1, <2>1 DEF Messages, UpTo, C!ToolMessage, Roles
  <2>3. answers \in Seq(M) /\ Len(answers) = row.calls
    <3>1. answers \in [1 .. row.calls -> M]
      BY <2>2
    <3>2. QED
      BY <2>1, <3>1, SeqDef
  <2>4. \A c \in 1 .. Len(answers) : answers[c].role = "tool"
    BY <2>3 DEF C!ToolMessage
  <2>5. C!Replayed(row) = <<row>> \o answers
    BY <1>4 DEF C!Replayed
  <2> HIDE DEF answers, M
  <2>6. CASE row.calls = 0
    <3>1. answers = <<>>
      BY <2>3, <2>6, EmptySeq
    <3>2. C!Replayed(row) = <<row>>
      BY <1>2, <2>5, <3>1
    <3>3. QED
      BY <1>2, <2>6, <3>2 DEF Quiet, M
  <2>7. CASE row.calls # 0
    <3> DEFINE s == <<row>> \o answers
    <3>1. s \in Seq(M) /\ Len(s) = 1 + Len(answers)
          /\ \A i \in 1 .. 1 + Len(answers) : s[i] = IF i <= 1 THEN <<row>>[i] ELSE answers[i - 1]
      BY <1>2, <2>3, ConcatProperties
    <3> HIDE DEF s
    <3>2. s[Len(s)] = answers[Len(answers)]
      BY <2>1, <2>3, <2>7, <3>1
    <3>3. Len(answers) \in 1 .. Len(answers)
      BY <2>1, <2>3, <2>7
    <3>4. s[Len(s)].role = "tool"
      BY <2>4, <3>2, <3>3
    <3>5. QED
      BY <2>5, <3>1, <3>4 DEF Quiet, M, s
  <2>8. QED
    BY <2>6, <2>7
<1>5. QED
  BY <1>3, <1>4

\* What a restart reads back are messages of the runs up to r, and no call is last.
LEMMA HydratedIs ==
  ASSUME NEW U, NoId \in U, NEW r \in Nat, NEW d \in Seq(DigestRows(U)),
         NEW t \in Seq(RowsOf(U)), \A i \in 1 .. Len(t) : t[i].run <= r
  PROVE  C!Hydrated(t, d) \in Seq(UpTo(Messages(U), r)) /\ Quiet(C!Hydrated(t, d))
<1> DEFINE M == UpTo(Messages(U), r)
           G == {q \in Seq(M) : Quiet(q)}
           rows_ == [i \in DOMAIN t |-> C!Replayed(t[i])]
           read == C!FlattenSeq(rows_)
           tail == IF d = <<>> THEN read ELSE C!Split(read, d[Len(d)].first)
           lead == [i \in DOMAIN d |-> C!DigestMessage(d[i].id, d[i].ts, d[i].of)]
<1>1. rows_ \in Seq(G)
  <2>1. ASSUME NEW i \in 1 .. Len(t) PROVE C!Replayed(t[i]) \in G
    <3>1. t[i] \in UpTo(RowsOf(U), r)
      BY DEF UpTo
    <3>2. QED
      BY <3>1, ReplaysRow
  <2>2. Len(t) \in Nat /\ DOMAIN t = 1 .. Len(t)
    OBVIOUS
  <2> HIDE DEF G
  <2>3. rows_ \in [1 .. Len(t) -> G]
    BY <2>1, <2>2
  <2>4. QED
    BY <2>2, <2>3, SeqDef
<1>2. <<>> \in G /\ \A p, q \in G : p \o q \in G
  <2>1. <<>> \in G
    BY EmptySeq DEF Quiet
  <2>2. \A p, q \in G : p \o q \in G
    BY QuietJoins
  <2>3. QED
    BY <2>1, <2>2
<1>3. read \in G
  <2>1. read = FlattenSeq(rows_)
    BY DEF C!FlattenSeq, FlattenSeq
  <2> HIDE DEF G, rows_, read
  <2>2. QED
    BY <1>1, <1>2, <2>1, FlattenStays
<1>4. \A first : C!Split(read, first) \in G
  <2>1. TAKE first
  <2> DEFINE hits == {i \in DOMAIN read : \/ first.id # NoId /\ read[i].id = first.id
                                          \/ first.ts > 0 /\ read[i].ts >= first.ts}
  <2>2. CASE hits = {}
    BY <1>3, <2>2 DEF C!Split
  <2>3. CASE hits # {}
    <3>1. PICK h \in hits : TRUE
      BY <2>3
    <3>2. hits \in SUBSET Nat /\ hits \in SUBSET (1 .. Len(read))
      <4>1. DOMAIN read = 1 .. Len(read) /\ Len(read) \in Nat
        <5> HIDE DEF read, M
        <5>1. QED
          BY <1>3
      <4> HIDE DEF read
      <4>2. QED
        BY <4>1
    <3>3. C!Split(read, first) = SubSeq(read, C!Min(hits), Len(read))
      BY <2>3 DEF C!Split
    <3> HIDE DEF hits, read
    <3>4. C!Min(hits) \in hits
      BY <3>1, <3>2, Lowest
    <3>5. C!Min(hits) \in 1 .. Len(read) /\ read \in Seq(M) /\ Quiet(read)
      BY <1>3, <3>2, <3>4
    <3> HIDE DEF M
    <3>6. SubSeq(read, C!Min(hits), Len(read)) \in Seq(M) /\ Quiet(SubSeq(read, C!Min(hits), Len(read)))
      BY <3>5, QuietEnds
    <3>7. QED
      BY <3>3, <3>6
  <2>4. QED
    BY <2>2, <2>3
<1>5. tail \in G
  BY <1>3, <1>4
<1>6. lead \in Seq(M) /\ Quiet(lead)
  <2>1. \A i \in 1 .. Len(d) : C!DigestMessage(d[i].id, d[i].ts, d[i].of) \in M
    <3>1. \A i \in 1 .. Len(d) : d[i] \in DigestRows(U)
      OBVIOUS
    <3>2. QED
      BY <3>1 DEF UpTo, DigestRows, Messages, Roles, C!DigestMessage
  <2>2. Len(d) \in Nat /\ DOMAIN d = 1 .. Len(d)
    OBVIOUS
  <2>3. lead \in [1 .. Len(d) -> M] /\ \A i \in 1 .. Len(d) : lead[i].role = "digest"
    <3> HIDE DEF M
    <3>1. QED
      BY <2>1, <2>2 DEF C!DigestMessage
  <2> HIDE DEF M, lead
  <2>4. lead \in Seq(M) /\ Len(lead) = Len(d)
    BY <2>2, <2>3, SeqDef
  <2>5. lead # <<>> => Len(lead) \in 1 .. Len(d)
    BY <2>2, <2>4, EmptySeq
  <2>6. QED
    BY <2>3, <2>4, <2>5 DEF Quiet
<1>7. C!Hydrated(t, d) = lead \o tail
  BY DEF C!Hydrated
<1> HIDE DEF lead, tail
<1>8. QED
  BY <1>5, <1>6, <1>7, QuietJoins

\* A digest row that is saved is the last, and the only one with its id.
LEMMA SavesDigest ==
  ASSUME NEW R, digests \in Seq(R), Distinct(digests), NEW row \in R
  PROVE  C!SaveDigest(row) \in Seq(R) /\ Distinct(C!SaveDigest(row))
<1> DEFINE L == Len(digests)
           same == {i \in DOMAIN digests : digests[i].id = row.id}
<1>1. L \in Nat /\ DOMAIN digests = 1 .. L
  OBVIOUS
<1>2. CASE same = {}
  <2>1. C!SaveDigest(row) = Append(digests, row)
    BY <1>2 DEF C!SaveDigest
  <2>2. \A i \in 1 .. L : digests[i].id # row.id
    BY <1>1, <1>2
  <2> DEFINE new == Append(digests, row)
  <2>3. new \in Seq(R) /\ Len(new) = L + 1 /\ new[L + 1] = row /\ \A i \in 1 .. L : new[i] = digests[i]
    OBVIOUS
  <2> HIDE DEF new
  <2>4. Distinct(new)
    <3>1. \A i \in 1 .. Len(new) : i \in 1 .. L \/ i = L + 1
      BY <1>1, <2>3
    <3>2. QED
      BY <2>2, <2>3, <3>1 DEF Distinct
  <2>5. QED
    BY <2>1, <2>3, <2>4 DEF new
<1>3. CASE same # {}
  <2> DEFINE m == C!Min(same)
             old == C!RemoveAt(digests, m)
             new == Append(old, row)
  <2>1. same \in SUBSET Nat /\ same \in SUBSET (1 .. L)
    BY <1>1
  <2>2. m \in same
    <3>1. PICK s \in same : TRUE
      BY <1>3
    <3> HIDE DEF same
    <3>2. QED
      BY <2>1, <3>1, Lowest
  <2>3. m \in 1 .. L /\ digests[m].id = row.id
    BY <2>1, <2>2
  <2>4. C!SaveDigest(row) = new
    BY <1>3 DEF C!SaveDigest
  <2> DEFINE a == SubSeq(digests, 1, m - 1)
             t == SubSeq(digests, m + 1, L)
  <2>5. old = a \o t
    BY DEF C!RemoveAt
  <2> HIDE DEF m, same
  <2>6. a \in Seq(R) /\ Len(a) = m - 1 /\ \A i \in 1 .. m - 1 : a[i] = digests[i]
    <3> HIDE DEF L
    <3>1. QED
      BY <1>1, <2>3 DEF L
  <2>7. t \in Seq(R) /\ Len(t) = L - m /\ \A i \in 1 .. L - m : t[i] = digests[m + i]
    <3>1. PICK u \in 1 .. L + 1 : u = m + 1
      BY <1>1, <2>3
    <3>2. /\ SubSeq(digests, u, L) \in Seq(R) /\ Len(SubSeq(digests, u, L)) = L - u + 1
          /\ \A i \in 1 .. L - u + 1 : SubSeq(digests, u, L)[i] = digests[u + i - 1]
      <4>1. u \in Int /\ L \in Int /\ \A i \in u .. L : digests[i] \in R
        BY <1>1
      <4> HIDE DEF L
      <4>2. QED
        BY <1>1, <4>1, SubSeqProperties
    <3>3. L - u + 1 = L - m /\ \A i \in 1 .. L - m : u + i - 1 = m + i
      BY <1>1, <2>3, <3>1
    <3>4. QED
      BY <3>1, <3>2, <3>3
  <2> HIDE DEF a, t, old
  <2>8. /\ old \in Seq(R) /\ Len(old) = L - 1
        /\ \A i \in 1 .. L - 1 : old[i] = IF i <= m - 1 THEN a[i] ELSE t[i - (m - 1)]
    <3>1. /\ a \o t \in Seq(R) /\ Len(a \o t) = Len(a) + Len(t)
          /\ \A i \in 1 .. Len(a) + Len(t) : (a \o t)[i] = IF i <= Len(a) THEN a[i] ELSE t[i - Len(a)]
      BY <2>6, <2>7, ConcatProperties
    <3>2. Len(a) + Len(t) = L - 1
      BY <1>1, <2>3, <2>6, <2>7
    <3> HIDE DEF L
    <3>3. QED
      BY <2>5, <2>6, <3>1, <3>2
  <2>9. ASSUME NEW i \in 1 .. L - 1
        PROVE  \/ i <= m - 1 /\ i \in 1 .. L /\ old[i] = digests[i]
               \/ ~ (i <= m - 1) /\ i + 1 \in 1 .. L /\ i + 1 # m /\ old[i] = digests[i + 1]
    <3>1. CASE i <= m - 1
      BY <1>1, <2>3, <2>6, <2>8, <3>1
    <3>2. CASE ~ (i <= m - 1)
      <4>1. i - (m - 1) \in 1 .. L - m /\ m + (i - (m - 1)) = i + 1
        BY <1>1, <2>3, <3>2
      <4>2. old[i] = digests[i + 1]
        BY <2>7, <2>8, <3>2, <4>1
      <4>3. QED
        BY <1>1, <2>3, <3>2, <4>2
    <3>3. QED
      BY <3>1, <3>2
  <2>10. Len(new) = L /\ new[L] = row /\ new \in Seq(R) /\ \A i \in 1 .. L - 1 : new[i] = old[i]
    <3>1. /\ new \in Seq(R) /\ Len(new) = Len(old) + 1 /\ new[Len(old) + 1] = row
          /\ \A i \in 1 .. Len(old) : new[i] = old[i]
      BY <2>8
    <3>2. L - 1 + 1 = L
      BY <1>1
    <3> HIDE DEF new, L
    <3>3. QED
      BY <2>8, <3>1, <3>2
  <2> HIDE DEF new
  <2>11. ASSUME NEW i \in 1 .. L - 1 PROVE old[i].id # row.id
    <3>1. CASE i <= m - 1 /\ i \in 1 .. L /\ old[i] = digests[i]
      <4>1. i # m
        BY <2>3, <3>1
      <4>2. QED
        BY <2>3, <3>1, <4>1 DEF Distinct
    <3>2. CASE ~ (i <= m - 1) /\ i + 1 \in 1 .. L /\ i + 1 # m /\ old[i] = digests[i + 1]
      BY <2>3, <3>2 DEF Distinct
    <3>3. QED
      BY <2>9, <3>1, <3>2
  <2>12. ASSUME NEW i \in 1 .. L - 1, NEW j \in 1 .. L - 1, i # j PROVE old[i].id # old[j].id
    <3>1. PICK x \in 1 .. L : x = (IF i <= m - 1 THEN i ELSE i + 1) /\ old[i] = digests[x]
      BY <2>9
    <3>2. PICK y \in 1 .. L : y = (IF j <= m - 1 THEN j ELSE j + 1) /\ old[j] = digests[y]
      BY <2>9
    <3>3. x # y
      BY <1>1, <2>3, <2>12, <3>1, <3>2
    <3>4. QED
      BY <3>1, <3>2, <3>3 DEF Distinct
  <2>13. Distinct(new)
    <3>1. \A i \in 1 .. Len(new) : i \in 1 .. L - 1 \/ i = L
      <4> HIDE DEF L
      <4>1. QED
        BY <1>1, <2>10
    <3>2. QED
      BY <2>10, <2>11, <2>12, <3>1 DEF Distinct
  <2>14. QED
    BY <2>4, <2>10, <2>13
<1>4. QED
  BY <1>2, <1>3

\* The ids in use: but for those of automatic digests, which are made of others.
Named(U) ==
  /\ NoId \in U
  /\ \A r \in Nat : <<"user", r, 0>> \in U /\ <<"run", r, 0>> \in U /\ <<"manual", r, 0>> \in U
  /\ \A r, n \in Nat : <<"row", r, n>> \in U
Manuals(U) == [at : {"away", "summarise", "digest"}, result : Outcomes(U) \cup {C!NoResult}]
Shaped(U) ==
  /\ mem \in Seq(Messages(U)) /\ disk \in Seq(RowsOf(U)) /\ digests \in Seq(DigestRows(U))
  /\ result \in Outcomes(U) \cup {C!NoResult} /\ manual \in Manuals(U)
Typed == \E U : Named(U) /\ Shaped(U)

Counted ==
  /\ loaded \in BOOLEAN /\ (~ loaded => mem = <<>> /\ pc = "idle")
  /\ now \in Nat /\ run \in 0 .. MaxRuns /\ round \in 0 .. MaxRounds /\ before \in Nat
  /\ pc \in {"idle", "asked", "assemble", "compact", "digest", "call", "persist"}
  /\ pc # "idle" => run # 0
  /\ used \in [manual : 0 .. MaxManual, restart : 0 .. MaxRestarts]

\* With the run p, at its provider call n: no message is of a later run, and no result of
\* a later call than this one's, nor of this one's before it has been answered.
Older(m, p, r, n) ==
  /\ m.run <= r
  /\ m.role = "tool" /\ m.run = r =>
       /\ p \in {"asked", "assemble"} => m.turn <= n
       /\ p \in {"compact", "digest", "call"} => m.turn < n
Past(q, p, r, n) == \A i \in 1 .. Len(q) : Older(q[i], p, r, n)

Flow ==
  /\ EndsFresh(mem) /\ Past(mem, pc, run, round)
  /\ pc \in {"asked", "assemble"} => Steady(mem)

\* The automatic compaction in progress, and the manual one.
Automatic ==
  /\ pc \in {"compact", "digest"} <=> result # C!NoResult
  /\ result # C!NoResult =>
       result \in C!Compactions(result.from) /\ result.success /\ EndsFresh(result.from)
  /\ pc = "compact" => Past(result.from, pc, run, round) /\ Steady(result.from)
Manual ==
  /\ manual.at = "away" <=> manual.result = C!NoResult
  /\ manual.at # "away" =>
       manual.result \in C!Compactions(manual.result.from) /\ EndsFresh(manual.result.from)
  /\ manual.at = "digest" => manual.result.success
  /\ manual.at = "summarise" => Past(manual.result.from, pc, run, round)

\* A row is a run's question, there once it is past hook 1, or one of its answers, there
\* once it is over.
RowNamed(row, p, r) ==
  /\ row.run <= r
  /\ \/ \E s \in 1 .. r : row.id = <<"user", s, 0>> /\ (s = r => p # "asked")
     \/ \E s \in 1 .. r, n \in Nat : row.id = <<"row", s, n>> /\ (s = r => p = "idle")
Saved ==
  /\ Distinct(disk) /\ Distinct(digests)
  /\ \A i \in 1 .. Len(disk) : RowNamed(disk[i], pc, run)

\* What the run in progress has made is its question, which has a row, and answers, which
\* are in the conversation behind turnsBefore unless it was rewritten.
Asked(r) == <<"user", r, 0, 0>>
Made ==
  pc # "idle" =>
    /\ \A k \in made : k \in KeySet /\ k[2] = run /\ (k[1] = "user" => k = Asked(run))
    /\ \A k \in made : k[1] # "digest"
    /\ pc = "asked" => made = {Asked(run)}
    /\ pc # "asked" => Asked(run) \in C!Keys(disk)
    /\ pc # "asked" /\ run \notin compacted =>
         /\ before <= Len(mem)
         /\ \A k \in made : k[1] = "assistant" =>
              \E i \in before + 1 .. Len(mem) : mem[i].role = "assistant" /\ C!KeyOf(mem[i]) = k

ConversationInv ==
  Typed /\ Counted /\ Flow /\ Automatic /\ Manual /\ Saved /\ Made /\ C!RunsPersist

-----------------------------------------------------------------------------
\* Sequence s is q with t behind it.
Lengthened(s, q, t) ==
  /\ Len(s) = Len(q) + Len(t)
  /\ \A i \in 1 .. Len(q) : s[i] = q[i]
  /\ \A i \in 1 .. Len(t) : s[Len(q) + i] = t[i]
  /\ \A i \in 1 .. Len(s) : i \in 1 .. Len(q) \/ (i - Len(q) \in 1 .. Len(t) /\ s[i] = t[i - Len(q)])

LEMMA Lengthens ==
  ASSUME NEW M, NEW q \in Seq(M), NEW t \in Seq(M)
  PROVE  q \o t \in Seq(M) /\ Lengthened(q \o t, q, t)
<1>1. /\ q \o t \in Seq(M) /\ Len(q \o t) = Len(q) + Len(t)
      /\ Len(q) \in Nat /\ Len(t) \in Nat
      /\ \A i \in 1 .. Len(q) + Len(t) :
           (q \o t)[i] = IF i <= Len(q) THEN q[i] ELSE t[i - Len(q)]
  BY ConcatProperties
<1> DEFINE s == q \o t
<1> HIDE DEF s
<1>2. \A i \in 1 .. Len(t) : Len(q) + i \in 1 .. Len(q) + Len(t) /\ Len(q) + i - Len(q) = i /\ ~ (Len(q) + i <= Len(q))
  BY <1>1
<1>3. \A i \in 1 .. Len(t) : s[Len(q) + i] = t[i]
  BY <1>1, <1>2 DEF s
<1>4. \A i \in 1 .. Len(q) : s[i] = q[i]
  BY <1>1 DEF s
<1>5. ASSUME NEW i \in 1 .. Len(s)
      PROVE  i \in 1 .. Len(q) \/ (i - Len(q) \in 1 .. Len(t) /\ s[i] = t[i - Len(q)])
  <2>1. i \in 1 .. Len(q) + Len(t) /\ i \in Nat
    BY <1>1 DEF s
  <2>2. CASE i <= Len(q)
    BY <1>1, <2>1, <2>2
  <2>3. CASE ~ (i <= Len(q))
    BY <1>1, <2>1, <2>3 DEF s
  <2>4. QED
    BY <2>2, <2>3
<1>6. QED
  BY <1>1, <1>3, <1>4, <1>5 DEF Lengthened, s

\* What a run adds.
LEMMA MessagesAre ==
  ASSUME NEW U, Named(U), NEW r \in Nat, NEW k \in Nat, NEW n \in Nat, NEW ts \in Nat
  PROVE  /\ C!UserMessage(r, ts) \in RowsOf(U)
         /\ C!AssistantMessage(r, k, n, ts) \in Messages(U)
         /\ C!ToolMessage(r, k, n, ts) \in Messages(U)
BY DEF Named, RowsOf, Messages, Roles, C!UserMessage, C!AssistantMessage, C!ToolMessage

\* The record of no compaction is none of a compaction's.
LEMMA NoOutcome ==
  ASSUME NEW U, NEW c \in Outcomes(U)
  PROVE  c # C!NoResult
<1>1. DOMAIN c = {"success", "from", "messages", "of", "dropped", "first"}
  BY DEF Outcomes
<1>2. DOMAIN C!NoResult = {"success"}
  BY DEF C!NoResult
<1>3. QED
  BY <1>1, <1>2

\* The ids of automatic digests are new ones.
LEMMA MoreNames ==
  ASSUME NEW U, Named(U), Shaped(U), NEW V, U \subseteq V
  PROVE  Named(V) /\ Shaped(V)
<1>1. /\ Messages(U) \subseteq Messages(V) /\ RowsOf(U) \subseteq RowsOf(V)
      /\ DigestRows(U) \subseteq DigestRows(V)
  BY DEF Messages, RowsOf, DigestRows, Firsts
<1>2. \A q : /\ q \in Seq(Messages(U)) => q \in Seq(Messages(V))
             /\ q \in Seq(RowsOf(U)) => q \in Seq(RowsOf(V))
             /\ q \in Seq(DigestRows(U)) => q \in Seq(DigestRows(V))
  BY <1>1
<1>3. Outcomes(U) \subseteq Outcomes(V)
  BY <1>2 DEF Outcomes, Firsts
<1>4. Manuals(U) \subseteq Manuals(V)
  BY <1>3 DEF Manuals
<1>5. QED
  BY <1>2, <1>3, <1>4 DEF Named, Shaped

\* The messages of a compaction are as old as those it was made from.
LEMMA StaysPast ==
  ASSUME NEW U, NoId \in U, NEW q \in Seq(Messages(U)), NEW c \in C!Compactions(q),
         NEW p, NEW r \in Nat, NEW n \in Nat, Past(q, p, r, n)
  PROVE  Past(c.messages, p, r, n)
<1> DEFINE M == {m \in Messages(U) : Older(m, p, r, n)}
<1>1. q \in Seq(M)
  BY DEF Past
<1>2. M \in SUBSET Messages(U)
  OBVIOUS
<1>3. \A i \in 1 .. Len(c.messages) :
        \/ c.messages[i] \in M
        \/ c.messages[i].role = "digest" /\ c.messages[i].run = 0
  <2> HIDE DEF M
  <2>1. QED
    BY <1>1, <1>2, CompactionAdds
<1>4. \A m : m.role = "digest" /\ m.run = 0 => Older(m, p, r, n)
  BY DEF Older
<1>5. QED
  BY <1>3, <1>4 DEF Past

\* How the run moves on: what was old enough stays so.
Moves(p, r, n, pp, rr, nn) ==
  \/ rr = r + 1
  \/ /\ rr = r
     /\ \/ pp \in {"idle", "persist"}
        \/ nn = n /\ pp \in {"asked", "assemble"} /\ p \in {"asked", "assemble", "compact", "digest", "call"}
        \/ nn = n /\ pp = p
        \/ nn = n /\ pp \in {"digest", "call"} /\ p \in {"compact", "digest"}
        \/ nn = n + 1 /\ p = "assemble"

LEMMA OldStays ==
  ASSUME NEW U, NEW q \in Seq(Messages(U)), NEW p, NEW pp,
         NEW r \in Nat, NEW n \in Nat, NEW rr \in Nat, NEW nn \in Nat,
         Moves(p, r, n, pp, rr, nn), Past(q, p, r, n)
  PROVE  Past(q, pp, rr, nn)
<1>1. ASSUME NEW i \in 1 .. Len(q) PROVE Older(q[i], pp, rr, nn)
  <2>1. q[i] \in Messages(U) /\ q[i].run \in Nat /\ q[i].turn \in Nat
    <3>1. q[i] \in Messages(U)
      OBVIOUS
    <3>2. QED
      BY <3>1 DEF Messages
  <2>2. Older(q[i], p, r, n)
    BY DEF Past
  <2>3. QED
    BY <2>1, <2>2 DEF Older, Moves
<1>2. QED
  BY <1>1 DEF Past

LEMMA StepMoves ==
  ASSUME C!Next
  PROVE  Moves(pc, run, round, pc', run', round')
<1>1. CASE C!Load
  BY <1>1 DEF C!Load, C!runVars, Moves
<1>2. CASE C!Ask
  BY <1>2 DEF C!Ask, Moves
<1>3. CASE C!PersistQuestion
  BY <1>3 DEF C!PersistQuestion, Moves
<1>4. CASE C!Assemble
  BY <1>4 DEF C!Assemble, Moves
<1>5. CASE C!CompactAuto
  BY <1>5 DEF C!CompactAuto, Moves
<1>6. CASE C!PersistDigest
  BY <1>6 DEF C!PersistDigest, Moves
<1>7. CASE C!Answer
  BY <1>7 DEF C!Answer, Moves
<1>8. ASSUME NEW n \in 1 .. MaxCalls, C!CallTools(n) PROVE Moves(pc, run, round, pc', run', round')
  BY <1>8 DEF C!CallTools, Moves
<1>9. CASE C!CallFails
  BY <1>9 DEF C!CallFails, Moves
<1>10. CASE C!Cancelled
  BY <1>10 DEF C!Cancelled, C!EndRun, Moves
<1>11. CASE C!PersistAnswers
  BY <1>11 DEF C!PersistAnswers, C!EndRun, Moves
<1>12. CASE C!StartManual
  BY <1>12 DEF C!StartManual, C!runVars, Moves
<1>13. CASE C!ReplaceManual
  BY <1>13 DEF C!ReplaceManual, C!runVars, Moves
<1>14. CASE C!PersistManual
  BY <1>14 DEF C!PersistManual, C!runVars, Moves
<1>15. CASE C!Restart
  BY <1>15 DEF C!Restart, C!EndRun, Moves
<1>16. QED
  BY <1>1, <1>2, <1>3, <1>4, <1>5, <1>6, <1>7, <1>8, <1>9, <1>10, <1>11, <1>12, <1>13, <1>14, <1>15
     DEF C!Next

\* The results of n calls, and what an answer with n calls adds to the conversation.
Results(n) == [c \in 1 .. n |-> C!ToolMessage(run, round, c, now + 1)]
LEMMA ResultsAre ==
  ASSUME NEW U, Named(U), Counted, NEW n \in Nat
  PROVE  /\ Results(n) \in Seq(Messages(U)) /\ Len(Results(n)) = n
         /\ \A c \in 1 .. n : Results(n)[c] = C!ToolMessage(run, round, c, now + 1)
<1>1. now + 1 \in Nat /\ run \in Nat /\ round \in Nat
  BY PartsAssumption DEF Counted, C!ConversationAssumption
<1>2. \A c \in 1 .. n : C!ToolMessage(run, round, c, now + 1) \in Messages(U)
  <2>1. \A c \in 1 .. n : c \in Nat
    OBVIOUS
  <2>2. QED
    BY <1>1, <2>1, MessagesAre
<1>3. Results(n) \in [1 .. n -> Messages(U)]
  BY <1>2 DEF Results
<1>4. QED
  BY <1>3, SeqDef DEF Results

\* What is added of the run's is one of its messages, results last.
OfRun(m, r, n) ==
  /\ m.role \in {"assistant", "tool"} /\ m.run = r /\ m.turn = n
AddedBy(t, n) ==
  /\ Len(t) \in Nat \ {0} /\ t[Len(t)].role = "tool"
  /\ \A i \in 1 .. Len(t) : OfRun(t[i], run, round)
CallOf(n) == C!AssistantMessage(run, round, n, now + 1)
Round(n) == <<CallOf(n)>> \o Results(n)

LEMMA RoundsAre ==
  ASSUME NEW U, Named(U), Counted, NEW n \in Nat \ {0}
  PROVE  /\ Round(n) \in Seq(Messages(U)) /\ AddedBy(Round(n), n)
         /\ Lengthened(Round(n), <<CallOf(n)>>, Results(n))
<1>1. /\ Results(n) \in Seq(Messages(U)) /\ Len(Results(n)) = n
      /\ \A c \in 1 .. n : Results(n)[c] = C!ToolMessage(run, round, c, now + 1)
  BY ResultsAre
<1>2. CallOf(n) \in Messages(U)
  BY PartsAssumption, MessagesAre DEF Counted, C!ConversationAssumption, CallOf
<1>3. <<CallOf(n)>> \in Seq(Messages(U)) /\ Len(<<CallOf(n)>>) = 1 /\ <<CallOf(n)>>[1] = CallOf(n)
  BY <1>2
<1>4. Round(n) \in Seq(Messages(U)) /\ Lengthened(Round(n), <<CallOf(n)>>, Results(n))
  BY <1>1, <1>3, Lengthens DEF Round
<1> DEFINE t == Round(n)
<1> HIDE DEF t
<1>5. Len(t) = 1 + n /\ t[1] = CallOf(n) /\ \A i \in 1 .. n : t[1 + i] = Results(n)[i]
  BY <1>1, <1>3, <1>4 DEF Lengthened, t
<1>6. OfRun(CallOf(n), run, round)
  BY DEF OfRun, CallOf, C!AssistantMessage
<1>7. \A i \in 1 .. n : OfRun(Results(n)[i], run, round) /\ Results(n)[i].role = "tool"
  BY <1>1 DEF OfRun, C!ToolMessage
<1>8. \A i \in 1 .. Len(t) : i = 1 \/ (i - 1 \in 1 .. n /\ 1 + (i - 1) = i)
  BY <1>5
<1>9. \A i \in 1 .. Len(t) : OfRun(t[i], run, round)
  BY <1>5, <1>6, <1>7, <1>8
<1>10. t[Len(t)].role = "tool"
  BY <1>5, <1>7
<1>11. QED
  BY <1>4, <1>5, <1>9, <1>10 DEF AddedBy, t

\* An answer with calls is added to the conversation, or what is left of its results to
\* what a manual compaction has replaced it with.
CallsAdded(n, t) ==
  /\ AddedBy(t, n)
  /\ \/ mem' = mem \o t /\ t = Round(n) /\ UNCHANGED <<manual, compacted>>
     \/ /\ mem' = manual.result.messages \o t
        /\ manual.at = "summarise" /\ manual.result.success /\ C!ManualReplaces

LEMMA CallsAdd ==
  ASSUME NEW U, Named(U), Shaped(U), Counted, NEW n \in 1 .. MaxCalls, C!CallTools(n)
  PROVE  \E t \in Seq(Messages(U)) : CallsAdded(n, t)
<1>1. n \in Nat \ {0}
  OBVIOUS
<1>2. /\ Results(n) \in Seq(Messages(U)) /\ Len(Results(n)) = n
      /\ \A c \in 1 .. n : Results(n)[c] = C!ToolMessage(run, round, c, now + 1)
  BY <1>1, ResultsAre
<1>3. Round(n) \in Seq(Messages(U)) /\ AddedBy(Round(n), n)
  BY <1>1, RoundsAre
<1>4. \/ mem' = mem \o Round(n) /\ UNCHANGED <<manual, compacted>>
      \/ /\ manual.at = "summarise" /\ manual.result.success /\ C!ManualReplaces
         /\ \E i \in 1 .. n : mem' = manual.result.messages \o SubSeq(Results(n), i, n)
  <2>1. \/ mem' = mem \o <<CallOf(n)>> \o Results(n) /\ UNCHANGED <<manual, compacted>>
        \/ /\ manual.at = "summarise" /\ manual.result.success /\ C!ManualReplaces
           /\ \E i \in 1 .. n : mem' = manual.result.messages \o SubSeq(Results(n), i, n)
    BY DEF C!CallTools, CallOf, Results
  <2>2. mem \o <<CallOf(n)>> \o Results(n) = mem \o Round(n)
    <3>1. CallOf(n) \in Messages(U)
      BY <1>1, PartsAssumption, MessagesAre DEF Counted, C!ConversationAssumption, CallOf
    <3>2. mem \in Seq(Messages(U)) /\ <<CallOf(n)>> \in Seq(Messages(U))
      BY <3>1 DEF Shaped
    <3>3. QED
      BY <1>2, <3>2, ConcatAssociative DEF Round
  <2>3. QED
    BY <2>1, <2>2
<1>5. CASE mem' = mem \o Round(n) /\ UNCHANGED <<manual, compacted>>
  BY <1>3, <1>5 DEF CallsAdded
<1>6. CASE /\ manual.at = "summarise" /\ manual.result.success /\ C!ManualReplaces
           /\ \E i \in 1 .. n : mem' = manual.result.messages \o SubSeq(Results(n), i, n)
  <2>1. PICK i \in 1 .. n : mem' = manual.result.messages \o SubSeq(Results(n), i, n)
    BY <1>6
  <2> DEFINE t == SubSeq(Results(n), i, n)
  <2>2. /\ t \in Seq(Messages(U)) /\ Len(t) = n - i + 1
        /\ \A j \in 1 .. n - i + 1 : t[j] = Results(n)[i + j - 1]
    <3>1. i \in Int /\ n \in Int /\ i <= n /\ \A j \in i .. n : Results(n)[j] \in Messages(U)
      BY <1>1, <1>2
    <3>2. QED
      BY <3>1, SubSeqProperties
  <2> HIDE DEF t
  <2>3. ASSUME NEW j \in 1 .. n - i + 1 PROVE OfRun(t[j], run, round) /\ t[j].role = "tool"
    <3>1. i + j - 1 \in 1 .. n
      BY <1>1
    <3>2. t[j] = C!ToolMessage(run, round, i + j - 1, now + 1)
      BY <1>2, <2>2, <3>1
    <3>3. QED
      BY <3>2 DEF OfRun, C!ToolMessage
  <2>4. Len(t) \in Nat \ {0} /\ Len(t) \in 1 .. n - i + 1
    BY <1>1, <2>2
  <2>5. AddedBy(t, n)
    BY <2>2, <2>3, <2>4 DEF AddedBy
  <2>6. QED
    BY <1>6, <2>1, <2>2, <2>5 DEF CallsAdded, t
<1>7. QED
  BY <1>4, <1>5, <1>6

LEMMA CountedStep ==
  ASSUME Typed, Counted, C!Next
  PROVE  Counted'
<1> USE PartsAssumption DEF Counted, C!ConversationAssumption
<1>1. CASE C!Load
  BY <1>1 DEF C!Load, C!runVars, C!history
<1>2. CASE C!Ask
  BY <1>2 DEF C!Ask
<1>3. CASE C!PersistQuestion
  <2>1. Len(mem) \in Nat
    BY DEF Typed, Shaped
  <2>2. QED
    BY <1>3, <2>1 DEF C!PersistQuestion, C!history
<1>4. CASE C!Assemble
  BY <1>4 DEF C!Assemble, C!history
<1>5. CASE C!CompactAuto
  BY <1>5 DEF C!CompactAuto
<1>6. CASE C!PersistDigest
  BY <1>6 DEF C!PersistDigest, C!history
<1>7. CASE C!Answer
  BY <1>7 DEF C!Answer
<1>8. ASSUME NEW n \in 1 .. MaxCalls, C!CallTools(n) PROVE Counted'
  BY <1>8 DEF C!CallTools
<1>9. CASE C!CallFails
  BY <1>9 DEF C!CallFails, C!history
<1>10. CASE C!Cancelled
  BY <1>10 DEF C!Cancelled, C!EndRun
<1>11. CASE C!PersistAnswers
  <2>1. Len(mem) \in Nat
    BY DEF Typed, Shaped
  <2>2. QED
    BY <1>11, <2>1 DEF C!PersistAnswers, C!EndRun
<1>12. CASE C!StartManual
  BY <1>12 DEF C!StartManual, C!runVars
<1>13. CASE C!ReplaceManual
  BY <1>13 DEF C!ReplaceManual, C!runVars
<1>14. CASE C!PersistManual
  BY <1>14 DEF C!PersistManual, C!runVars, C!history
<1>15. CASE C!Restart
  <2>1. used' \in [manual : 0 .. MaxManual, restart : 0 .. MaxRestarts]
    BY <1>15 DEF C!Restart
  <2>2. /\ loaded' = FALSE /\ mem' = <<>> /\ pc' = "idle" /\ now' \in Nat
        /\ run' \in 0 .. MaxRuns /\ round' = 0 /\ before' = 0
    BY <1>15 DEF C!Restart, C!EndRun
  <2>3. loaded' \in BOOLEAN
    BY <2>2
  <2>4. round' \in 0 .. MaxRounds /\ before' \in Nat
    BY <2>2
  <2>5. pc' \in {"idle", "asked", "assemble", "compact", "digest", "call", "persist"}
    BY <2>2
  <2>6. (~ loaded => mem = <<>> /\ pc = "idle")' /\ (pc # "idle" => run # 0)'
    BY <2>2
  <2>7. QED
    BY <2>1, <2>2, <2>3, <2>4, <2>5, <2>6
<1>16. QED
  BY <1>1, <1>2, <1>3, <1>4, <1>5, <1>6, <1>7, <1>8, <1>9, <1>10, <1>11, <1>12, <1>13, <1>14, <1>15
     DEF C!Next

\* No row of the answers of the run in progress is there yet.
LEMMA AnswersAreNew ==
  ASSUME NEW U, Named(U), Shaped(U), Counted, Saved, pc = "persist"
  PROVE  /\ C!AnswersSaved \in Seq(RowsOf(U)) /\ Distinct(C!AnswersSaved)
         /\ AnswersUpTo(C!AnswersSaved, Len(mem))
<1>1. \A n \in Nat : <<"row", run, n>> \in U
  BY PartsAssumption DEF Counted, C!ConversationAssumption, Named
<1>2. \A i \in 1 .. Len(disk) : \A n \in Nat : disk[i].id # <<"row", run, n>>
  <2>1. SUFFICES ASSUME NEW i \in 1 .. Len(disk), NEW n \in Nat, disk[i].id = <<"row", run, n>>
                 PROVE  FALSE
    OBVIOUS
  <2>2. RowNamed(disk[i], pc, run)
    BY DEF Saved
  <2>3. CASE \E s \in 1 .. run : disk[i].id = <<"user", s, 0>>
    BY <2>1, <2>3
  <2>4. CASE \E s \in 1 .. run, k \in Nat : disk[i].id = <<"row", s, k>> /\ (s = run => pc = "idle")
    BY <2>1, <2>4
  <2>5. QED
    BY <2>2, <2>3, <2>4 DEF RowNamed
<1>3. mem \in Seq(Messages(U)) /\ disk \in Seq(RowsOf(U)) /\ Distinct(disk) /\ before \in Nat /\ now \in Nat
  BY DEF Shaped, Saved, Counted
<1>4. QED
  BY <1>1, <1>2, <1>3, AnswersAre

\* A digest row of a compaction.
LEMMA DigestRowIs ==
  ASSUME NEW U, NEW id \in U, NEW c \in Outcomes(U), Counted
  PROVE  C!DigestRow(id, c) \in DigestRows(U)
BY DEF DigestRows, Outcomes, C!DigestRow, Counted

\* What the automatic and the manual compaction are, when there is one.
LEMMA OutcomesAre ==
  ASSUME NEW U, Named(U), Shaped(U), Automatic, Manual
  PROVE  /\ pc \in {"compact", "digest"} => result \in Outcomes(U)
         /\ manual.at # "away" => manual.result \in Outcomes(U)
BY DEF Shaped, Automatic, Manual, Manuals

LEMMA TypedStep ==
  ASSUME Typed, Counted, Automatic, Manual, Saved, C!Next
  PROVE  Typed'
<1>1. PICK U : Named(U) /\ Shaped(U)
  BY DEF Typed
<1>2. NoId \in U /\ now + 1 \in Nat /\ now \in Nat /\ run \in Nat /\ run + 1 \in Nat /\ round \in Nat /\ 0 \in Nat
  BY <1>1, PartsAssumption DEF Named, Counted, C!ConversationAssumption
<1>3. /\ mem \in Seq(Messages(U)) /\ disk \in Seq(RowsOf(U)) /\ digests \in Seq(DigestRows(U))
      /\ result \in Outcomes(U) \cup {C!NoResult} /\ manual \in Manuals(U)
  BY <1>1 DEF Shaped
<1>4. Shaped(U)' => Typed'
  BY <1>1 DEF Typed
<1>5. <<>> \in Seq(Messages(U)) /\ C!NoResult \in Outcomes(U) \cup {C!NoResult} /\ C!Away \in Manuals(U)
  BY DEF C!Away, Manuals
<1>6. \A m \in Messages(U) : mem \o <<m>> \in Seq(Messages(U))
  BY <1>3
<1>7. CASE C!Load
  <2>1. C!Hydrated(disk, digests) \in Seq(UpTo(Messages(U), run))
    <3>1. \A i \in 1 .. Len(disk) : disk[i].run <= run
      BY DEF Saved, RowNamed
    <3>2. QED
      BY <1>2, <1>3, <3>1, HydratedIs
  <2>2. mem' \in Seq(Messages(U))
    BY <1>7, <2>1 DEF C!Load, UpTo
  <2>3. QED
    BY <1>3, <1>4, <1>7, <2>2 DEF Shaped, C!Load, C!store
<1>8. CASE C!Ask
  <2>1. C!UserMessage(run + 1, now) \in Messages(U)
    BY <1>1, <1>2, MessagesAre DEF RowsOf
  <2>2. QED
    BY <1>3, <1>4, <1>6, <1>8, <2>1 DEF Shaped, C!Ask, C!store
<1>9. CASE C!PersistQuestion
  <2>1. C!SaveRow(disk, C!UserMessage(run, now)) \in Seq(RowsOf(U))
    BY <1>1, <1>2, <1>3, MessagesAre, SavesRow DEF Saved
  <2>2. QED
    BY <1>3, <1>4, <1>9, <2>1 DEF Shaped, C!PersistQuestion
<1>10. CASE C!Assemble
  <2>1. result' \in Outcomes(U) \cup {C!NoResult}
    <3>1. CASE result' \in {c \in C!Compactions(mem) : c.success}
      BY <1>2, <1>3, <3>1, CompactionMakes
    <3>2. CASE result' = result
      BY <1>3, <3>2
    <3>3. QED
      BY <1>10, <3>1, <3>2 DEF C!Assemble
  <2>2. QED
    BY <1>3, <1>4, <1>10, <2>1 DEF Shaped, C!Assemble, C!store
<1>11. CASE C!CompactAuto
  <2>1. result \in Outcomes(U)
    BY <1>1, <1>11, OutcomesAre DEF C!CompactAuto
  <2>2. mem' \in Seq(Messages(U))
    BY <1>11, <2>1 DEF C!CompactAuto, Outcomes
  <2>3. QED
    BY <1>3, <1>4, <1>11, <2>2 DEF Shaped, C!CompactAuto, C!store
<1>12. CASE C!PersistDigest
  <2>1. result \in Outcomes(U)
    BY <1>1, <1>12, OutcomesAre DEF C!PersistDigest
  <2> DEFINE id == <<"auto", result.first.id, 0>>
  <2> HIDE DEF id
  <2>2. PICK V : V = U \cup {id}
    OBVIOUS
  <2>3. Named(V) /\ Shaped(V)
    <3>1. U \subseteq V
      BY <2>2
    <3>2. QED
      BY <1>1, <3>1, MoreNames
  <2>4. C!DigestRow(id, result) \in DigestRows(V)
    <3>1. pc \in {"compact", "digest"}
      BY <1>12 DEF C!PersistDigest
    <3>2. result \in Outcomes(V)
      BY <2>3, <3>1, OutcomesAre
    <3>3. id \in V
      BY <2>2
    <3>4. QED
      BY <3>2, <3>3, DigestRowIs
  <2>5. C!SaveDigest(C!DigestRow(id, result)) \in Seq(DigestRows(V))
    BY <2>3, <2>4, SavesDigest DEF Saved, Shaped
  <2>6. digests' \in Seq(DigestRows(V))
    BY <1>12, <2>5 DEF C!PersistDigest, id
  <2>7. Shaped(V)'
    BY <1>12, <2>3, <2>6 DEF Shaped, C!PersistDigest
  <2>8. QED
    BY <2>3, <2>7 DEF Typed
<1>13. CASE C!Answer
  <2>1. C!AssistantMessage(run, round, 0, now + 1) \in Messages(U)
    BY <1>1, <1>2, MessagesAre
  <2>2. QED
    BY <1>3, <1>4, <1>6, <1>13, <2>1 DEF Shaped, C!Answer, C!Extend, C!store
<1>14. ASSUME NEW n \in 1 .. MaxCalls, C!CallTools(n) PROVE Typed'
  <2>1. PICK t \in Seq(Messages(U)) : CallsAdded(n, t)
    BY <1>1, <1>14, CallsAdd
  <2>2. mem' \in Seq(Messages(U)) /\ manual' \in Manuals(U)
    <3>1. CASE mem' = mem \o t /\ UNCHANGED <<manual, compacted>>
      BY <1>3, <2>1, <3>1
    <3>2. CASE /\ mem' = manual.result.messages \o t
               /\ manual.at = "summarise" /\ C!ManualReplaces
      <4>1. manual.result \in Outcomes(U)
        BY <1>1, <3>2, OutcomesAre
      <4>2. manual.result.messages \in Seq(Messages(U))
        BY <4>1 DEF Outcomes
      <4>3. manual' \in Manuals(U)
        BY <1>3, <3>2 DEF C!ManualReplaces, Manuals
      <4>4. QED
        BY <2>1, <3>2, <4>2, <4>3
    <3>3. QED
      BY <2>1, <3>1, <3>2 DEF CallsAdded
  <2>3. QED
    BY <1>3, <1>4, <1>14, <2>2 DEF Shaped, C!CallTools, C!store
<1>15. CASE C!CallFails
  BY <1>3, <1>4, <1>15 DEF Shaped, C!CallFails, C!store
<1>16. CASE C!Cancelled
  <2>1. mem' \in Seq(Messages(U))
    <3>1. ASSUME NEW n \in 0 .. MaxCalls, mem' = mem \o <<C!AssistantMessage(run, round, n, now + 1)>>
          PROVE  mem' \in Seq(Messages(U))
      <4>1. C!AssistantMessage(run, round, n, now + 1) \in Messages(U)
        BY <1>1, <1>2, MessagesAre
      <4>2. QED
        BY <1>6, <3>1, <4>1
    <3>2. QED
      BY <1>3, <1>16, <3>1 DEF C!Cancelled
  <2>2. QED
    BY <1>3, <1>4, <1>5, <1>16, <2>1 DEF Shaped, C!Cancelled, C!store
<1>17. CASE C!PersistAnswers
  <2>1. C!AnswersSaved \in Seq(RowsOf(U))
    BY <1>1, <1>17, AnswersAreNew DEF C!PersistAnswers
  <2>2. QED
    BY <1>3, <1>4, <1>17, <2>1 DEF Shaped, C!PersistAnswers
<1>18. CASE C!StartManual
  <2>1. PICK c \in C!Compactions(mem) : manual' = [at |-> "summarise", result |-> c]
    BY <1>18 DEF C!StartManual
  <2>2. c \in Outcomes(U)
    BY <1>2, <1>3, CompactionMakes
  <2>3. manual' \in Manuals(U)
    BY <2>1, <2>2 DEF Manuals
  <2>4. QED
    BY <1>3, <1>4, <1>18, <2>3 DEF Shaped, C!StartManual, C!store
<1>19. CASE C!ReplaceManual
  <2>1. mem' \in Seq(Messages(U)) /\ manual' \in Manuals(U)
    <3>1. CASE manual.result.success
      <4>1. manual.result \in Outcomes(U)
        BY <1>1, <1>19, OutcomesAre DEF C!ReplaceManual
      <4>2. mem' \in Seq(Messages(U))
        BY <1>19, <3>1, <4>1 DEF C!ReplaceManual, Outcomes
      <4>3. manual' \in Manuals(U)
        BY <1>3, <1>19, <3>1 DEF C!ReplaceManual, C!ManualReplaces, Manuals
      <4>4. QED
        BY <4>2, <4>3
    <3>2. CASE ~ manual.result.success
      BY <1>3, <1>5, <1>19, <3>2 DEF C!ReplaceManual
    <3>3. QED
      BY <3>1, <3>2
  <2>2. QED
    BY <1>3, <1>4, <1>19, <2>1 DEF Shaped, C!ReplaceManual, C!store
<1>20. CASE C!PersistManual
  <2>1. digests' \in Seq(DigestRows(U))
    <3>1. manual.result \in Outcomes(U)
      BY <1>1, <1>20, OutcomesAre DEF C!PersistManual
    <3>2. <<"manual", used.manual, 0>> \in U
      <4>1. used.manual \in Nat
        BY PartsAssumption DEF Counted, C!ConversationAssumption
      <4>2. QED
        BY <1>1, <4>1 DEF Named
    <3>3. C!DigestRow(<<"manual", used.manual, 0>>, manual.result) \in DigestRows(U)
      BY <3>1, <3>2, DigestRowIs
    <3>4. C!SaveDigest(C!DigestRow(<<"manual", used.manual, 0>>, manual.result)) \in Seq(DigestRows(U))
      BY <1>3, <3>3, SavesDigest DEF Saved
    <3>5. QED
      BY <1>3, <1>20, <3>4 DEF C!PersistManual
  <2>2. QED
    BY <1>3, <1>4, <1>5, <1>20, <2>1 DEF Shaped, C!PersistManual
<1>21. CASE C!Restart
  BY <1>3, <1>4, <1>5, <1>21 DEF Shaped, C!Restart, C!store
<1>22. QED
  BY <1>7, <1>8, <1>9, <1>10, <1>11, <1>12, <1>13, <1>14, <1>15, <1>16, <1>17, <1>18, <1>19, <1>20, <1>21
     DEF C!Next

\* What was old enough is so after a step.
LEMMA StaysOld ==
  ASSUME Typed, Counted, C!Next, NEW U, NEW q \in Seq(Messages(U)), Past(q, pc, run, round)
  PROVE  Past(q, pc', run', round')
<1>1. run \in Nat /\ round \in Nat /\ run' \in Nat /\ round' \in Nat
  BY CountedStep, PartsAssumption DEF Counted, C!ConversationAssumption
<1>2. Moves(pc, run, round, pc', run', round')
  BY StepMoves
<1>3. QED
  BY <1>1, <1>2, OldStays

\* What a longer conversation is like: old enough, and with message m at its end.
Grown(s, m, p, r, n) == Past(s, p, r, n) /\ s # <<>> /\ s[Len(s)] = m
LEMMA LongerIs ==
  ASSUME NEW U, NEW q \in Seq(Messages(U)), NEW t \in Seq(Messages(U)), Len(t) # 0,
         NEW p, NEW r, NEW n, Past(q, p, r, n), \A i \in 1 .. Len(t) : Older(t[i], p, r, n)
  PROVE  Grown(q \o t, t[Len(t)], p, r, n)
<1> DEFINE s == q \o t
<1> HIDE DEF s
<1>1. /\ s \in Seq(Messages(U)) /\ Lengthened(s, q, t)
      /\ Len(q) \in Nat /\ Len(t) \in Nat /\ Len(s) \in Nat
  BY Lengthens DEF s
<1>2. \A i \in 1 .. Len(s) : Older(s[i], p, r, n)
  <2>1. TAKE i \in 1 .. Len(s)
  <2>2. CASE i \in 1 .. Len(q)
    BY <1>1, <2>2 DEF Lengthened, Past
  <2>3. CASE i - Len(q) \in 1 .. Len(t) /\ s[i] = t[i - Len(q)]
    BY <2>3
  <2>4. QED
    BY <1>1, <2>2, <2>3 DEF Lengthened
<1>3. Len(s) = Len(q) + Len(t) /\ Len(t) \in 1 .. Len(t)
  BY <1>1 DEF Lengthened
<1>4. s[Len(s)] = t[Len(t)]
  BY <1>1, <1>3 DEF Lengthened
<1>5. s # <<>>
  BY <1>1, <1>3
<1>6. QED
  BY <1>2, <1>4, <1>5 DEF Past, Grown, s

\* One that ends with a question or a result is neither cut short nor ends with a call.
LEMMA EndsOpen ==
  ASSUME NEW U, NEW q \in Seq(Messages(U)), q # <<>>, q[Len(q)].role # "assistant"
  PROVE  EndsFresh(q) /\ Steady(q)
<1>1. EndsFresh(q)
  BY QuietIsFresh DEF Quiet
<1>2. ~ C!CutShort(q)
  BY DEF C!CutShort, C!Unanswered
<1>3. QED
  BY <1>1, <1>2 DEF Steady

\* One message more.
LEMMA OneMore ==
  ASSUME NEW U, NEW q \in Seq(Messages(U)), NEW m \in Messages(U),
         NEW p, NEW r, NEW n, Past(q, p, r, n), Older(m, p, r, n)
  PROVE  q \o <<m>> \in Seq(Messages(U)) /\ Grown(q \o <<m>>, m, p, r, n)
<1> DEFINE t == <<m>>
<1>1. t \in Seq(Messages(U)) /\ Len(t) = 1 /\ t[1] = m
  OBVIOUS
<1>2. q \o t \in Seq(Messages(U))
  BY <1>1
<1> HIDE DEF t
<1>3. \A i \in 1 .. Len(t) : Older(t[i], p, r, n)
  BY <1>1
<1>4. Grown(q \o t, t[Len(t)], p, r, n)
  <2>1. Len(t) # 0
    BY <1>1
  <2>2. QED
    BY <1>1, <1>3, <2>1, LongerIs
<1>5. QED
  BY <1>1, <1>2, <1>4 DEF t

\* A call that an abort leaves at the end has no results.
LEMMA AbortedIsFresh ==
  ASSUME NEW U, NEW q \in Seq(Messages(U)), NEW r \in Nat, NEW k \in Nat, NEW n, NEW ts,
         C!AssistantMessage(r, k, n, ts) \in Messages(U),
         Past(q, "call", r, k)
  PROVE  EndsFresh(q \o <<C!AssistantMessage(r, k, n, ts)>>)
<1> DEFINE m == C!AssistantMessage(r, k, n, ts)
           s == q \o <<m>>
<1>1. m.role = "assistant" /\ m.run = r /\ m.turn = k /\ m \in Messages(U)
  BY DEF C!AssistantMessage
<1> HIDE DEF m
<1>2. s \in Seq(Messages(U)) /\ Len(s) = Len(q) + 1 /\ s[Len(s)] = m
      /\ \A i \in 1 .. Len(q) : s[i] = q[i]
  BY <1>1
<1>3. Len(q) \in Nat
  OBVIOUS
<1> HIDE DEF s
<1>4. ASSUME NEW j \in 1 .. Len(s), C!Answers(s, j, Len(s)) PROVE FALSE
  <2>1. s[j].role = "tool" /\ s[j].run = r /\ s[j].turn = k
    BY <1>1, <1>2, <1>4 DEF C!Answers
  <2>2. CASE j \in 1 .. Len(q)
    <3>1. Older(q[j], "call", r, k) /\ q[j] \in Messages(U)
      BY <2>2 DEF Past
    <3>2. q[j] = s[j]
      BY <1>2, <2>2
    <3>3. k < k
      BY <2>1, <3>1, <3>2 DEF Older
    <3>4. QED
      BY <3>3
  <2>3. CASE j = Len(s)
    BY <1>1, <1>2, <2>1, <2>3
  <2>4. QED
    BY <1>2, <1>3, <2>2, <2>3
<1>5. QED
  BY <1>4 DEF EndsFresh, s, m

\* The messages of a compaction in progress.
LEMMA OutcomeFlow ==
  ASSUME NEW U, Named(U), NEW c \in Outcomes(U), c \in C!Compactions(c.from), EndsFresh(c.from),
         Counted, Past(c.from, pc, run, round)
  PROVE  /\ c.messages \in Seq(Messages(U)) /\ EndsFresh(c.messages)
         /\ Past(c.messages, pc, run, round)
         /\ c.success => Steady(c.messages)
<1>1. c.from \in Seq(Messages(U)) /\ c.messages \in Seq(Messages(U)) /\ NoId \in U
  BY DEF Outcomes, Named
<1>2. run \in Nat /\ round \in Nat
  BY PartsAssumption DEF Counted, C!ConversationAssumption
<1>3. EndsFresh(c.messages)
  BY <1>1, StaysFresh
<1>4. Past(c.messages, pc, run, round)
  BY <1>1, <1>2, StaysPast
<1>5. c.success => Steady(c.messages)
  BY <1>1, StaysSteady
<1>6. QED
  BY <1>1, <1>3, <1>4, <1>5

LEMMA FlowStep ==
  ASSUME Typed, Counted, Flow, Automatic, Manual, Saved, C!Next
  PROVE  Flow'
<1>1. PICK U : Named(U) /\ Shaped(U)
  BY DEF Typed
<1>2. NoId \in U /\ now + 1 \in Nat /\ now \in Nat /\ run \in Nat /\ run + 1 \in Nat /\ round \in Nat /\ 0 \in Nat
  BY <1>1, PartsAssumption DEF Named, Counted, C!ConversationAssumption
<1>3. mem \in Seq(Messages(U)) /\ disk \in Seq(RowsOf(U)) /\ digests \in Seq(DigestRows(U))
  BY <1>1 DEF Shaped
<1>4. EndsFresh(mem) /\ Past(mem, pc', run', round')
  BY <1>3, StaysOld DEF Flow
<1>5. \A q \in Seq(Messages(U)) : Past(q, pc, run, round) => Past(q, pc', run', round')
  BY StaysOld
<1>6. ASSUME UNCHANGED mem, pc' \in {"asked", "assemble"} => pc \in {"asked", "assemble"} PROVE Flow'
  BY <1>4, <1>6 DEF Flow
<1>7. CASE C!Load
  <2>1. /\ C!Hydrated(disk, digests) \in Seq(UpTo(Messages(U), run))
        /\ Quiet(C!Hydrated(disk, digests))
    <3>1. \A i \in 1 .. Len(disk) : disk[i].run <= run
      BY DEF Saved, RowNamed
    <3>2. QED
      BY <1>2, <1>3, <3>1, HydratedIs
  <2>2. mem' \in Seq(UpTo(Messages(U), run)) /\ Quiet(mem') /\ pc' = "idle" /\ run' = run
    BY <1>7, <2>1 DEF C!Load, C!runVars, Counted
  <2>3. mem' \in Seq(Messages(U)) /\ \A i \in 1 .. Len(mem') : mem'[i].run <= run
    BY <2>2 DEF UpTo
  <2>4. EndsFresh(mem')
    BY <2>2, <2>3, QuietIsFresh
  <2>5. Past(mem', pc', run', round')
    BY <2>2, <2>3 DEF Past, Older
  <2>6. QED
    BY <2>2, <2>4, <2>5 DEF Flow
<1>8. CASE C!Ask
  <2> DEFINE m == C!UserMessage(run + 1, now)
  <2>1. m \in Messages(U) /\ m.role = "user" /\ m.run = run + 1
    BY <1>1, <1>2, MessagesAre DEF RowsOf, C!UserMessage
  <2>2. mem' = mem \o <<m>> /\ run' = run + 1
    BY <1>8 DEF C!Ask
  <2> HIDE DEF m
  <2>3. Older(m, pc', run', round')
    BY <1>2, <2>1, <2>2 DEF Older
  <2>4. /\ mem' \in Seq(Messages(U)) /\ mem' # <<>>
        /\ Past(mem', pc', run', round') /\ mem'[Len(mem')] = m
    BY <1>3, <1>4, <2>1, <2>2, <2>3, OneMore DEF Grown
  <2>5. EndsFresh(mem') /\ Steady(mem')
    BY <2>1, <2>4, EndsOpen
  <2>6. QED
    BY <2>4, <2>5 DEF Flow
<1>9. CASE C!PersistQuestion
  BY <1>6, <1>9 DEF C!PersistQuestion
<1>10. CASE C!Assemble
  BY <1>6, <1>10 DEF C!Assemble
<1>11. CASE C!CompactAuto
  <2>1. /\ pc = "compact" /\ mem' = result.messages /\ pc' = "digest"
    BY <1>11 DEF C!CompactAuto
  <2>2. result \in Outcomes(U) /\ result # C!NoResult
    BY <1>1, <2>1, OutcomesAre, NoOutcome
  <2>3. result \in C!Compactions(result.from) /\ EndsFresh(result.from) /\ Past(result.from, pc, run, round)
    BY <2>1, <2>2 DEF Automatic
  <2>4. /\ mem' \in Seq(Messages(U)) /\ EndsFresh(mem') /\ Past(result.messages, pc, run, round)
        /\ result.messages \in Seq(Messages(U))
    BY <1>1, <2>1, <2>2, <2>3, OutcomeFlow
  <2>5. Past(mem', pc', run', round')
    BY <1>5, <2>1, <2>4
  <2>6. QED
    BY <2>1, <2>4, <2>5 DEF Flow
<1>12. CASE C!PersistDigest
  BY <1>6, <1>12 DEF C!PersistDigest
<1>13. CASE C!Answer
  <2> DEFINE m == C!AssistantMessage(run, round, 0, now + 1)
  <2>1. m \in Messages(U) /\ m.role = "assistant" /\ m.run = run /\ m.calls = 0
    BY <1>1, <1>2, MessagesAre DEF C!AssistantMessage
  <2>2. mem' = mem \o <<m>> /\ run' = run /\ pc' = "persist"
    BY <1>13 DEF C!Answer, C!Extend
  <2> HIDE DEF m
  <2>3. Older(m, pc', run', round')
    BY <1>2, <2>1, <2>2 DEF Older
  <2>4. /\ mem' \in Seq(Messages(U)) /\ mem' # <<>>
        /\ Past(mem', pc', run', round') /\ mem'[Len(mem')] = m
    BY <1>3, <1>4, <2>1, <2>2, <2>3, OneMore DEF Grown
  <2>5. EndsFresh(mem')
    BY <2>1, <2>4, QuietIsFresh DEF Quiet
  <2>6. QED
    BY <2>2, <2>4, <2>5 DEF Flow
<1>14. ASSUME NEW n \in 1 .. MaxCalls, C!CallTools(n) PROVE Flow'
  <2>1. PICK t \in Seq(Messages(U)) : CallsAdded(n, t)
    BY <1>1, <1>14, CallsAdd
  <2>2. pc' = "assemble" /\ run' = run /\ round' = round
    BY <1>14 DEF C!CallTools
  <2>3. /\ Len(t) # 0 /\ t[Len(t)].role = "tool"
        /\ \A i \in 1 .. Len(t) : Older(t[i], pc', run', round')
    <3>1. /\ Len(t) \in Nat \ {0} /\ t[Len(t)].role = "tool"
          /\ \A i \in 1 .. Len(t) : OfRun(t[i], run, round)
      BY <2>1 DEF CallsAdded, AddedBy
    <3>2. ASSUME NEW i \in 1 .. Len(t) PROVE Older(t[i], pc', run', round')
      <4>1. OfRun(t[i], run, round)
        BY <3>1
      <4>2. QED
        BY <1>2, <2>2, <4>1 DEF OfRun, Older
    <3>3. QED
      BY <3>1, <3>2
  <2>4. PICK q \in Seq(Messages(U)) : mem' = q \o t /\ Past(q, pc', run', round')
    <3>1. CASE mem' = mem \o t
      BY <1>3, <1>4, <3>1
    <3>2. CASE /\ mem' = manual.result.messages \o t /\ manual.at = "summarise"
      <4>1. manual.result \in Outcomes(U)
        BY <1>1, <3>2, OutcomesAre
      <4>2. /\ manual.result \in C!Compactions(manual.result.from) /\ EndsFresh(manual.result.from)
            /\ Past(manual.result.from, pc, run, round)
        BY <3>2 DEF Manual
      <4>3. /\ manual.result.messages \in Seq(Messages(U))
            /\ Past(manual.result.messages, pc, run, round)
        BY <1>1, <4>1, <4>2, OutcomeFlow
      <4>4. QED
        BY <1>5, <3>2, <4>3
    <3>3. QED
      BY <2>1, <3>1, <3>2 DEF CallsAdded
  <2>5. /\ mem' \in Seq(Messages(U)) /\ mem' # <<>> /\ Past(mem', pc', run', round')
        /\ mem'[Len(mem')] = t[Len(t)]
    <3>1. Grown(q \o t, t[Len(t)], pc', run', round')
      BY <2>3, <2>4, LongerIs
    <3>2. q \o t \in Seq(Messages(U))
      BY <2>4, Lengthens
    <3>3. QED
      BY <2>4, <3>1, <3>2 DEF Grown
  <2>6. EndsFresh(mem') /\ Steady(mem')
    BY <2>3, <2>5, EndsOpen
  <2>7. QED
    BY <2>5, <2>6 DEF Flow
<1>15. CASE C!CallFails
  BY <1>6, <1>15 DEF C!CallFails
<1>16. CASE C!Cancelled
  <2>1. pc' = "idle" /\ run' = run
    BY <1>16 DEF C!Cancelled, C!EndRun
  <2>2. ASSUME pc = "call", NEW n \in 0 .. MaxCalls,
               mem' = mem \o <<C!AssistantMessage(run, round, n, now + 1)>>
        PROVE  Flow'
    <3> DEFINE m == C!AssistantMessage(run, round, n, now + 1)
    <3>1. m \in Messages(U) /\ m.run = run
      BY <1>1, <1>2, MessagesAre DEF C!AssistantMessage
    <3>2. Past(mem, "call", run, round)
      BY <2>2 DEF Flow
    <3>3. EndsFresh(mem')
      BY <1>2, <1>3, <2>2, <3>1, <3>2, AbortedIsFresh
    <3> HIDE DEF m
    <3>4. Older(m, pc', run', round')
      BY <1>2, <2>1, <3>1 DEF Older
    <3>5. Past(mem', pc', run', round')
      BY <1>3, <1>4, <2>2, <3>1, <3>4, OneMore DEF m, Grown
    <3>6. QED
      BY <2>1, <3>3, <3>5 DEF Flow
  <2>3. CASE UNCHANGED mem
    BY <1>6, <2>1, <2>3
  <2>4. QED
    BY <1>16, <2>2, <2>3 DEF C!Cancelled
<1>17. CASE C!PersistAnswers
  BY <1>6, <1>17 DEF C!PersistAnswers, C!EndRun
<1>18. CASE C!StartManual
  BY <1>6, <1>18 DEF C!StartManual, C!runVars
<1>19. CASE C!ReplaceManual
  <2>1. CASE ~ manual.result.success
    BY <1>6, <1>19, <2>1 DEF C!ReplaceManual, C!runVars
  <2>2. CASE manual.result.success
    <3>1. manual.at = "summarise" /\ mem' = manual.result.messages /\ pc' = pc
      BY <1>19, <2>2 DEF C!ReplaceManual, C!runVars
    <3>2. manual.result \in Outcomes(U)
      BY <1>1, <3>1, OutcomesAre
    <3>3. /\ manual.result \in C!Compactions(manual.result.from) /\ EndsFresh(manual.result.from)
          /\ Past(manual.result.from, pc, run, round)
      BY <3>1 DEF Manual
    <3>4. /\ manual.result.messages \in Seq(Messages(U)) /\ EndsFresh(manual.result.messages)
          /\ Past(manual.result.messages, pc, run, round) /\ Steady(manual.result.messages)
      BY <1>1, <2>2, <3>2, <3>3, OutcomeFlow
    <3>5. QED
      BY <1>5, <3>1, <3>4 DEF Flow
  <2>3. QED
    BY <2>1, <2>2
<1>20. CASE C!PersistManual
  BY <1>6, <1>20 DEF C!PersistManual, C!runVars
<1>21. CASE C!Restart
  <2>1. mem' = <<>> /\ pc' = "idle"
    BY <1>21 DEF C!Restart, C!EndRun
  <2>2. EndsFresh(mem') /\ Past(mem', pc', run', round')
    BY <2>1 DEF EndsFresh, Past
  <2>3. QED
    BY <2>1, <2>2 DEF Flow
<1>22. QED
  BY <1>7, <1>8, <1>9, <1>10, <1>11, <1>12, <1>13, <1>14, <1>15, <1>16, <1>17, <1>18, <1>19, <1>20, <1>21
     DEF C!Next

LEMMA AutomaticStep ==
  ASSUME Typed, Counted, Flow, Automatic, C!Next
  PROVE  Automatic'
<1>1. PICK U : Named(U) /\ Shaped(U)
  BY DEF Typed
<1>2. NoId \in U /\ mem \in Seq(Messages(U))
  BY <1>1 DEF Named, Shaped
<1>3. ASSUME UNCHANGED result, pc' # "compact" \/ pc' = pc,
             pc' \in {"compact", "digest"} <=> pc \in {"compact", "digest"}
      PROVE  Automatic'
  <2>1. /\ pc' \in {"compact", "digest"} <=> result' # C!NoResult
        /\ result' # C!NoResult =>
             result' \in C!Compactions(result'.from) /\ result'.success /\ EndsFresh(result'.from)
    BY <1>3 DEF Automatic
  <2>2. ASSUME pc' = "compact" PROVE Past(result'.from, pc', run', round') /\ Steady(result'.from)
    <3>1. pc = "compact"
      BY <1>3, <2>2
    <3>2. Past(result.from, pc, run, round) /\ Steady(result.from)
      BY <3>1 DEF Automatic
    <3>3. result.from \in Seq(Messages(U))
      BY <1>1, <3>1 DEF Automatic, Shaped, Outcomes
    <3>4. QED
      BY <1>3, <3>2, <3>3, StaysOld
  <2>3. QED
    BY <2>1, <2>2 DEF Automatic
<1>4. CASE result' = C!NoResult /\ pc' \notin {"compact", "digest"}
  BY <1>4 DEF Automatic
<1>5. CASE C!Load \/ C!StartManual \/ C!ReplaceManual \/ C!PersistManual
  BY <1>3, <1>5 DEF C!Load, C!StartManual, C!ReplaceManual, C!PersistManual, C!runVars
<1>6. CASE C!Ask \/ C!PersistQuestion \/ C!CompactAuto \/ C!Answer \/ C!CallFails \/ C!PersistAnswers
  BY <1>3, <1>6
     DEF C!Ask, C!PersistQuestion, C!CompactAuto, C!Answer, C!CallFails, C!PersistAnswers, C!EndRun
<1>7. ASSUME NEW n \in 1 .. MaxCalls, C!CallTools(n) PROVE Automatic'
  BY <1>3, <1>7 DEF C!CallTools
<1>8. CASE C!PersistDigest \/ C!Cancelled \/ C!Restart
  BY <1>4, <1>8 DEF C!PersistDigest, C!Cancelled, C!Restart, C!EndRun
<1>9. CASE C!Assemble
  <2>1. CASE pc' \in {"call", "persist"} /\ UNCHANGED result
    BY <1>3, <1>9, <2>1 DEF C!Assemble
  <2>2. CASE pc' = "compact" /\ result' \in {c \in C!Compactions(mem) : c.success}
    <3>1. result' \in C!Compactions(mem) /\ result'.success
      BY <2>2
    <3>2. result' \in Outcomes(U) /\ result'.from = mem
      BY <1>2, <3>1, CompactionMakes
    <3>3. result' # C!NoResult
      BY <3>2, NoOutcome
    <3>4. EndsFresh(mem) /\ Past(mem, pc, run, round) /\ Steady(mem)
      BY <1>9 DEF Flow, C!Assemble
    <3>5. Past(mem, pc', run', round')
      BY <1>2, <3>4, StaysOld
    <3>6. QED
      BY <2>2, <3>1, <3>2, <3>3, <3>4, <3>5 DEF Automatic
  <2>3. QED
    BY <1>9, <2>1, <2>2 DEF C!Assemble
<1>10. QED
  BY <1>5, <1>6, <1>7, <1>8, <1>9 DEF C!Next

LEMMA ManualStep ==
  ASSUME Typed, Counted, Flow, Manual, C!Next
  PROVE  Manual'
<1>1. PICK U : Named(U) /\ Shaped(U)
  BY DEF Typed
<1>2. NoId \in U /\ mem \in Seq(Messages(U)) /\ manual \in Manuals(U)
  BY <1>1 DEF Named, Shaped
<1>3. CASE UNCHANGED manual
  <2>1. ASSUME manual.at = "summarise" PROVE Past(manual.result.from, pc', run', round')
    <3>1. manual.result.from \in Seq(Messages(U)) /\ Past(manual.result.from, pc, run, round)
      BY <1>2, <2>1 DEF Manual, Manuals, Outcomes
    <3>2. QED
      BY <3>1, StaysOld
  <2>2. QED
    BY <1>3, <2>1 DEF Manual
<1>4. CASE manual' = C!Away
  BY <1>4 DEF Manual, C!Away
<1>5. CASE C!ManualReplaces /\ manual.at = "summarise" /\ manual.result.success
  <2>1. manual'.at = "digest" /\ manual'.result = manual.result
    BY <1>2, <1>5 DEF C!ManualReplaces, Manuals
  <2>2. QED
    BY <1>5, <2>1 DEF Manual
<1>6. CASE C!StartManual
  <2>1. PICK c \in C!Compactions(mem) : manual' = [at |-> "summarise", result |-> c]
    BY <1>6 DEF C!StartManual
  <2>2. c \in Outcomes(U) /\ c.from = mem
    BY <1>2, CompactionMakes
  <2>3. c # C!NoResult
    BY <2>2, NoOutcome
  <2>4. EndsFresh(mem) /\ Past(mem, pc', run', round')
    BY <1>2, StaysOld DEF Flow
  <2>5. QED
    BY <2>1, <2>2, <2>3, <2>4 DEF Manual
<1>7. ASSUME NEW n \in 1 .. MaxCalls, C!CallTools(n) PROVE Manual'
  <2>1. PICK t \in Seq(Messages(U)) : CallsAdded(n, t)
    BY <1>1, <1>7, CallsAdd
  <2>2. QED
    BY <1>3, <1>5, <2>1 DEF CallsAdded
<1>8. CASE C!ReplaceManual
  BY <1>4, <1>5, <1>8 DEF C!ReplaceManual
<1>9. CASE C!PersistManual \/ C!Restart
  BY <1>4, <1>9 DEF C!PersistManual, C!Restart
<1>10. CASE C!Load \/ C!Ask \/ C!PersistQuestion \/ C!Assemble \/ C!CompactAuto \/ C!PersistDigest
            \/ C!Answer \/ C!CallFails \/ C!Cancelled \/ C!PersistAnswers
  BY <1>3, <1>10
     DEF C!Load, C!Ask, C!PersistQuestion, C!Assemble, C!CompactAuto, C!PersistDigest,
         C!Answer, C!CallFails, C!Cancelled, C!PersistAnswers
<1>11. QED
  BY <1>6, <1>7, <1>8, <1>9, <1>10 DEF C!Next

\* How the run moves on, for what its rows are.
Proceeds(p, r, pp, rr) ==
  \/ rr = r + 1
  \/ rr = r /\ (pp = p \/ (p # "idle" /\ pp # "asked"))

LEMMA StepProceeds ==
  ASSUME Counted, C!Next
  PROVE  Proceeds(pc, run, pc', run')
<1>1. CASE C!Load \/ C!StartManual \/ C!ReplaceManual \/ C!PersistManual
  BY <1>1 DEF C!Load, C!StartManual, C!ReplaceManual, C!PersistManual, C!runVars, Proceeds
<1>2. CASE C!Ask
  BY <1>2 DEF C!Ask, Proceeds
<1>3. CASE C!PersistQuestion \/ C!Assemble \/ C!CompactAuto \/ C!PersistDigest
           \/ C!Answer \/ C!CallFails \/ C!Cancelled \/ C!PersistAnswers
  BY <1>3
     DEF C!PersistQuestion, C!Assemble, C!CompactAuto, C!PersistDigest,
         C!Answer, C!CallFails, C!Cancelled, C!PersistAnswers, C!EndRun, Proceeds
<1>4. ASSUME NEW n \in 1 .. MaxCalls, C!CallTools(n) PROVE Proceeds(pc, run, pc', run')
  BY <1>4 DEF C!CallTools, Proceeds
<1>5. CASE C!Restart
  BY <1>5 DEF C!Restart, C!EndRun, Proceeds
<1>6. QED
  BY <1>1, <1>2, <1>3, <1>4, <1>5 DEF C!Next

LEMMA NamesStay ==
  ASSUME NEW row, NEW p, NEW pp, NEW r \in Nat, NEW rr \in Nat, row.run \in Nat,
         RowNamed(row, p, r), Proceeds(p, r, pp, rr)
  PROVE  RowNamed(row, pp, rr)
<1>1. row.run <= rr /\ \A s \in 1 .. r : s \in 1 .. rr
  BY DEF RowNamed, Proceeds
<1>2. CASE \E s \in 1 .. r : row.id = <<"user", s, 0>> /\ (s = r => p # "asked")
  <2>1. PICK s \in 1 .. r : row.id = <<"user", s, 0>> /\ (s = r => p # "asked")
    BY <1>2
  <2>2. s = rr => pp # "asked"
    BY <2>1 DEF Proceeds
  <2>3. QED
    BY <1>1, <2>1, <2>2 DEF RowNamed
<1>3. CASE \E s \in 1 .. r, n \in Nat : row.id = <<"row", s, n>> /\ (s = r => p = "idle")
  <2>1. PICK s \in 1 .. r, n \in Nat : row.id = <<"row", s, n>> /\ (s = r => p = "idle")
    BY <1>3
  <2>2. s = rr => pp = "idle"
    BY <2>1 DEF Proceeds
  <2>3. QED
    BY <1>1, <2>1, <2>2 DEF RowNamed
<1>4. QED
  BY <1>2, <1>3 DEF RowNamed

LEMMA SavedStep ==
  ASSUME Typed, Counted, Flow, Saved, C!Next
  PROVE  Saved'
<1>1. PICK U : Named(U) /\ Shaped(U)
  BY DEF Typed
<1>2. /\ now \in Nat /\ run \in Nat /\ run' \in Nat /\ mem \in Seq(Messages(U))
      /\ disk \in Seq(RowsOf(U)) /\ digests \in Seq(DigestRows(U))
  BY <1>1, CountedStep, PartsAssumption DEF Counted, C!ConversationAssumption, Shaped
<1>3. ASSUME NEW i \in 1 .. Len(disk) PROVE RowNamed(disk[i], pc', run')
  <2>1. disk[i].run \in Nat
    <3>1. disk[i] \in RowsOf(U)
      BY <1>2
    <3>2. QED
      BY <3>1 DEF RowsOf, Messages
  <2>2. QED
    BY <1>2, <2>1, StepProceeds, NamesStay DEF Saved
<1>4. ASSUME NEW row, digests' = C!SaveDigest(row) PROVE Distinct(digests')
  <2>1. PICK R : R = DigestRows(U) \cup {row}
    OBVIOUS
  <2>2. digests \in Seq(R) /\ row \in R
    BY <1>2, <2>1
  <2>3. QED
    BY <1>4, <2>2, SavesDigest DEF Saved
<1>5. CASE UNCHANGED <<disk, digests>>
  BY <1>3, <1>5 DEF Saved
<1>6. CASE UNCHANGED disk /\ \E row : digests' = C!SaveDigest(row)
  BY <1>3, <1>4, <1>6 DEF Saved
<1>7. CASE C!PersistQuestion
  <2> DEFINE row == C!UserMessage(run, now)
  <2>1. row \in RowsOf(U) /\ row.id = <<"user", run, 0>> /\ row.run = run
    BY <1>1, <1>2, MessagesAre DEF C!UserMessage
  <2>2. disk' = C!SaveRow(disk, row) /\ pc = "asked" /\ pc' = "assemble" /\ run' = run
        /\ UNCHANGED digests
    BY <1>7 DEF C!PersistQuestion
  <2> HIDE DEF row
  <2>3. Distinct(disk') /\ SavedIn(disk', disk, row)
    BY <1>2, <2>1, <2>2, SavesRow DEF Saved
  <2>4. RowNamed(row, pc', run')
    <3>1. run \in 1 .. run
      BY <1>2, <2>2 DEF Counted
    <3>2. QED
      BY <1>2, <2>1, <2>2, <3>1 DEF RowNamed
  <2>5. \A i \in 1 .. Len(disk') : disk'[i] = row \/ \E j \in 1 .. Len(disk) : disk'[i] = disk[j]
    BY <2>3 DEF SavedIn
  <2>6. \A i \in 1 .. Len(disk') : RowNamed(disk'[i], pc', run')
    BY <1>3, <2>4, <2>5
  <2>7. QED
    BY <2>2, <2>3, <2>6 DEF Saved
<1>8. CASE C!PersistAnswers
  <2>1. disk' = C!AnswersSaved /\ pc = "persist" /\ pc' = "idle" /\ run' = run /\ UNCHANGED digests
    BY <1>8 DEF C!PersistAnswers, C!EndRun
  <2>2. Distinct(disk') /\ AnswersUpTo(disk', Len(mem))
    BY <1>1, <2>1, AnswersAreNew
  <2>3. ASSUME NEW i \in before + 1 .. Len(mem), Spoken(i) PROVE RowNamed(C!RowOf(i), pc', run')
    <3>1. i \in 1 .. Len(mem) /\ i \in Nat /\ i > before /\ before \in Nat
      BY DEF Counted
    <3>2. <<"row", run, i>> \in U
      BY <1>1, <1>2, <3>1 DEF Named
    <3>3. RowFor(C!RowOf(i), i)
      BY <1>2, <2>3, <3>1, <3>2, RowOfIs
    <3>4. mem[i].run <= run
      BY <3>1 DEF Flow, Past, Older
    <3>5. run \in 1 .. run
      BY <1>2, <2>1 DEF Counted
    <3>6. QED
      BY <2>1, <3>1, <3>3, <3>4, <3>5 DEF RowNamed, RowFor
  <2>4. \A x \in 1 .. Len(disk') :
          \/ \E i \in 1 .. Len(disk) : disk'[x] = disk[i]
          \/ \E i \in before + 1 .. Len(mem) : Spoken(i) /\ disk'[x] = C!RowOf(i)
    BY <2>2 DEF AnswersUpTo
  <2>5. \A x \in 1 .. Len(disk') : RowNamed(disk'[x], pc', run')
    BY <1>3, <2>3, <2>4
  <2>6. QED
    BY <2>1, <2>2, <2>5 DEF Saved
<1>9. CASE C!PersistDigest
  BY <1>6, <1>9 DEF C!PersistDigest
<1>10. CASE C!PersistManual
  BY <1>5, <1>6, <1>10 DEF C!PersistManual
<1>11. ASSUME NEW n \in 1 .. MaxCalls, C!CallTools(n) PROVE Saved'
  BY <1>5, <1>11 DEF C!CallTools, C!store
<1>12. CASE C!Load \/ C!Ask \/ C!Assemble \/ C!CompactAuto \/ C!Answer \/ C!CallFails \/ C!Cancelled
            \/ C!StartManual \/ C!ReplaceManual \/ C!Restart
  BY <1>5, <1>12
     DEF C!Load, C!Ask, C!Assemble, C!CompactAuto, C!Answer, C!CallFails, C!Cancelled,
         C!StartManual, C!ReplaceManual, C!Restart, C!store
<1>13. QED
  BY <1>7, <1>8, <1>9, <1>10, <1>11, <1>12 DEF C!Next

\* The keys of a conversation, one by one.
LEMMA KeyedBy ==
  ASSUME NEW U, NEW q \in Seq(Messages(U)), NEW k
  PROVE  /\ k \in C!Keys(q) <=> \E i \in 1 .. Len(q) : q[i].role # "digest" /\ k = C!KeyOf(q[i])
         /\ k \in C!Keys(q) =>
              /\ k \in KeySet /\ k[1] # "digest"
              /\ \E i \in 1 .. Len(q) : q[i].role = k[1] /\ q[i].run = k[2] /\ k = C!KeyOf(q[i])
<1>1. /\ C!Keys(q) = {C!KeyOf(q[i]) : i \in {j \in 1 .. Len(q) : q[j].role # "digest"}}
      /\ C!Keys(q) \in SUBSET KeySet
  BY KeysAre
<1>2. k \in C!Keys(q) <=> \E i \in 1 .. Len(q) : q[i].role # "digest" /\ k = C!KeyOf(q[i])
  BY <1>1
<1>3. \A i \in 1 .. Len(q) : C!KeyOf(q[i])[1] = q[i].role /\ C!KeyOf(q[i])[2] = q[i].run
  BY DEF C!KeyOf
<1>4. QED
  BY <1>1, <1>2, <1>3

\* Table t has every row that is there already.
Holds(t) == \A i \in 1 .. Len(disk) : \E x \in 1 .. Len(t) : t[x] = disk[i]
LEMMA KeysStay ==
  ASSUME NEW U, disk \in Seq(RowsOf(U)), NEW t \in Seq(RowsOf(U)), Holds(t)
  PROVE  C!Keys(disk) \subseteq C!Keys(t)
<1>1. disk \in Seq(Messages(U)) /\ t \in Seq(Messages(U))
  BY DEF RowsOf
<1>2. ASSUME NEW k \in C!Keys(disk) PROVE k \in C!Keys(t)
  <2>1. PICK i \in 1 .. Len(disk) : disk[i].role # "digest" /\ k = C!KeyOf(disk[i])
    BY <1>1, <1>2, KeyedBy
  <2>2. PICK x \in 1 .. Len(t) : t[x] = disk[i]
    BY DEF Holds
  <2>3. QED
    BY <1>1, <2>1, <2>2, KeyedBy
<1>3. QED
  BY <1>2

\* The question of the run in progress gets a row of its own.
LEMMA QuestionSaved ==
  ASSUME NEW U, Named(U), Shaped(U), Counted, Saved, C!PersistQuestion
  PROVE  disk' \in Seq(RowsOf(U)) /\ Holds(disk') /\ Asked(run) \in C!Keys(disk')
<1> DEFINE row == C!UserMessage(run, now)
<1>1. /\ now \in Nat /\ run \in Nat /\ disk \in Seq(RowsOf(U)) /\ Distinct(disk)
      /\ pc = "asked" /\ disk' = C!SaveRow(disk, row)
  BY PartsAssumption DEF Counted, C!ConversationAssumption, Shaped, Saved, C!PersistQuestion
<1>2. /\ row \in RowsOf(U) /\ row.id = <<"user", run, 0>> /\ row.role # "digest"
      /\ C!KeyOf(row) = Asked(run)
  BY <1>1, MessagesAre DEF C!UserMessage, C!KeyOf, Asked
<1> HIDE DEF row
<1>3. disk' \in Seq(RowsOf(U)) /\ SavedIn(disk', disk, row)
  BY <1>1, <1>2, SavesRow
<1>4. ASSUME NEW i \in 1 .. Len(disk) PROVE disk[i].id # row.id
  <2>1. RowNamed(disk[i], "asked", run)
    BY <1>1 DEF Saved
  <2>2. CASE \E s \in 1 .. run : disk[i].id = <<"user", s, 0>> /\ (s = run => "asked" # "asked")
    BY <1>2, <2>2
  <2>3. CASE \E s \in 1 .. run, n \in Nat : disk[i].id = <<"row", s, n>>
    BY <1>2, <2>3
  <2>4. QED
    BY <2>1, <2>2, <2>3 DEF RowNamed
<1>5. Holds(disk')
  BY <1>3, <1>4 DEF Holds, SavedIn
<1>6. Asked(run) \in C!Keys(disk')
  <2>1. PICK x \in 1 .. Len(disk') : disk'[x] = row
    BY <1>3 DEF SavedIn
  <2>2. disk' \in Seq(Messages(U))
    BY <1>3 DEF RowsOf
  <2>3. QED
    BY <1>2, <2>1, <2>2, KeyedBy
<1>7. QED
  BY <1>3, <1>5, <1>6

\* Every key a row has stays.
LEMMA KeysGrow ==
  ASSUME Typed, Counted, Saved, C!Next
  PROVE  C!Keys(disk) \subseteq C!Keys(disk')
<1>1. PICK U : Named(U) /\ Shaped(U)
  BY DEF Typed
<1>2. disk \in Seq(RowsOf(U))
  BY <1>1 DEF Shaped
<1>3. CASE C!PersistQuestion
  BY <1>1, <1>2, <1>3, QuestionSaved, KeysStay
<1>4. CASE C!PersistAnswers
  <2>1. disk' = C!AnswersSaved /\ pc = "persist"
    BY <1>4 DEF C!PersistAnswers
  <2>2. disk' \in Seq(RowsOf(U)) /\ AnswersUpTo(disk', Len(mem))
    BY <1>1, <2>1, AnswersAreNew
  <2>3. Holds(disk')
    BY <2>2 DEF AnswersUpTo, Holds
  <2>4. QED
    BY <1>2, <2>2, <2>3, KeysStay
<1>5. CASE UNCHANGED disk
  BY <1>5
<1>6. ASSUME NEW n \in 1 .. MaxCalls, C!CallTools(n) PROVE UNCHANGED disk
  BY <1>6 DEF C!CallTools, C!store
<1>7. CASE C!Load \/ C!Ask \/ C!Assemble \/ C!CompactAuto \/ C!PersistDigest \/ C!Answer \/ C!CallFails
           \/ C!Cancelled \/ C!StartManual \/ C!ReplaceManual \/ C!PersistManual \/ C!Restart
  BY <1>5, <1>7
     DEF C!Load, C!Ask, C!Assemble, C!CompactAuto, C!PersistDigest, C!Answer, C!CallFails,
         C!Cancelled, C!StartManual, C!ReplaceManual, C!PersistManual, C!Restart, C!store
<1>8. QED
  BY <1>3, <1>4, <1>5, <1>6, <1>7 DEF C!Next

\* What is made goes to the end of a conversation that was not rewritten.
Behind(k) == \E i \in before + 1 .. Len(mem) : mem[i].role = "assistant" /\ C!KeyOf(mem[i]) = k

\* A run that adds messages of its own to the conversation keeps track of them.
LEMMA MadeAdds ==
  ASSUME NEW U, mem \in Seq(Messages(U)), NEW t \in Seq(Messages(U)), Counted, Made,
         pc = "call", pc' # "idle", pc' # "asked",
         \A i \in 1 .. Len(t) : OfRun(t[i], run, round),
         made' = made \cup C!Keys(t), run' = run, disk' = disk, before' = before,
         \/ mem' = mem \o t /\ compacted' = compacted
         \/ run \in compacted'
  PROVE  Made'
<1>1. ASSUME NEW k \in C!Keys(t)
      PROVE  /\ k \in KeySet /\ k[2] = run /\ k[1] \in {"assistant", "tool"}
             /\ \E i \in 1 .. Len(t) : t[i].role = k[1] /\ C!KeyOf(t[i]) = k
  <2>1. k \in KeySet /\ \E i \in 1 .. Len(t) : t[i].role = k[1] /\ t[i].run = k[2] /\ k = C!KeyOf(t[i])
    BY KeyedBy
  <2>2. QED
    BY <2>1 DEF OfRun
<1>2. /\ \A k \in made' : k \in KeySet /\ k[2] = run' /\ (k[1] = "user" => k = Asked(run'))
      /\ \A k \in made' : k[1] # "digest"
      /\ Asked(run') \in C!Keys(disk')
  BY <1>1 DEF Made
<1>3. ASSUME run' \notin compacted'
      PROVE  /\ before' <= Len(mem')
             /\ \A k \in made' : k[1] = "assistant" => Behind(k)'
  <2>1. mem' = mem \o t /\ compacted' = compacted
    BY <1>3
  <2>2. before <= Len(mem) /\ \A k \in made : k[1] = "assistant" => Behind(k)
    BY <1>3, <2>1 DEF Made, Behind
  <2>3. Lengthened(mem', mem, t) /\ Len(mem) \in Nat /\ Len(t) \in Nat /\ before \in Nat
    BY <2>1, Lengthens DEF Counted
  <2>4. before' <= Len(mem')
    BY <2>2, <2>3 DEF Lengthened
  <2>5. ASSUME NEW k \in made', k[1] = "assistant" PROVE Behind(k)'
    <3>1. CASE k \in made
      <4>1. PICK i \in before + 1 .. Len(mem) : mem[i].role = "assistant" /\ C!KeyOf(mem[i]) = k
        BY <2>2, <2>5, <3>1 DEF Behind
      <4>2. i \in 1 .. Len(mem) /\ i \in before + 1 .. Len(mem')
        BY <2>3 DEF Lengthened
      <4>3. mem'[i] = mem[i]
        BY <2>3, <4>2 DEF Lengthened
      <4>4. QED
        BY <4>1, <4>2, <4>3 DEF Behind
    <3>2. CASE k \in C!Keys(t)
      <4>1. PICK i \in 1 .. Len(t) : t[i].role = k[1] /\ C!KeyOf(t[i]) = k
        BY <1>1, <3>2
      <4>2. Len(mem) + i \in before + 1 .. Len(mem') /\ mem'[Len(mem) + i] = t[i]
        BY <2>2, <2>3 DEF Lengthened
      <4>3. QED
        BY <2>5, <4>1, <4>2 DEF Behind
    <3>3. QED
      BY <2>5, <3>1, <3>2
  <2>6. QED
    BY <2>4, <2>5
<1>4. QED
  BY <1>2, <1>3 DEF Made, Behind

LEMMA MadeStep ==
  ASSUME Typed, Counted, Saved, Made, C!Next
  PROVE  Made'
<1>1. PICK U : Named(U) /\ Shaped(U)
  BY DEF Typed
<1>2. /\ mem \in Seq(Messages(U)) /\ now \in Nat /\ now + 1 \in Nat /\ run \in Nat /\ run + 1 \in Nat
      /\ round \in Nat /\ 0 \in Nat
  BY <1>1, PartsAssumption DEF Counted, C!ConversationAssumption, Shaped
<1>3. CASE pc' = "idle"
  BY <1>3 DEF Made
<1>4. CASE UNCHANGED <<pc, run, before, made, disk, mem, compacted>>
  BY <1>4 DEF Made
<1>5. CASE /\ UNCHANGED <<run, before, made, disk, mem, compacted>>
           /\ pc # "asked" /\ pc # "idle" /\ pc' # "asked"
  BY <1>5 DEF Made
<1>6. CASE C!Load
  BY <1>3, <1>6 DEF C!Load, C!runVars, Counted
<1>7. CASE C!Ask
  <2> DEFINE m == C!UserMessage(run + 1, now)
             t == <<m>>
  <2>1. m \in Messages(U) /\ m.role = "user" /\ C!KeyOf(m) = Asked(run + 1)
    BY <1>1, <1>2, MessagesAre DEF RowsOf, C!UserMessage, C!KeyOf, Asked
  <2>2. made' = C!Keys(t) /\ run' = run + 1 /\ pc' = "asked"
    BY <1>7 DEF C!Ask
  <2> HIDE DEF m
  <2>3. t \in Seq(Messages(U)) /\ Len(t) = 1 /\ t[1] = m
    BY <2>1
  <2> HIDE DEF t
  <2>4. \A i \in 1 .. Len(t) : t[i] = m
    BY <2>3
  <2>5. C!Keys(t) = {Asked(run + 1)}
    <3>1. \A k : k \in C!Keys(t) => k = Asked(run + 1)
      BY <2>1, <2>3, <2>4, KeyedBy
    <3>2. 1 \in 1 .. Len(t)
      BY <2>3
    <3>3. Asked(run + 1) \in C!Keys(t)
      BY <2>1, <2>3, <3>2, KeyedBy
    <3>4. QED
      BY <3>1, <3>3
  <2>6. Asked(run + 1) \in KeySet /\ Asked(run + 1)[1] = "user" /\ Asked(run + 1)[2] = run + 1
    BY <1>2 DEF Asked, KeySet, Roles
  <2>7. QED
    BY <2>2, <2>5, <2>6 DEF Made
<1>8. CASE C!PersistQuestion
  <2>1. Asked(run) \in C!Keys(disk')
    BY <1>1, <1>8, QuestionSaved
  <2>2. pc = "asked" /\ pc' = "assemble" /\ before' = Len(mem) /\ UNCHANGED <<mem, run, made, compacted>>
    BY <1>8 DEF C!PersistQuestion, C!history
  <2>3. made = {Asked(run)} /\ \A k \in made : k \in KeySet /\ k[2] = run /\ k[1] = "user"
    BY <2>2 DEF Made, Asked
  <2>4. before' <= Len(mem')
    BY <1>2, <2>2
  <2>5. QED
    BY <2>1, <2>2, <2>3, <2>4 DEF Made
<1>9. CASE C!Assemble
  BY <1>5, <1>9 DEF C!Assemble, C!store, C!history
<1>10. CASE C!CompactAuto
  <2>1. /\ pc = "compact" /\ pc' = "digest" /\ UNCHANGED <<run, before, made, disk>>
        /\ compacted' = IF mem' = mem THEN compacted ELSE compacted \cup {run}
    BY <1>10 DEF C!CompactAuto, C!store
  <2>2. CASE mem' = mem
    BY <1>5, <2>1, <2>2
  <2>3. CASE mem' # mem
    BY <2>1, <2>3 DEF Made
  <2>4. QED
    BY <2>2, <2>3
<1>11. CASE C!PersistDigest
  BY <1>5, <1>11 DEF C!PersistDigest, C!history
<1>12. CASE C!Answer
  <2> DEFINE m == C!AssistantMessage(run, round, 0, now + 1)
             t == <<m>>
  <2>1. m \in Messages(U) /\ OfRun(m, run, round)
    BY <1>1, <1>2, MessagesAre DEF C!AssistantMessage, OfRun
  <2>2. /\ pc = "call" /\ pc' = "persist" /\ mem' = mem \o t /\ made' = made \cup C!Keys(t)
        /\ run' = run /\ disk' = disk /\ before' = before /\ compacted' = compacted
    BY <1>12 DEF C!Answer, C!Extend, C!store
  <2> HIDE DEF m
  <2>3. t \in Seq(Messages(U)) /\ Len(t) = 1 /\ t[1] = m
    BY <2>1
  <2> HIDE DEF t
  <2>4. \A i \in 1 .. Len(t) : OfRun(t[i], run, round)
    BY <2>1, <2>3
  <2>5. pc' # "idle" /\ pc' # "asked"
    BY <2>2
  <2>6. QED
    BY <1>2, <2>2, <2>3, <2>4, <2>5, MadeAdds
<1>13. ASSUME NEW n \in 1 .. MaxCalls, C!CallTools(n) PROVE Made'
  <2>1. n \in Nat \ {0}
    OBVIOUS
  <2>2. Round(n) \in Seq(Messages(U)) /\ AddedBy(Round(n), n)
    BY <1>1, <2>1, RoundsAre
  <2>3. /\ pc = "call" /\ pc' = "assemble" /\ made' = made \cup C!Keys(Round(n))
        /\ run' = run /\ disk' = disk /\ before' = before
    BY <1>13 DEF C!CallTools, C!store, Round, CallOf, Results
  <2>4. PICK t \in Seq(Messages(U)) : CallsAdded(n, t)
    BY <1>1, <1>13, CallsAdd
  <2>5. \/ mem' = mem \o Round(n) /\ compacted' = compacted
        \/ run \in compacted'
    BY <2>3, <2>4 DEF CallsAdded, C!ManualReplaces
  <2>6. \A i \in 1 .. Len(Round(n)) : OfRun(Round(n)[i], run, round)
    BY <2>2 DEF AddedBy
  <2>7. pc' # "idle" /\ pc' # "asked"
    BY <2>3
  <2>8. QED
    BY <1>2, <2>2, <2>3, <2>5, <2>6, <2>7, MadeAdds
<1>14. CASE C!CallFails
  BY <1>5, <1>14 DEF C!CallFails, C!store, C!history
<1>15. CASE C!Cancelled \/ C!PersistAnswers \/ C!Restart
  BY <1>3, <1>15 DEF C!Cancelled, C!PersistAnswers, C!Restart, C!EndRun
<1>16. CASE C!StartManual \/ C!PersistManual
  BY <1>4, <1>16 DEF C!StartManual, C!PersistManual, C!runVars, C!store, C!history
<1>17. CASE C!ReplaceManual
  <2>1. UNCHANGED <<pc, run, before, made, disk>>
    BY <1>17 DEF C!ReplaceManual, C!runVars, C!store
  <2>2. CASE pc = "idle"
    BY <1>3, <2>1, <2>2
  <2>3. CASE ~ manual.result.success
    BY <1>4, <1>17, <2>1, <2>3 DEF C!ReplaceManual
  <2>4. CASE pc # "idle" /\ manual.result.success
    <3>1. run' \in compacted'
      BY <1>17, <2>1, <2>4 DEF C!ReplaceManual, C!ManualReplaces
    <3>2. QED
      BY <2>1, <2>4, <3>1 DEF Made
  <2>5. QED
    BY <2>2, <2>3, <2>4
<1>18. QED
  BY <1>6, <1>7, <1>8, <1>9, <1>10, <1>11, <1>12, <1>13, <1>14, <1>15, <1>16, <1>17 DEF C!Next

\* A conversation that was rewritten during a run stays so.
LEMMA RewrittenStays ==
  ASSUME C!Next
  PROVE  compacted \subseteq compacted'
<1>1. CASE C!Load \/ C!Ask \/ C!PersistQuestion \/ C!Assemble \/ C!PersistDigest \/ C!Answer \/ C!CallFails
           \/ C!Cancelled \/ C!PersistAnswers \/ C!StartManual \/ C!PersistManual \/ C!Restart
  BY <1>1
     DEF C!Load, C!Ask, C!PersistQuestion, C!Assemble, C!PersistDigest, C!Answer, C!CallFails,
         C!Cancelled, C!PersistAnswers, C!StartManual, C!PersistManual, C!Restart, C!history
<1>2. CASE C!CompactAuto \/ C!ReplaceManual
  BY <1>2 DEF C!CompactAuto, C!ReplaceManual, C!ManualReplaces
<1>3. ASSUME NEW n \in 1 .. MaxCalls, C!CallTools(n) PROVE compacted \subseteq compacted'
  BY <1>3 DEF C!CallTools, C!ManualReplaces
<1>4. QED
  BY <1>1, <1>2, <1>3 DEF C!Next

LEMMA OwedStep ==
  ASSUME Typed, Counted, Saved, Made, C!RunsPersist, C!Next
  PROVE  C!RunsPersist'
<1>1. compacted \subseteq compacted' /\ C!Keys(disk) \subseteq C!Keys(disk')
  BY RewrittenStays, KeysGrow
<1>2. CASE owed' = owed
  BY <1>1, <1>2 DEF C!RunsPersist
<1>3. CASE C!PersistAnswers
  <2>1. PICK U : Named(U) /\ Shaped(U)
    BY DEF Typed
  <2>2. /\ pc = "persist" /\ disk' = C!AnswersSaved /\ owed' = owed \cup {k \in made : k[1] # "tool"}
        /\ compacted' = compacted
    BY <1>3 DEF C!PersistAnswers
  <2>3. disk' \in Seq(RowsOf(U)) /\ AnswersUpTo(disk', Len(mem))
    BY <2>1, <2>2, AnswersAreNew
  <2>4. mem \in Seq(Messages(U)) /\ before \in Nat /\ now \in Nat /\ run \in Nat
    BY <2>1, PartsAssumption DEF Shaped, Counted, C!ConversationAssumption
  <2>5. ASSUME NEW k \in made, k[1] # "tool", k[2] \notin compacted
        PROVE  k \in C!Keys(disk')
    <3>1. k \in KeySet /\ k[2] = run /\ (k[1] = "user" => k = Asked(run)) /\ k[1] # "digest"
      BY <2>2 DEF Made
    <3>2. CASE k[1] = "user"
      BY <1>1, <2>2, <3>1, <3>2 DEF Made
    <3>3. CASE k[1] = "assistant"
      <4>1. PICK i \in before + 1 .. Len(mem) : mem[i].role = "assistant" /\ C!KeyOf(mem[i]) = k
        BY <2>2, <2>5, <3>1, <3>3 DEF Made
      <4>2. i \in 1 .. Len(mem) /\ i \in Nat /\ i > before /\ i <= Len(mem) /\ Spoken(i)
        BY <2>4, <4>1 DEF Spoken
      <4>3. <<"row", run, i>> \in U
        BY <2>1, <2>4, <4>2 DEF Named
      <4>4. RowFor(C!RowOf(i), i)
        BY <2>4, <4>2, <4>3, RowOfIs
      <4>5. PICK x \in 1 .. Len(disk') : disk'[x] = C!RowOf(i)
        BY <2>3, <4>2 DEF AnswersUpTo
      <4>6. disk'[x].role # "digest" /\ k = C!KeyOf(disk'[x])
        BY <4>1, <4>4, <4>5 DEF RowFor
      <4>7. disk' \in Seq(Messages(U))
        BY <2>3 DEF RowsOf
      <4>8. QED
        BY <4>6, <4>7, KeyedBy
    <3>4. k[1] \in Roles
      BY <3>1 DEF KeySet
    <3>5. QED
      BY <2>5, <3>1, <3>2, <3>3, <3>4 DEF Roles
  <2>6. QED
    BY <1>1, <2>2, <2>5 DEF C!RunsPersist
<1>4. ASSUME NEW n \in 1 .. MaxCalls, C!CallTools(n) PROVE owed' = owed
  BY <1>4 DEF C!CallTools
<1>5. CASE C!Load \/ C!Ask \/ C!PersistQuestion \/ C!Assemble \/ C!CompactAuto \/ C!PersistDigest \/ C!Answer
           \/ C!CallFails \/ C!Cancelled \/ C!StartManual \/ C!ReplaceManual \/ C!PersistManual \/ C!Restart
  BY <1>2, <1>5
     DEF C!Load, C!Ask, C!PersistQuestion, C!Assemble, C!CompactAuto, C!PersistDigest, C!Answer, C!CallFails,
         C!Cancelled, C!StartManual, C!ReplaceManual, C!PersistManual, C!Restart, C!history
<1>6. QED
  BY <1>2, <1>3, <1>4, <1>5 DEF C!Next

LEMMA InitConversation == C!Init => ConversationInv
<1> SUFFICES ASSUME C!Init PROVE ConversationInv
  OBVIOUS
<1> USE DEF C!Init
<1>1. Typed
  <2>1. \E U : Named(U)
    <3> DEFINE U == {NoId} \cup ({"user", "run", "row", "manual"} \X Nat \X Nat)
    <3>1. Named(U)
      BY DEF Named
    <3>2. QED
      BY <3>1
  <2>2. PICK U : Named(U)
    BY <2>1
  <2>3. <<>> \in Seq(Messages(U)) /\ <<>> \in Seq(RowsOf(U)) /\ <<>> \in Seq(DigestRows(U))
    OBVIOUS
  <2>4. C!Away \in Manuals(U)
    BY DEF C!Away, Manuals
  <2>5. QED
    BY <2>2, <2>3, <2>4 DEF Typed, Shaped
<1>2. Counted
  <2>1. used \in [manual : 0 .. MaxManual, restart : 0 .. MaxRestarts]
    BY PartsAssumption DEF C!ConversationAssumption
  <2>2. 0 \in 0 .. MaxRuns /\ 0 \in 0 .. MaxRounds /\ FALSE \in BOOLEAN
    BY PartsAssumption DEF C!ConversationAssumption
  <2>3. QED
    BY <2>1, <2>2 DEF Counted
<1>3. Flow
  BY DEF Flow, EndsFresh, Past
<1>4. Automatic /\ Manual
  BY DEF Automatic, Manual, C!Away
<1>5. Saved /\ Made
  BY DEF Saved, Distinct, Made
<1>6. C!RunsPersist
  BY DEF C!RunsPersist
<1>7. QED
  BY <1>1, <1>2, <1>3, <1>4, <1>5, <1>6 DEF ConversationInv

LEMMA ConversationStep == ConversationInv /\ [C!Next]_conversationVars => ConversationInv'
<1> SUFFICES ASSUME ConversationInv, [C!Next]_conversationVars PROVE ConversationInv'
  OBVIOUS
<1>1. /\ Typed /\ Counted /\ Flow /\ Automatic /\ Manual /\ Saved /\ Made /\ C!RunsPersist
  BY DEF ConversationInv
<1>2. CASE C!Next
  <2>1. Typed' /\ Counted'
    BY <1>1, <1>2, TypedStep, CountedStep
  <2>2. Flow' /\ Automatic' /\ Manual'
    BY <1>1, <1>2, FlowStep, AutomaticStep, ManualStep
  <2>3. Saved' /\ Made' /\ C!RunsPersist'
    BY <1>1, <1>2, SavedStep, MadeStep, OwedStep
  <2>4. QED
    BY <2>1, <2>2, <2>3 DEF ConversationInv
<1>3. CASE UNCHANGED conversationVars
  <2> USE <1>1, <1>3 DEF conversationVars
  <2>1. Typed'
    BY DEF Typed, Shaped
  <2>2. Counted'
    BY DEF Counted
  <2>3. Flow' /\ Automatic' /\ Manual'
    BY DEF Flow, Automatic, Manual
  <2>4. Saved' /\ Made'
    BY DEF Saved, Made
  <2>5. C!RunsPersist'
    BY DEF C!RunsPersist
  <2>6. QED
    BY <2>1, <2>2, <2>3, <2>4, <2>5 DEF ConversationInv
<1>4. QED
  BY <1>2, <1>3

\* The properties of the conversation follow.
LEMMA ConversationTells == ConversationInv => HistoryIsKept
<1> SUFFICES ASSUME ConversationInv PROVE HistoryIsKept
  OBVIOUS
<1>1. PICK U : Named(U) /\ Shaped(U)
  BY DEF ConversationInv, Typed
<1>2. NoId \in U /\ Counted /\ Automatic /\ Manual /\ Saved /\ C!RunsPersist
  BY <1>1 DEF ConversationInv, Named
<1>3. C!TypeOK
  <2>1. \A i \in DOMAIN mem : mem[i].role \in {"user", "assistant", "tool", "digest"}
    <3>1. \A i \in 1 .. Len(mem) : mem[i] \in Messages(U)
      BY <1>1 DEF Shaped
    <3>2. DOMAIN mem = 1 .. Len(mem)
      BY <1>1 DEF Shaped
    <3>3. QED
      BY <3>1, <3>2 DEF Messages, Roles
  <2>2. \A i \in DOMAIN disk : disk[i].role # "tool"
    <3>1. \A i \in 1 .. Len(disk) : disk[i] \in RowsOf(U)
      BY <1>1 DEF Shaped
    <3>2. DOMAIN disk = 1 .. Len(disk)
      BY <1>1 DEF Shaped
    <3>3. QED
      BY <3>1, <3>2 DEF RowsOf
  <2>3. DOMAIN disk = 1 .. Len(disk) /\ DOMAIN digests = 1 .. Len(digests)
    BY <1>1 DEF Shaped
  <2>4. /\ \A i, j \in DOMAIN disk : i # j => disk[i].id # disk[j].id
        /\ \A i, j \in DOMAIN digests : i # j => digests[i].id # digests[j].id
    BY <1>2, <2>3 DEF Saved, Distinct
  <2>5. manual.at \in {"away", "summarise", "digest"}
    BY <1>1 DEF Shaped, Manuals
  <2>6. QED
    BY <1>2, <2>1, <2>2, <2>4, <2>5 DEF C!TypeOK, Counted
<1>4. C!CompactionKeepsPairs
  <2>1. ASSUME pc = "compact", C!PairsIntact(result.from) PROVE C!PairsIntact(result.messages)
    <3>1. /\ result \in C!Compactions(result.from) /\ EndsFresh(result.from) /\ Steady(result.from)
          /\ result \in Outcomes(U)
      BY <1>1, <1>2, <2>1, OutcomesAre DEF Automatic
    <3>2. result.from \in Seq(Messages(U))
      BY <3>1 DEF Outcomes
    <3>3. C!CutShort(result.from) => C!Partition(result.from).start <= Len(C!KeptDigests(result.from))
      BY <2>1, <3>1 DEF Steady
    <3>4. QED
      BY <1>2, <2>1, <3>1, <3>2, <3>3, PairsStay
  <2>2. ASSUME manual.result # C!NoResult, C!PairsIntact(manual.result.from), ~ C!CutShort(manual.result.from)
        PROVE  C!PairsIntact(manual.result.messages)
    <3>1. manual.at # "away"
      BY <1>2, <2>2 DEF Manual
    <3>2. /\ manual.result \in C!Compactions(manual.result.from) /\ EndsFresh(manual.result.from)
          /\ manual.result \in Outcomes(U)
      BY <1>1, <1>2, <3>1, OutcomesAre DEF Manual
    <3>3. manual.result.from \in Seq(Messages(U))
      BY <3>2 DEF Outcomes
    <3>4. QED
      BY <1>2, <2>2, <3>2, <3>3, PairsStay
  <2>3. QED
    BY <2>1, <2>2 DEF C!CompactionKeepsPairs
<1>5. C!CompactionForgetsNothing
  <2>1. ASSUME NEW c \in {result, manual.result} \ {C!NoResult}, C!DigestsLead(c.from)
        PROVE  ~ C!Forgets(c)
    <3>1. c \in Outcomes(U) /\ c \in C!Compactions(c.from)
      BY <1>1, <1>2, <2>1 DEF Automatic, Manual, Shaped, Manuals
    <3>2. c.from \in Seq(Messages(U))
      BY <3>1 DEF Outcomes
    <3>3. QED
      BY <1>2, <2>1, <3>1, <3>2, NothingForgotten
  <2>2. QED
    BY <2>1 DEF C!CompactionForgetsNothing
<1>6. QED
  BY <1>2, <1>3, <1>4, <1>5 DEF HistoryIsKept

LEMMA ConversationOnly ==
  [MCNext]_<<vars, conversationVars, channelVars, part>> => [C!Next]_conversationVars
BY DEF MCNext

\* However runs, compactions, aborts and restarts follow one another: the conversation
\* ends with no call that has been answered, each run's rows have names of their own, and
\* a compaction in progress is one of a conversation that was so (agents/ctxengine/
\* compact.go, agents/dispatcher.go, sessionruntime/hydrate.go).
THEOREM ConversationInductive == MCSpec => []ConversationInv
<1>1. MCInit => ConversationInv
  BY InitConversation DEF MCInit
<1>2. QED
  BY <1>1, ConversationOnly, ConversationStep, PTL DEF MCSpec

\* For tails, runs, calls, compactions and restarts without bound: a compaction splits no
\* call from its results and forgets nothing it does not report as dropped, and a run that
\* has passed hook 2 has a row for its question and for each of its rounds (compact.go
\* partitionFold, agent_context.go persistAssistantMessages).
THEOREM KeepingHistory == MCSpec => []HistoryIsKept
BY ConversationInductive, ConversationTells, PTL
==============================================================================
