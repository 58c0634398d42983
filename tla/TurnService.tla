----------------------------- MODULE TurnService -----------------------------
(***************************************************************************)
(* What a session promises to those who submit turns to it, without the    *)
(* mutex, the wake channel, the goroutine or the agent behind it: accepted *)
(* turns stand in one line, urgent ones (steers) before ordinary ones and  *)
(* each kind in the order it came; the line is served one turn at a time,  *)
(* always from its head; a controller may empty the line; and a closed     *)
(* session accepts nothing more and keeps nobody waiting.                  *)
(*                                                                         *)
(* RunLoop implements this specification.                                  *)
(***************************************************************************)
EXTENDS Sequences, Naturals

CONSTANTS Turns,      \* the turns that may ever be submitted
          Urgent,     \* those submitted as steers
          NoTurn      \* nobody is being served

VARIABLES line,       \* accepted turns not yet started, next one first
          serving,    \* the turn being served, or NoTurn
          status,     \* what has become of each turn
          open        \* whether turns are still accepted

serviceVars == <<line, serving, status, open>>

Statuses == {"new", "rejected", "waiting", "serving", "settled", "dropped"}

ServiceInit ==
  /\ line = <<>>
  /\ serving = NoTurn
  /\ status = [t \in Turns |-> "new"]
  /\ open = TRUE

\* A position of the line with urgent turns before it and ordinary ones after.
Boundary(k) ==
  /\ k \in 0 .. Len(line)
  /\ \A i \in 1 .. Len(line) : line[i] \in Urgent <=> i <= k

AcceptOrdinary(t) ==
  /\ open /\ t \notin Urgent
  /\ status[t] = "new"
  /\ line' = Append(line, t)
  /\ status' = [status EXCEPT ![t] = "waiting"]
  /\ UNCHANGED <<serving, open>>

AcceptUrgent(t) ==
  /\ open /\ t \in Urgent
  /\ status[t] = "new"
  /\ \E k \in 0 .. Len(line) :
       /\ Boundary(k)
       /\ line' = SubSeq(line, 1, k) \o <<t>> \o SubSeq(line, k + 1, Len(line))
  /\ status' = [status EXCEPT ![t] = "waiting"]
  /\ UNCHANGED <<serving, open>>

Reject(t) ==
  /\ ~open
  /\ status[t] = "new"
  /\ status' = [status EXCEPT ![t] = "rejected"]
  /\ UNCHANGED <<line, serving, open>>

Serve ==
  /\ serving = NoTurn
  /\ line # <<>>
  /\ serving' = Head(line)
  /\ line' = Tail(line)
  /\ status' = [status EXCEPT ![Head(line)] = "serving"]
  /\ UNCHANGED <<open>>

Settle ==
  /\ serving # NoTurn
  /\ status' = [status EXCEPT ![serving] = "settled"]
  /\ serving' = NoTurn
  /\ UNCHANGED <<line, open>>

\* Emptying the line drops exactly the turns that were waiting in it.
Dropped == [t \in Turns |-> IF status[t] = "waiting" THEN "dropped" ELSE status[t]]

ClearLine ==
  /\ line' = <<>>
  /\ status' = Dropped
  /\ UNCHANGED <<serving, open>>

Shut ==
  /\ line' = <<>>
  /\ status' = Dropped
  /\ open' = FALSE
  /\ UNCHANGED <<serving>>

ServiceNext ==
  \/ \E t \in Turns : AcceptOrdinary(t) \/ AcceptUrgent(t) \/ Reject(t)
  \/ Serve
  \/ Settle
  \/ ClearLine
  \/ Shut

Service == ServiceInit /\ [][ServiceNext]_serviceVars
==============================================================================
