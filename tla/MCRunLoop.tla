------------------------------ MODULE MCRunLoop ------------------------------
(***************************************************************************)
(* RunLoop on a small instance: a prompt, a prompt for a provider that is  *)
(* not configured and a steer, against two controllers that stop, abort    *)
(* and close.                                                              *)
(***************************************************************************)
EXTENDS RunLoop

(* Every turn that is captured for a cancellation settles, every Close     *)
(* returns, and every turn that waits is served (RunLoop                   *)
(* CapturedTurnsSettle, CloseReturns, WaitingTurnsAreServed).              *)
TurnsAreServed == CapturedTurnsSettle /\ CloseReturns /\ WaitingTurnsAreServed
==============================================================================
