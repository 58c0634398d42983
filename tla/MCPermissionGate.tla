--------------------------- MODULE MCPermissionGate ---------------------------
(***************************************************************************)
(* PermissionGate on small instances: a harmless and a dangerous shell     *)
(* command, both to be run in one directory outside the workspace. Their   *)
(* evaluations for that directory have the same tool, level and reason, so *)
(* they share its key; the dangerous one has a key of its own besides.     *)
(***************************************************************************)
EXTENDS PermissionGate

MCPath == [c \in Calls |-> "outside"]
MCCommandKey == [c \in Calls |-> <<c, "command">>]
MCPathKey == [c \in Calls |-> <<"shell", "outside">>]

(* Every request for permission ends, and an interrupt ends the waits      *)
(* (PermissionGate RequestsEnd, InterruptEndsWaits).                       *)
WaitsEnd == RequestsEnd /\ InterruptEndsWaits
==============================================================================
