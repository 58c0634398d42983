-------------------------- MODULE MCSubagentManager --------------------------
(***************************************************************************)
(* SubagentManager on small instances: one synchronous and one background  *)
(* run against two closers.                                                *)
(***************************************************************************)
EXTENDS SubagentManager
==============================================================================
