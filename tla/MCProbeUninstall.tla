--------------------------- MODULE MCProbeUninstall ---------------------------
(***************************************************************************)
(* Instances of ProbeUninstall: two operations of the Hub, so that a new   *)
(* one meets the capsule of one given up, and three failures, so that the  *)
(* request, its resumption and one more are interrupted.                   *)
(***************************************************************************)
EXTENDS ProbeUninstall
=============================================================================
