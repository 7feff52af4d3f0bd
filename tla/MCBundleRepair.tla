---------------------------- MODULE MCBundleRepair ----------------------------
(***************************************************************************)
(* TLC instance of BundleRepair.                                           *)
(***************************************************************************)
EXTENDS BundleRepair
=============================================================================
