------------------------ MODULE MCCompatibleUpgrade ------------------------
(***************************************************************************)
(* Instances of CompatibleUpgrade: two operations, so that a journal is    *)
(* reused after an abort and after an activation, three targets, so that a *)
(* bundle can be mixed at the first, a middle and the last of them, and    *)
(* four faults, so that a crash, the failure of the repair that follows    *)
(* and two more occur in one behaviour.                                    *)
(***************************************************************************)
EXTENDS CompatibleUpgrade
=============================================================================
