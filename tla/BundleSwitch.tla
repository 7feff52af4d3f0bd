---------------------------- MODULE BundleSwitch ----------------------------
(***************************************************************************)
(* What an upgrade of an installed probe promises about the files of its   *)
(* bundle: the host runs one bundle, `from`; a switch names a newer one,   *)
(* `to`; while the switch is open files move from the old bundle to the    *)
(* new one and never back; and it closes only when no old file is left.    *)
(* CompatibleUpgrade, with its journal, crashes and repairs, implements    *)
(* this.                                                                   *)
(***************************************************************************)
EXTENDS Naturals

CONSTANTS Last, TargetCount

VARIABLES from, to, files

vars == <<from, to, files>>

Init == from = 0 /\ to = 0 /\ files = [t \in 1..TargetCount |-> 0]

Begin ==
    /\ from = to
    /\ \E v \in 1..Last : v > from /\ to' = v
    /\ UNCHANGED <<from, files>>

Replace ==
    /\ from # to
    /\ \E t \in 1..TargetCount : files' = [files EXCEPT ![t] = to]
    /\ UNCHANGED <<from, to>>

Finish ==
    /\ from # to
    /\ files = [t \in 1..TargetCount |-> to]
    /\ from' = to
    /\ UNCHANGED <<to, files>>

Next == Begin \/ Replace \/ Finish

Spec == Init /\ [][Next]_vars
=============================================================================
