---------------------------- MODULE MCProbeInstall ----------------------------
(* Constants and bounds of the small instances of ProbeInstall.            *)
EXTENDS ProbeInstall

\* Whether the replaced install has left a layout receipt.
BothKinds == {"fresh", "replacement"}
WithoutReceipt == {FALSE}
WithReceipt == {TRUE}

\* Whether it has attempted an upgrade or a repair.
AnyAttempt == BOOLEAN
WithoutAttempt == {FALSE}
=============================================================================
