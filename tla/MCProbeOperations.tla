------------------------- MODULE MCProbeOperations -------------------------
(* Constants and bounds of the small instances of ProbeOperations.         *)
EXTENDS ProbeOperations, TLC

\* Every process booted from a bundle of its own: boot n runs bundle n.
MCBundleOf == [boot \in Boot |-> boot]

Symmetry == Permutations(Stage) \cup Permutations(Nonce) \cup Permutations(Handler)

\* Bound of the runs about upgrades and repairs alone: the owner neither
\* uninstalls nor deletes, which MCProbeOperationsOwner covers.
ForwardOnly ==
    /\ \A i \in DOMAIN operations : operations[i].kind # "probe_uninstall"
    /\ \A h \in Host : ~hosts[h].deleted
=============================================================================
