---------------------------- MODULE MCReporting ----------------------------
\* Instances of Reporting for TLC.
EXTENDS Reporting, TLC

Symmetry == Permutations(Facts) \cup Permutations(Bundle)
=============================================================================
