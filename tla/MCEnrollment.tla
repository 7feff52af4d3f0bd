---------------------------- MODULE MCEnrollment ----------------------------
(* Constants and bounds of the small instances of Enrollment.              *)
EXTENDS Enrollment, TLC

Symmetry == Permutations(Version) \cup Permutations(Attempt) \cup Permutations(Handler)

\* Bound: one host, whose re-enrollments and reinstalls follow each other.
OneHost == \A i \in DOMAIN enrollments \ {1} : enrollments[i].kind # "new_host"
=============================================================================
