--------------------------- MODULE MCMetricsArchive ---------------------------
(* Constants and bounds of the small instance of MetricsArchive.           *)
EXTENDS MetricsArchive, TLC

CONSTANTS o1, o2, o3, o4

FourObservations == {o1, o2, o3, o4}
TwoPeriods == {1, 2}
ThreeOfFirst == o1 :> 1 @@ o2 :> 1 @@ o3 :> 1 @@ o4 :> 2
=============================================================================
