CONSTANTS
    o1 = o1
    o2 = o2
    o3 = o3
    o4 = o4
    Observations <- FourObservations
    Periods <- TwoPeriods
    PeriodOf <- ThreeOfFirst
    MaxTerms = 2
    MaxSequence = 5
    MaxFaults = 2
SPECIFICATION FairSpec
INVARIANTS
    NothingLost
    ArchivedOnce
PROPERTIES
    BacklogArchived
