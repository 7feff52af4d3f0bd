CONSTANTS
    Facts = {f1, f2}
    Bundle = {b1, b2}
    Nothing = Nothing
    MaxBoots = 2
    MaxSequence = 3
    MaxLate = 2
SPECIFICATION Spec
SYMMETRY Symmetry
INVARIANTS AcknowledgedReceived ProfileDelivered HaltsOnlyWhenDisplaced
CHECK_DEADLOCK FALSE
