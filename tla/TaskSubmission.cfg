\* Three requests race for one key, with one of two bodies each.
SPECIFICATION Spec
CONSTANTS
    r1 = r1
    r2 = r2
    r3 = r3
    k1 = k1
    b1 = b1
    b2 = b2
    Keys = {k1}
    Requests <- ThreeRequests
    Bodies = {b1, b2}
    MaxFaults = 2
SYMMETRY RequestSymmetry
INVARIANTS
    OnePaidPost
    AcceptedHasTask
    RefundMeansNoJob
    ToldFailedMeansNoJob
    OneCharge
PROPERTIES
    FinalIsFinal
CHECK_DEADLOCK FALSE
