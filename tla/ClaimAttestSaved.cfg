SPECIFICATION Spec
CONSTANTS
    k1 = k1 k2 = k2 b1 = b1 b2 = b2
    NoSigningRoot = NoSigningRoot
    Keys = {k1, k2}
    Inputs <- OneVote
    Imports <- NoHistory
    MaxEpoch = 1
    BatchCapacity = 2
    MaxCrashes = 0
    MaxFailures = 0
INVARIANT
    SavedBeforeSubmitted
CHECK_DEADLOCK FALSE
