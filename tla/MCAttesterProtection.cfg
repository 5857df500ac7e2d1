SPECIFICATION FairSpec
CONSTANTS
    k1 = k1 k2 = k2 b1 = b1 b2 = b2
    NoSigningRoot = NoSigningRoot
    Keys = {k1}
    Inputs <- Conflicting
    Imports <- Histories
    MaxEpoch = 3
    BatchCapacity = 2
    MaxCrashes = 1
    MaxFailures = 1
INVARIANTS
    TypeOK
    
    SavedBeforeSubmitted
PROPERTIES
    
    EventuallySaved
CHECK_DEADLOCK FALSE
