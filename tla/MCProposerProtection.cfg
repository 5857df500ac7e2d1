SPECIFICATION Spec
CONSTANTS
    MaxSlot = 5
    Blocks = {b1, b2}
    SlotsPerEpoch = 2
    WeakSubjectivityPeriod = 1
    NoSigningRoot = NoSigningRoot
INVARIANTS
    TypeOK
    NoDoubleProposal
PROPERTY
    RootlessNeverSigned
