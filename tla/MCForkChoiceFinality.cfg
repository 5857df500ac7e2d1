SPECIFICATION Spec
CONSTANTS
    g = g a = a b = b c = c e = e x = x y = y
    noHash = noHash
    NoNode = NoNode
    v1 = v1 v2 = v2
    Roots <- FinRoots
    Validators = {}
    StartRoot = g
    StartSlot = 6
    StartOptimistic = FALSE
    StartJustified <- Genesis
    StartFinalized <- Genesis
    Slot <- FinSlot
    ParentRoot <- FinParent
    PayloadHash <- FinPayload
    LastValidHashes <- FinLastValid
    JC <- FinJC
    FC <- FinFC
    Committee <- NoCommittee
    SlotsPerEpoch = 2
    ValidatorPerSlot = 2
    MaxSlot = 6
    MaxAttCount = 2
INVARIANTS
    TreeLinked
    ValidAncestors
    TargetLive
    HeadStable
    AncestorRootExact
    CommonAncestorExact
    TargetRootExact
    ViableCheckpointExact
    CanonicalIsHeadChain
PROPERTIES
    ValidatedKept
    FinalityAdvances
    FinalizedChainKept
