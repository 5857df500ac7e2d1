SPECIFICATION ServiceSpec
CONSTANTS
    g = g a = a b = b c = c e = e
    noHash = noHash
    NoNode = NoNode
    v1 = v1
    Roots <- GapRoots
    Validators = {v1}
    StartRoot = g
    StartSlot = 5
    StartOptimistic = FALSE
    StartJustified <- Genesis
    StartFinalized <- Genesis
    Slot <- GapSlot
    ParentRoot <- GapParent
    PayloadHash <- Payload
    LastValidHashes <- GapLastValid
    JC <- GapJC
    FC <- GapFC
    Committee <- NoCommittee
    SlotsPerEpoch = 2
    ValidatorPerSlot = 2
    MaxSlot = 5
    MaxAttCount = 2
    Votes <- NoVotes
    BlockVotes <- NoBlockVotes
    Batches <- GapBatches
    InvalidPayloads = {}
    CacheSize = 2
    CallIds = {1}
    MaxRestarts = 1
INVARIANT
    FinalizedIsFinal
CHECK_DEADLOCK FALSE
