SPECIFICATION ServiceSpec
CONSTANTS
    g = g a = a b = b c = c e = e
    noHash = noHash
    NoNode = NoNode
    v1 = v1
    Roots <- FinRoots
    Validators = {v1}
    StartRoot = g
    StartSlot = 6
    StartOptimistic = FALSE
    StartJustified <- Genesis
    StartFinalized <- Genesis
    Slot <- FinSlot
    ParentRoot <- FinParent
    PayloadHash <- Payload
    LastValidHashes <- FinLastValid
    JC <- FinJC
    FC <- FinFC
    Committee <- NoCommittee
    SlotsPerEpoch = 2
    ValidatorPerSlot = 2
    MaxSlot = 6
    MaxAttCount = 2
    Votes <- NoVotes
    BlockVotes <- FinBlockVotes
    Batches <- FinBatches
    InvalidPayloads = {b}
    CacheSize = 2
    CallIds = {1}
    MaxRestarts = 1
INVARIANTS
    ServiceTypeOK
    
    OptimisticHeadReported
    
    TreeLinked
CHECK_DEADLOCK FALSE
