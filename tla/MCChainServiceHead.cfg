SPECIFICATION ServiceFairSpec
CONSTANTS
    g = g a = a b = b c = c e = e
    noHash = noHash
    NoNode = NoNode
    v1 = v1
    Roots <- ForkRoots
    Validators = {v1}
    StartRoot = g
    StartSlot = 1
    StartOptimistic = FALSE
    StartJustified <- Genesis
    StartFinalized <- Genesis
    Slot <- ForkSlot
    ParentRoot <- ForkParent
    PayloadHash <- Payload
    LastValidHashes <- ForkLastValid
    JC <- ForkCheckpoint
    FC <- ForkCheckpoint
    Committee <- NoCommittee
    SlotsPerEpoch = 2
    ValidatorPerSlot = 2
    MaxSlot = 2
    MaxAttCount = 2
    Votes <- ForkVotes
    BlockVotes <- ForkBlockVotes
    Batches <- NoBatches
    InvalidPayloads = {a}
    CacheSize = 2
    CallIds = {1}
    MaxRestarts = 1
PROPERTIES
    HeadFollows
    HeadRecovers
