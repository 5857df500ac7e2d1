SPECIFICATION Spec
CONSTANTS
    g = g a = a b = b c = c e = e x = x y = y
    noHash = noHash
    NoNode = NoNode
    v1 = v1 v2 = v2
    Roots <- VoteRoots
    Validators = {v1, v2}
    StartRoot = g
    StartSlot = 0
    StartOptimistic = FALSE
    StartJustified <- Genesis
    StartFinalized <- Genesis
    Slot <- VoteSlot
    ParentRoot <- VoteParent
    PayloadHash <- VotePayload
    LastValidHashes <- VoteLastValid
    JC <- VoteCheckpoint
    FC <- VoteCheckpoint
    Committee <- VoteCommittee
    SlotsPerEpoch = 2
    ValidatorPerSlot = 4
    MaxSlot = 3
    MaxAttCount = 2
INVARIANTS
    TypeOK
    VotesCountedOnce
    StableHasQuorum
PROPERTY
    ImplementsAvailableAttestation
