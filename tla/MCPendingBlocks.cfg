SPECIFICATION FairSpec
CONSTANTS
    g = g a = a b1 = b1 b2 = b2 c2 = c2 p1 = p1 p2 = p2
    Blocks = {a, b1, b2, c2}
    Genesis = g
    Parent <- Tree
    Slot <- TreeSlots
    Proposer <- TreeProposers
    Invalid = {b2}
    MaxSlot = 3
    SlotsPerEpoch = 2
    MaxBlocksPerSlot = 1
    EarlySlots = 1
    MaxLosses = 1
INVARIANTS
    TypeOK
    QueuedIsSeen
    

    
