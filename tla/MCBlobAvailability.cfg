SPECIFICATION FairSpec
CONSTANTS
    i1 = i1 d1 = d1 d2 = d2 d3 = d3 d4 = d4
    Imports = {i1}
    Deliveries = {d1, d2, d3, d4}
    Index <- BothAgain
    Expected <- TwoBlobs
    MaxBlobsPerBlock = 3
INVARIANTS
    TypeOK
    DataOnDisk
    SendNeverBlocks
    

    
