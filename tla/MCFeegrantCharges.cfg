SPECIFICATION FeegrantSpec
CONSTANTS
    g = g
    u = u
    v = v
    A = A
    B = B
    C = C
    NoPayer = NoPayer
    NoLimit = NoLimit
    NoHash = NoHash
    Hashes <- MCHashes
    TxOf <- MCUsedTwiceUp
    BlockPerBatch = 2
    MaxUnprocessed = 2
    MaxFgCrashes = 0
    MaxHistoryFailures = 1
    MaxCronFailures = 1
    MaxDbCrashes = 1
INVARIANTS
    FeegrantTypeOK
    
