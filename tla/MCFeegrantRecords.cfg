SPECIFICATION FairFeegrantSpec
CONSTANTS
    g = g
    u = u
    v = v
    A = A
    B = B
    C = C
    NoPayer = NoPayer
    NoLimit = NoLimit
    NoHash = NoHash
    Hashes <- MCTwoHashes
    TxOf <- MCUsedUp
    BlockPerBatch = 1
    MaxUnprocessed = 2
    MaxFgCrashes = 1
    MaxHistoryFailures = 1
    MaxCronFailures = 0
    MaxDbCrashes = 0
INVARIANTS
    CursorSkipsNone
PROPERTIES
    EveryTxRecorded
