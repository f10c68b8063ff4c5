SPECIFICATION FairFeegrantSpec
CONSTANTS
    g = g
    u = u
    v = v
    A = A
    B = B
    C = C
    NoPayer = NoPayer
    NoLimit = NoLimit
    NoHash = NoHash
    Hashes <- MCHashes
    TxOf <- MCOlderGrant
    BlockPerBatch = 2
    MaxUnprocessed = 1
    MaxFgCrashes = 0
    MaxHistoryFailures = 0
    MaxCronFailures = 0
    MaxDbCrashes = 0
PROPERTIES
    EveryUseFindsItsGrant
