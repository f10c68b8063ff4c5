SPECIFICATION Spec
CONSTANTS
    StartBlock = 0
    BlocksPerCall = 2
    MaxHeight = 2
    MaxCrashes = 1
    MaxHandlerCrashes = 1
    MaxWriteErrors = 1
    Workers = {w1, w2}
    Blocks = {1, 2}
    BlocksWithTxs = {1}
    KnownProposers = {1}
INVARIANTS
    TypeOK
    NoSilentLoss
    WithinChain
    AnnouncedOnce
    StoredIsAnnounced
    StoredHandedTxs
PROPERTIES
    ImplementsLedger
