SPECIFICATION Spec
CONSTANTS
    StartBlock = 0
    BlocksPerCall = 2
    MaxHeight = 2
    MaxCrashes = 1
    MaxHandlerCrashes = 0
    MaxWriteErrors = 0
    Workers = {w1}
    Blocks = {1, 2}
    BlocksWithTxs = {1}
    KnownProposers = {1}
INVARIANTS
    CursorIsHandled
