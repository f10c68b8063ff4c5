SPECIFICATION FairSpec
CONSTANTS
    StartBlock = 0
    BlocksPerCall = 1
    MaxHeight = 2
    MaxCrashes = 1
    MaxHandlerCrashes = 1
    MaxWriteErrors = 1
    Workers = {w1}
    Blocks = {1, 2}
    BlocksWithTxs = {1}
    KnownProposers = {1}
PROPERTIES
    CursorNeverGoesBack
    EveryBlockSettles
    EveryBlockGetsProposer
