SPECIFICATION ServicesSpec
CONSTANTS
    a1 = a1
    a2 = a2
    t1 = t1
    t2 = t2
    Services = {"accounts", "archive", "aura", "claims", "codes", "contracts", "databases", "delay", "media",
                "proposals", "sockets", "statistics"}

    Addresses = {a1, a2}
    QueueHandlers = {q1}
    ApiHandlers = {api}
    Crawlers = {"balances"}
    Balances = "balances"
    SpendableBalances = "spendable"
    Delegates = "delegates"
    AddressTxs <- MCAddressTxs
    CrawlAttempts = 2
    MaxUpserts = 1
    MaxHandlerDeaths = 1
    CrawlWorkers = {k1, k2}
    MaxCrawlFailures = 0

    Movers = {m1}
    MaxHeight = 2
    MoveLimit = 1
    RangeDay = 1
    MaxDay = 3
    MaxMoverCrashes = 0
    MaxArchiverCrashes = 0
    ArchiveTxIds = {t1, t2}
    HeightOf <- MCHeightOf
    LateTxs = {t2}
    MaxTxMoverCrashes = 1

    AuraBlocks = {1}
    InBlock <- MCOneBlock
    PerPage = 2
    Undecodable = {}
    MaxHandOvers = 2
    MaxAuraFaults = 1
    MaxAuraCrashes = 1

    Chains = {c1}
    Home = c1
    Requests = {r1}
    ApiCalls = {"delegations", "topAccounts", "cw20Holders", "single", "countVotes", "owned"}
    AnyChain = AnyChain
    Nothing = Nothing

    Delegators = {a1, a2}
    ClaimTxs <- MCClaimTxs
    ClaimWorkers = {w1}
    ClaimAttempts = 3
    MaxFailures = 2

    Types = {"CW20", "CW721"}
    CodeType = "CW721"
    MaxRequests = 2
    MaxChecks = 2
    MaxLcdFails = 1

    ContractAddresses = {c1}
    MaxExecutes = 1
    TxConcurrency = 2
    TxAttempts = 2
    MaxAgain = 1
    MaxTxCrashes = 1

    Owners = {a1, a2}
    Cw20Balances = {0, 1}
    MaxTransfers = 2
    EnrichCw20 = 1
    MaxCw20Crashes = 1

    Cw20Contracts = {c1, c2}
    Counters = 2
    HolderPage = 2
    MaxHolders = 1
    MaxChanges = 2
    MaxDays = 2
    MaxWalkFailures = 1

    StatKinds = {"tx", "account"}
    Accounts = {a1}
    Window = 2
    StatPage = 1
    MaxStatDay = 1
    MaxTxs = 1
    MaxStatCrashes = 1

    DelayAddresses = {a1}
    Validators = {"v1"}
    Unbond = "unbond"
    Redelegate = "redelegate"
    Vesting = "vesting"
    Entries <- MCEnds
    DelayWorkers = {w1}
    DelayAttempts = 1
    MaxFound = 2
    MaxTime = 2
    Lateness = 0
    MaxDelayFailures = 0
    MaxDelayCrashes = 1

    Assets = {a1}
    Kind = "CW721"
    MaxEnriched = 2
    GetConcurrency = 1
    UpdateAttempts = 2
    MaxMediaCrashes = 1

    Tokens = {t1}
    MaxOwners = 2
    EnrichConcurrency = 2
    MaxHandles = 1
    MaxAssetCrashes = 0

    Endpoints = {"txs", "txsFrom", "powerEvents", "blocks", "votes", "grants", "inactive", "owned",
                 "assets", "validators", "params", "proposals", "contracts"}
    Reversed = {"txs", "txsFrom", "votes", "proposals"}
    MaxLimit = 2
    MaxRank = 2
    MaxDocs = 3
    MaxPageChanges = 1

    Proposals = {p1}
    MaxCounted = 1
    MaxCallFails = 1
    MaxProposalCrashes = 1
    KeepFailed = 1

    Values <- MCAll
    Nesting <- MCNesting
    MaxNesting = 2
    Transactions <- MCNoTransactions
    TxAddresses = {"aura1", "aura2", "aura3"}
    LongTexts = {"x"}

    Keys = {"k1", "k2"}
    VoteTxs <- MCVoteTxs
    Uncoded = 1
    ScanLimit = 2
    MaxScans = 1
    MaxVoteCrashes = 1
    MaxVotes = 3
    MaxInserts = 1
    MaxRemoveStarts = 2
    GroupLimit = 2

    Hashes = {t1, t2}
    SafeTxs = {t1}
    SocketHandlers = {h1, h2}
    MaxRegistrations = 1
    MaxSocketFaults = 1
CHECK_DEADLOCK FALSE
INVARIANTS
    ArchiveIsWhole
    
    ContractsAreStored
    ListenersAreTold
    RewardsAreCounted
    
PROPERTIES
    AccountsFollowChain
    
    ProposalsAreRight
    
    
