SPECIFICATION ServicesSpec
CONSTANTS
    a1 = a1
    a2 = a2
    t1 = t1
    t2 = t2
    Services = {"accounts", "aura", "blocks", "cw20", "databases", "delay", "holders", "indexes",
                "media", "nft", "paging", "removals", "votes"}

    Addresses = {a1}
    QueueHandlers = {q1}
    ApiHandlers = {api}
    Crawlers = {"balances", "spendable", "delegates"}
    Balances = "balances"
    SpendableBalances = "spendable"
    Delegates = "delegates"
    AddressTxs <- MCFieldTxs
    CrawlAttempts = 2
    MaxUpserts = 0
    MaxHandlerDeaths = 0
    CrawlWorkers = {k1}
    MaxCrawlFailures = 1

    Movers = {m1, m2}
    MaxHeight = 2
    MoveLimit = 2
    RangeDay = 1
    MaxDay = 3
    MaxMoverCrashes = 1
    MaxArchiverCrashes = 1
    ArchiveTxIds = {t1, t2}
    HeightOf <- MCHeightOf
    LateTxs = {t2}
    MaxTxMoverCrashes = 0

    AuraBlocks = {1, 2}
    InBlock <- MCInBlock
    PerPage = 2
    Undecodable = {"b"}
    MaxHandOvers = 1
    MaxAuraFaults = 2
    MaxAuraCrashes = 1

    Chains = {c1, c2}
    Home = c1
    Requests = {r1, r2}
    ApiCalls = {"info", "stake", "unbonds", "validatorVotes"}
    AnyChain = AnyChain
    Nothing = Nothing

    Delegators = {a1, a2}
    ClaimTxs <- MCClaimTxs
    ClaimWorkers = {w1}
    ClaimAttempts = 3
    MaxFailures = 2

    Types = {"CW20", "CW721"}
    CodeType = "CW721"
    MaxRequests = 2
    MaxChecks = 2
    MaxLcdFails = 1

    ContractAddresses = {c1, c2}
    MaxExecutes = 1
    TxConcurrency = 2
    TxAttempts = 1
    MaxAgain = 0
    MaxTxCrashes = 0

    Owners = {a1, a2}
    Cw20Balances = {0, 1}
    MaxTransfers = 2
    EnrichCw20 = 2
    MaxCw20Crashes = 1

    Cw20Contracts = {c1, c2}
    Counters = 2
    HolderPage = 2
    MaxHolders = 1
    MaxChanges = 3
    MaxDays = 2
    MaxWalkFailures = 1

    StatKinds = {"account"}
    Accounts = {a1}
    Window = 1
    StatPage = 1
    MaxStatDay = 2
    MaxTxs = 2
    MaxStatCrashes = 0

    DelayAddresses = {a1}
    Validators = {"v1"}
    Unbond = "unbond"
    Redelegate = "redelegate"
    Vesting = "vesting"
    Entries <- MCUnbondings
    DelayWorkers = {w1}
    DelayAttempts = 1
    MaxFound = 2
    MaxTime = 2
    Lateness = 1
    MaxDelayFailures = 1
    MaxDelayCrashes = 1

    Assets = {a1, a2}
    Kind = "CW4973"
    MaxEnriched = 1
    GetConcurrency = 1
    UpdateAttempts = 2
    MaxMediaCrashes = 0

    Tokens = {t1}
    MaxOwners = 2
    EnrichConcurrency = 2
    MaxHandles = 1
    MaxAssetCrashes = 1

    Endpoints = {"txs", "txsFrom", "powerEvents", "blocks", "votes", "grants", "inactive", "owned",
                 "assets", "validators", "params", "proposals", "contracts"}
    Reversed = {"txs", "txsFrom", "votes", "proposals"}
    MaxLimit = 2
    MaxRank = 3
    MaxDocs = 3
    MaxPageChanges = 1

    Proposals = {p1}
    MaxCounted = 1
    MaxCallFails = 1
    MaxProposalCrashes = 1
    KeepFailed = 1

    Values <- MCAll
    Nesting <- MCNesting
    MaxNesting = 2
    Transactions <- MCTransactions
    TxAddresses = {"aura1", "aura2", "aura3"}
    LongTexts = {"x"}

    Keys = {"k1", "k2"}
    VoteTxs <- MCVoteTxs
    Uncoded = 1
    ScanLimit = 2
    MaxScans = 1
    MaxVoteCrashes = 1
    MaxVotes = 3
    MaxInserts = 1
    MaxRemoveStarts = 2
    GroupLimit = 2

    Hashes = {t1, t2}
    SafeTxs = {t1}
    SocketHandlers = {h1, h2}
    MaxRegistrations = 1
    MaxSocketFaults = 1
CHECK_DEADLOCK FALSE
INVARIANTS
    
    
    AuraTxsAccounted
    EntriesAreWatched
    
    
    HoldersByDay
    PagesAreWhole
PROPERTIES
    ImplementsMove
    VotesAreRight
    
