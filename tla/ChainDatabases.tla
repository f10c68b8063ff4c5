---------------------------- MODULE ChainDatabases ----------------------------
(* The APIs serve several chains, each with a database of its own.  A service  *)
(* has one adapter, and useDb points its model at the database of a request    *)
(* (mixins/customMongooseAdapter): a request that waits between useDb and its   *)
(* query, or does not call it, reads whatever the last one pointed it at.       *)
EXTENDS Naturals, FiniteSets

CONSTANTS
    Chains,             \* networks with a database of their own
    Home,               \* the one the adapters are connected to at first
    Requests,           \* requests served at once
    ApiCalls,           \* the handlers that are asked
    AnyChain,           \* no chain is given, which getByOwner allows
    Nothing             \* nothing is cached

ASSUME ChainDatabasesAssumption ==
    /\ Home \in Chains /\ {AnyChain, Nothing} \intersect Chains = {}
    /\ ApiCalls \subseteq {"info", "delegations", "stake", "unbonds", "topAccounts", "cw20Holders",
                              "single", "validatorVotes", "countVotes", "owned"}

Adapters == {"account", "validator", "vote", "asset", "statistics", "holder", "single"}

VARIABLES
    model,              \* model[a]: the chain whose database adapter a reads
    request,            \* request[r]: [of, chain, at, reads], at = 0 when it is done
    chainAccounts,      \* chains whose account_info has the address
    crawls,             \* chains it is to be crawled on
    foundCache,         \* foundCache[c]: the chain whose documents act-find has in the cache for c
    countCache          \* what act-count without a chain has in the cache

databaseVars == <<model, request, chainAccounts, crawls, foundCache, countCache>>

DatabaseInit ==
    /\ model = [a \in Adapters |-> Home]
    /\ request = [r \in Requests |-> [of |-> "info", chain |-> Home, at |-> 0, reads |-> {}]]
    /\ chainAccounts = {} /\ crawls = {} /\ foundCache = [c \in Chains \union {AnyChain} |-> Nothing] /\ countCache = Nothing

Ask(r, h, c) ==
    /\ request[r].at = 0
    /\ c = AnyChain => h = "owned"
    /\ request' = [request EXCEPT ![r] = [of |-> h, chain |-> c, at |-> 1, reads |-> {}]]
    /\ UNCHANGED <<model, chainAccounts, crawls, foundCache, countCache>>

Is(r, h, at) == request[r].of = h /\ request[r].at = at

\* The request has read something of the database of a chain, and goes on or is done.
Reads(r, what, c, next) ==
    request' = [request EXCEPT ![r].at = next, ![r].reads = @ \union {<<what, c>>}]

UseDb(a, c) == model' = [model EXCEPT ![a] = c]

\* useDb and the query, with nothing awaited between them.
ReadOwn(r, a, next) == UseDb(a, request[r].chain) /\ Reads(r, a, request[r].chain, next)

\* An account that is not there is handed to handleAddress.
GetAccountInfo(r) ==
    /\ Is(r, "info", 1)
    /\ ReadOwn(r, "account", 0)
    /\ crawls' = IF request[r].chain \in chainAccounts THEN crawls ELSE crawls \union {request[r].chain}
    /\ UNCHANGED <<chainAccounts, foundCache, countCache>>

GetAccountDelegationInfo(r) ==
    /\ Is(r, "delegations", 1)
    /\ ReadOwn(r, "account", 0)
    /\ crawls' = IF request[r].chain \in chainAccounts THEN crawls ELSE crawls \union {request[r].chain}
    /\ UNCHANGED <<chainAccounts, foundCache, countCache>>

\* The unbondings have their validators besides.
GetAccountStake(r) ==
    /\ Is(r, "stake", 1)
    /\ \E next \in {0, 2} : ReadOwn(r, "account", next)
    /\ UNCHANGED <<chainAccounts, crawls, foundCache, countCache>>

\* getByCondition with an empty query knows no chain.
StakeValidators(r) ==
    /\ Is(r, "stake", 2)
    /\ Reads(r, "validator", model["validator"], 0)
    /\ UNCHANGED <<model, chainAccounts, crawls, foundCache, countCache>>

GetByAddress(r) ==
    /\ Is(r, "unbonds", 1)
    /\ ReadOwn(r, "account", 2)
    /\ UNCHANGED <<chainAccounts, crawls, foundCache, countCache>>

\* getByCondition of a chain.
GetByCondition(r) ==
    /\ \/ Is(r, "unbonds", 2) /\ ReadOwn(r, "validator", 0)
       \/ Is(r, "validatorVotes", 1) /\ ReadOwn(r, "validator", 2)
    /\ UNCHANGED <<chainAccounts, crawls, foundCache, countCache>>

\* Variant for the mutants: useDb came before the validators were awaited.
GetValidatorVoteEarly(r) ==
    /\ Is(r, "validatorVotes", 2)
    /\ Reads(r, "vote", model["vote"], 0)
    /\ UNCHANGED <<model, chainAccounts, crawls, foundCache, countCache>>

GetValidatorVote(r) ==
    /\ Is(r, "validatorVotes", 2)
    /\ ReadOwn(r, "vote", 0)
    /\ UNCHANGED <<chainAccounts, crawls, foundCache, countCache>>

CountVotes(r) ==
    /\ Is(r, "countVotes", 1)
    /\ ReadOwn(r, "vote", 0)
    /\ UNCHANGED <<chainAccounts, crawls, foundCache, countCache>>

\* The four lists are queried before any is awaited.
GetTopAccounts(r) ==
    /\ Is(r, "topAccounts", 1)
    /\ ReadOwn(r, "statistics", 0)
    /\ UNCHANGED <<chainAccounts, crawls, foundCache, countCache>>

GetCw20HolderChangePercent(r) ==
    /\ Is(r, "cw20Holders", 1)
    /\ ReadOwn(r, "holder", 0)
    /\ UNCHANGED <<chainAccounts, crawls, foundCache, countCache>>

\* community-pool, inflation, pool, supply: the one document of a chain.
GetSingle(r) ==
    /\ Is(r, "single", 1)
    /\ ReadOwn(r, "single", 0)
    /\ UNCHANGED <<chainAccounts, crawls, foundCache, countCache>>

\* getByOwner: act-find, which takes the chain out of the query they share unless it
\* is answered from the cache.
FindOwned(r) ==
    /\ Is(r, "owned", 1)
    /\ LET c == request[r].chain
           there == IF c = AnyChain THEN model["asset"] ELSE c
       IN IF foundCache[c] # Nothing
          THEN Reads(r, "asset", foundCache[c], IF c = AnyChain THEN 3 ELSE 2) /\ UNCHANGED <<model, foundCache>>
          ELSE /\ UseDb("asset", there) /\ Reads(r, "asset", there, 3)
               /\ foundCache' = [foundCache EXCEPT ![c] = there]
    /\ UNCHANGED <<chainAccounts, crawls, countCache>>

\* act-count, with the chain in the query or without: then it switches nothing, and its
\* cache holds one answer for all chains.
CountOwned(r) ==
    /\ \/ Is(r, "owned", 2) /\ ReadOwn(r, "asset", 0) /\ UNCHANGED countCache
       \/ /\ Is(r, "owned", 3) /\ UNCHANGED model
          /\ countCache' = IF countCache = Nothing THEN model["asset"] ELSE countCache
          /\ Reads(r, "assetCount", countCache', 0)
    /\ UNCHANGED <<chainAccounts, crawls, foundCache>>

ExpireCache ==
    /\ \/ \E c \in DOMAIN foundCache : /\ foundCache[c] # Nothing /\ UNCHANGED countCache
                                       /\ foundCache' = [foundCache EXCEPT ![c] = Nothing]
       \/ countCache # Nothing /\ countCache' = Nothing /\ UNCHANGED foundCache
    /\ UNCHANGED <<model, request, chainAccounts, crawls>>

AskForCrawl(c) ==
    /\ c \in crawls
    /\ crawls' = crawls \ {c}
    /\ chainAccounts' = chainAccounts \union {c}
    /\ UNCHANGED <<model, request, foundCache, countCache>>

Serve(r) ==
    \/ GetAccountInfo(r) \/ GetAccountDelegationInfo(r) \/ GetAccountStake(r) \/ StakeValidators(r)
    \/ GetByAddress(r) \/ GetByCondition(r) \/ GetValidatorVote(r) \/ CountVotes(r) \/ GetTopAccounts(r)
    \/ GetCw20HolderChangePercent(r) \/ GetSingle(r) \/ FindOwned(r) \/ CountOwned(r)

DatabaseNext ==
    \/ \E r \in Requests : Serve(r) \/ \E h \in ApiCalls, c \in Chains \union {AnyChain} : Ask(r, h, c)
    \/ ExpireCache
    \/ \E c \in Chains : AskForCrawl(c)

DatabaseSpec == DatabaseInit /\ [][DatabaseNext]_databaseVars

-----------------------------------------------------------------------------
Request == [of : ApiCalls \union {"info"}, chain : Chains \union {AnyChain}, at : 0 .. 3,
            reads : SUBSET ((Adapters \union {"assetCount"}) \X Chains)]

\* An adapter is pointed at a chain; a chain is given wherever it is used, and what act-find
\* has in the cache for a chain is of that chain.
DatabaseTypeOK ==
    /\ model \in [Adapters -> Chains]
    /\ request \in [Requests -> Request]
    /\ \A r \in Requests : request[r].chain = AnyChain => request[r].of = "owned" /\ request[r].at # 2
    /\ foundCache \in [Chains \union {AnyChain} -> Chains \union {Nothing}]
    /\ \A c \in Chains : foundCache[c] \in {c, Nothing}
    /\ countCache \in Chains \union {Nothing}
    /\ chainAccounts \union crawls \subseteq Chains

\* What knows no chain: the validators of a stake (account-info.service.ts:789), and the
\* number of the owned assets (asset.service.ts:411), which are read where the adapter
\* was pointed last.
Chainless == {<<"stake", "validator">>, <<"owned", "assetCount">>}

\* account-info.service.ts:310-318, account-unbonds.service.ts:45-58,
\* vote.service.ts:221-223,271-274, account-statistics.service.ts:47-101: whatever other
\* requests come in between, what a request reads is of its own chain.
ReadsItsChain ==
    \A r \in Requests : \A read \in request[r].reads :
        request[r].chain \in {read[2], AnyChain} \/ <<request[r].of, read[1]>> \in Chainless
=============================================================================
