------------------------------ MODULE NftAssets ------------------------------
(* The tokens of CW721 and CW4973 contracts whose code is complete.  The       *)
(* transactions are handled by services/asset-indexer/asset-tx-handler, which  *)
(* takes a flag in the cache for a token, has it enriched by a job and marks   *)
(* the burned ones; the job asks the chain for the token and has the asset     *)
(* manager insert it, or upsert it.  A handle event has all tokens inserted.   *)
EXTENDS Naturals, SequencesExt

CONSTANTS
    Tokens,
    MaxOwners,          \* bound: owners of a token after one another
    EnrichConcurrency,  \* jobs of CW721.enrich-tokenid that run at a time
    MaxHandles,         \* bound: handle events
    MaxAssetCrashes     \* bound: deaths of the process

ASSUME NftAssumption ==
    /\ {MaxOwners, MaxHandles, MaxAssetCrashes} \subseteq Nat
    /\ EnrichConcurrency \in Nat \ {0}

VARIABLES
    owner,              \* the chain: the owners a token has had so far
    burnedOn,           \* the chain: the tokens that are burned
    todo,               \* transactions whose job is not taken: [token, burn, n]
    handlers,           \* items under way: [token, burn, n, pc]
    flags,              \* tokens with a flag in the cache
    enrich,             \* waiting jobs of enrich-tokenid: [token, type]
    active,             \* those that run: [token, type, owner, at], at : the asset found, or -1
    burns,              \* calls of addBurnedToAsset on their way: their tokens
    assets,             \* the collection: [token, owner, burned]
    unsureTokens,       \* history: tokens with jobs that overlapped another, or a burn, or that a
                        \* transaction was skipped for
    handles, assetCrashes

nftVars == <<owner, burnedOn, todo, handlers, flags, enrich, active, burns, assets, unsureTokens, handles,
             assetCrashes>>

NftInit ==
    /\ owner = [t \in Tokens |-> 0] /\ burnedOn = {}
    /\ todo = {} /\ handlers = {} /\ flags = {}
    /\ enrich = <<>> /\ active = {} /\ burns = <<>>
    /\ assets = <<>> /\ unsureTokens = {} /\ handles = 0 /\ assetCrashes = 0

Alive(t) == owner[t] > 0 /\ t \notin burnedOn

\* A transaction mints, transfers or burns a token.
TokenMoves(t) ==
    /\ t \notin burnedOn /\ owner[t] < MaxOwners
    /\ owner' = [owner EXCEPT ![t] = @ + 1]
    /\ todo' = todo \union {[token |-> t, burn |-> FALSE, n |-> owner[t] + 1]}
    /\ UNCHANGED <<burnedOn, handlers, flags, enrich, active, burns, assets, unsureTokens, handles, assetCrashes>>

TokenBurns(t) ==
    /\ Alive(t)
    /\ burnedOn' = burnedOn \union {t}
    /\ todo' = todo \union {[token |-> t, burn |-> TRUE, n |-> owner[t] + 1]}
    /\ unsureTokens' = IF \E a \in active : a.token = t THEN unsureTokens \union {t} ELSE unsureTokens
    /\ UNCHANGED <<owner, handlers, flags, enrich, active, burns, assets, handles, assetCrashes>>

-----------------------------------------------------------------------------
\* The process function of asset.tx-handle waits for nothing: an item is dropped
\* where the flag of its token is up,
TakeItem(x) ==
    /\ todo' = todo \ {x}
    /\ IF x.token \in flags
       THEN unsureTokens' = unsureTokens \union {x.token} /\ UNCHANGED handlers
       ELSE /\ handlers' = handlers \union {[token |-> x.token, burn |-> x.burn, n |-> x.n, pc |-> "set"]}
            /\ UNCHANGED unsureTokens
    /\ UNCHANGED <<owner, burnedOn, flags, enrich, active, burns, assets, handles, assetCrashes>>

\* and otherwise raises it,
SetFlag(h) ==
    /\ h.pc = "set"
    /\ handlers' = (handlers \ {h}) \union {[h EXCEPT !.pc = "create"]}
    /\ flags' = flags \union {h.token}
    /\ UNCHANGED <<owner, burnedOn, todo, enrich, active, burns, assets, unsureTokens, handles, assetCrashes>>

\* Variant for the mutants: what is burned is not marked.
CreateJobOnly(h) ==
    /\ h.pc = "create"
    /\ handlers' = (handlers \ {h}) \union {[h EXCEPT !.pc = "del"]}
    /\ enrich' = Append(enrich, [token |-> h.token, type |-> "upsert"])
    /\ UNCHANGED <<owner, burnedOn, todo, flags, active, burns, assets, unsureTokens, handles, assetCrashes>>

\* The calls to mark what the transaction burned.
Burns(h) == IF h.burn THEN Append(burns, h.token) ELSE burns

\* has the token enriched and marked,
CreateEnrichJob(h) ==
    /\ h.pc = "create"
    /\ handlers' = (handlers \ {h}) \union {[h EXCEPT !.pc = "del"]}
    /\ enrich' = Append(enrich, [token |-> h.token, type |-> "upsert"])
    /\ burns' = Burns(h)
    /\ UNCHANGED <<owner, burnedOn, todo, flags, active, assets, unsureTokens, handles, assetCrashes>>

\* and takes the flag down.
DelFlag(h) ==
    /\ h.pc = "del"
    /\ handlers' = handlers \ {h}
    /\ flags' = flags \ {h.token}
    /\ UNCHANGED <<owner, burnedOn, todo, enrich, active, burns, assets, unsureTokens, handles, assetCrashes>>

\* A flag nobody takes down goes with its time to live.
FlagExpires(t) ==
    /\ t \in flags /\ ~\E h \in handlers : h.token = t
    /\ flags' = flags \ {t}
    /\ UNCHANGED <<owner, burnedOn, todo, handlers, enrich, active, burns, assets, unsureTokens, handles,
                   assetCrashes>>

\* The jobs of the tokens a contract has, and with one contract of the code of a code.
EnrichContract ==
    LET alive == SetToSeq({t \in Tokens : Alive(t)})
    IN [i \in DOMAIN alive |-> [token |-> alive[i], type |-> "insert"]]

EnrichContractCW4973 == EnrichContract

HandleContract == enrich' = enrich \o EnrichContract

\* A handle event: the tokens there are, as jobs that insert.
HandleCode ==
    /\ handles < MaxHandles
    /\ handles' = handles + 1
    /\ HandleContract
    /\ UNCHANGED <<owner, burnedOn, todo, handlers, flags, active, burns, assets, unsureTokens, assetCrashes>>

HandleCodeCW4973 == HandleCode

-----------------------------------------------------------------------------
AssetsOf(t) == {i \in DOMAIN assets : assets[i].token = t}

FirstAsset(t) == CHOOSE i \in AssetsOf(t) : \A k \in AssetsOf(t) : i <= k

\* A job asks for the token; the chain has none of one that is burned.
ReadToken ==
    /\ enrich # <<>> /\ Cardinality(active) < EnrichConcurrency
    /\ LET j == Head(enrich)
       IN /\ enrich' = Tail(enrich)
          /\ active' = IF ~Alive(j.token) THEN active
                ELSE active \union {[token |-> j.token, type |-> j.type, owner |-> owner[j.token], at |-> -1]}
          /\ unsureTokens' = IF \/ \E a \in active : a.token = j.token
                                \/ j.type = "insert" /\ AssetsOf(j.token) # {}
                             THEN unsureTokens \union {j.token} ELSE unsureTokens
    /\ UNCHANGED <<owner, burnedOn, todo, handlers, flags, burns, assets, handles, assetCrashes>>

\* upsertHandler looks the asset up.
FindAsset(a) ==
    /\ a.type = "upsert" /\ a.at = -1
    /\ active' = (active \ {a}) \union
           {[a EXCEPT !.at = IF AssetsOf(a.token) = {} THEN 0 ELSE FirstAsset(a.token)]}
    /\ UNCHANGED <<owner, burnedOn, todo, handlers, flags, enrich, burns, assets, unsureTokens, handles,
                   assetCrashes>>

\* The asset as the job has it: with the owner it read, and not burned.
NewAsset(a) == [token |-> a.token, owner |-> a.owner, burned |-> FALSE]

\* The asset is inserted, or written over if it is another; it is not burned.
WriteAsset(a) ==
    /\ a.type = "insert" \/ a.at # -1
    /\ active' = active \ {a}
    /\ assets' = IF a.type = "upsert" /\ a.at > 0 THEN [assets EXCEPT ![a.at] = NewAsset(a)]
                 ELSE Append(assets, NewAsset(a))
    /\ UNCHANGED <<owner, burnedOn, todo, handlers, flags, enrich, burns, unsureTokens, handles, assetCrashes>>

WriteAssetCW4973(a) == WriteAsset(a)

\* addBurnedToAsset, for the asset there is by now.
MarkBurned ==
    /\ burns # <<>>
    /\ burns' = Tail(burns)
    /\ assets' = IF AssetsOf(Head(burns)) = {} THEN assets
                 ELSE [assets EXCEPT ![FirstAsset(Head(burns))].burned = TRUE]
    /\ unsureTokens' = IF \E a \in active : a.token = Head(burns)
                 THEN unsureTokens \union {Head(burns)} ELSE unsureTokens
    /\ UNCHANGED <<owner, burnedOn, todo, handlers, flags, enrich, active, handles, assetCrashes>>

MarkBurnedCW4973 == MarkBurned

\* The collection of CW4973 tokens is written in the same way.
FindAssetCW4973(a) == FindAsset(a)

ReadTokenCW4973 == ReadToken

\* The process dies: the items are gone, their flags stay; bull runs the active
\* jobs again.
CrashAssets ==
    /\ assetCrashes < MaxAssetCrashes
    /\ handlers # {} \/ active # {} \/ burns # <<>>
    /\ assetCrashes' = assetCrashes + 1
    /\ unsureTokens' = unsureTokens \union {h.token : h \in handlers} \union Range(burns)
                    \union {a.token : a \in active}
    /\ handlers' = {} /\ active' = {} /\ burns' = <<>>
    /\ LET again == SetToSeq({[token |-> a.token, type |-> a.type] : a \in active})
       IN enrich' = again \o enrich
    /\ UNCHANGED <<owner, burnedOn, todo, flags, assets, handles>>

NftHandlerNext ==
    \/ \E x \in todo : TakeItem(x)
    \/ \E h \in handlers : SetFlag(h) \/ CreateEnrichJob(h) \/ DelFlag(h)

EnrichNext == ReadToken \/ (\E a \in active : FindAsset(a) \/ WriteAsset(a)) \/ MarkBurned

NftNext ==
    \/ \E t \in Tokens : TokenMoves(t) \/ TokenBurns(t) \/ FlagExpires(t)
    \/ NftHandlerNext \/ HandleCode \/ EnrichNext \/ CrashAssets

NftSpec == NftInit /\ [][NftNext]_nftVars

-----------------------------------------------------------------------------
\* Assets are of tokens and owners the chain has had.
NftTypeOK ==
    /\ owner \in [Tokens -> Nat] /\ burnedOn \union unsureTokens \subseteq Tokens
    /\ todo \subseteq [token : Tokens, burn : BOOLEAN, n : Nat]
    /\ handlers \subseteq [token : Tokens, burn : BOOLEAN, n : Nat, pc : {"set", "create", "del"}]
    /\ enrich \in Seq([token : Tokens, type : {"insert", "upsert"}]) /\ burns \in Seq(Tokens)
    /\ active \subseteq [token : Tokens, type : {"insert", "upsert"}, owner : Nat, at : Nat \union {-1}]
    /\ assets \in Seq([token : Tokens, owner : Nat, burned : BOOLEAN])
    /\ \A i \in DOMAIN assets : assets[i].owner \in 1 .. owner[assets[i].token]
    /\ \A a \in active : a.at <= Len(assets) /\ a.owner \in 1 .. owner[a.token]
    /\ Cardinality(active) <= EnrichConcurrency

Unsettled(t) ==
    \/ \E x \in todo \union handlers \union active \union Range(enrich) : x.token = t
    \/ t \in Range(burns)

\* asset-tx-handler.service.ts:84-218, cw721-asset-manager.service.ts:105: with its
\* transactions handled a token has one asset, with its owner and burned when it is;
\* unless jobs for it overlapped or a transaction met its flag.
AssetIsCurrent ==
    \A t \in Tokens \ unsureTokens :
        ~Unsettled(t) /\ owner[t] > 0 =>
            /\ Cardinality(AssetsOf(t)) <= 1
            /\ t \notin burnedOn => \E i \in AssetsOf(t) : assets[i].owner = owner[t]
            /\ \A i \in AssetsOf(t) : assets[i].burned <=> t \in burnedOn

\* :117 of the manager: a burned asset is written over only by a job that asked the
\* chain for the token before it was burned, or before it was marked.
BurnedReturnsByStaleRead ==
    [][\A i \in DOMAIN assets :
          assets[i].burned /\ ~assets'[i].burned =>
              assets[i].token \in unsureTokens /\ \E a \in active : a.token = assets[i].token]_nftVars

\* The assets of tokens, with handlers, jobs and the flags of burned tokens side by side: a token
\* has one asset, as the chain has it, and burned ones return only by a read from before
\* (asset-tx-handler.service.ts:81-283).
AssetsFollowTokens ==
    /\ [](/\ NftTypeOK
          /\ AssetIsCurrent)
    /\ BurnedReturnsByStaleRead

-----------------------------------------------------------------------------
\* Why it is so. What is burned anywhere is burned on the chain, and a job that runs
\* for a burned token read it before.
BurnsAreOnChain ==
    /\ \A i \in DOMAIN assets : assets[i].burned => assets[i].token \in burnedOn
    /\ \A x \in todo \union handlers : x.burn => x.token \in burnedOn
    /\ Range(burns) \subseteq burnedOn
    /\ \A a \in active : a.token \in burnedOn => a.token \in unsureTokens

\* A job that overlapped no other writes over the asset of its token, or inserts the first.
JobsAreAlone ==
    \A a \in active :
        /\ a.at > 0 => assets[a.at].token = a.token
        /\ a.token \notin unsureTokens =>
            /\ \A b \in active : b.token = a.token => b = a
            /\ a.type = "insert" \/ a.at = 0 => AssetsOf(a.token) = {}

\* What is going to give the asset of t its owner,
OwnerComes(t) ==
    \/ \E x \in todo : x.token = t
    \/ \E h \in handlers : h.token = t /\ h.pc # "del"
    \/ \E j \in Range(enrich) : j.token = t
    \/ \E a \in active : a.token = t /\ a.owner = owner[t]
    \/ /\ \E i \in AssetsOf(t) : assets[i].owner = owner[t]
       /\ \A a \in active : a.token = t => a.owner = owner[t]

\* and mark it burned.
BurnComes(t) ==
    \/ \E x \in todo : x.token = t /\ x.burn
    \/ \E h \in handlers : h.token = t /\ h.burn /\ h.pc # "del"
    \/ t \in Range(burns)
    \/ \A i \in AssetsOf(t) : assets[i].burned

TokensAreFollowed ==
    \A t \in Tokens \ unsureTokens :
        /\ \A i, j \in AssetsOf(t) : i = j
        /\ Alive(t) => OwnerComes(t)
        /\ t \in burnedOn => BurnComes(t)
=============================================================================
