----------------------------- MODULE MCServices -----------------------------
(***************************************************************************)
(* The services beside the two pipelines and feegrant, for TLC. They share *)
(* neither a variable nor a queue, so that a behaviour of all of them is   *)
(* an interleaving of one behaviour of each, and what holds of a service   *)
(* that runs alone holds of it among the others. service says which one    *)
(* runs; the others stay in their initial state.                           *)
(***************************************************************************)
EXTENDS Accounts, ArchiveTxs, AuraTransactions, ChainDatabases, ClaimedRewards, CodeIds, Contracts,
        Cw20Assets, DailyHolders, DailyStatistics, DelayJobs, MediaLinks, NftAssets, Paging, Proposals,
        TxIndexes, Votes, Websocket, TLC

CONSTANTS
    Services,           \* those that are checked
    a1, a2, t1, t2      \* addresses, and transactions

VARIABLE service        \* the one that runs

-----------------------------------------------------------------------------
\* handle.address: two transactions with the accounts in either order; for the other crawlers
\* and for failures, one account all of whose fields change.
MCAddressTxs ==
    {[list |-> <<a1, a2>>, crawlers |-> {"balances"}],
     [list |-> <<a2, a1>>, crawlers |-> {"balances"}]}
MCFieldTxs ==
    {[list |-> <<a1>>, crawlers |-> {"balances", "spendable"}],
     [list |-> <<a1>>, crawlers |-> {"balances", "spendable", "delegates"}]}

\* The archive: two transactions of the first block, one of which comes late.
MCHeightOf == t1 :> 1 @@ t2 :> 1

\* aura: a block of three transactions, which takes two pages, and one without any.
MCInBlock == 1 :> <<"a", "b", "c">> @@ 2 :> <<>>
MCOneBlock == 1 :> <<"a">>

\* Claims: a redelegation, which pays twice, with withdrawals; two rewards of one delegator
\* next to a transaction that failed; an exec message.
Msg(type, from) == [type |-> type, from |-> from]
MCClaimTxs ==
    <<<<[ok |-> TRUE,
         msgs |-> <<Msg("redelegate", a1), Msg("withdraw", a2), Msg("other", a2)>>,
         rewards |-> <<<<1, 2>>, <<2>>, <<>> >>]>>,
      <<[ok |-> TRUE, msgs |-> <<Msg("delegate", a1), Msg("undelegate", a1)>>,
         rewards |-> <<<<1>>, <<3>> >>],
        [ok |-> FALSE, msgs |-> <<Msg("withdraw", a2)>>, rewards |-> <<<<5>> >>]>>,
      <<[ok |-> TRUE, msgs |-> <<Msg("withdraw", a2), Msg("exec", a2)>>,
         rewards |-> <<<<1>>, <<1>> >>]>> >>

\* Delay jobs: two unbondings from one validator; a redelegation and a vesting.
Entry(kind, end) == [kind |-> kind, addr |-> a1, val |-> "v1", at |-> end]
MCUnbondings == {Entry("unbond", 1), Entry("unbond", 2)}
MCEnds == {Entry("redelegate", 1), Entry("vesting", 1)}

\* Votes: one of a transaction that failed; two of a voter in order with a vote of another;
\* one more of the other voter.
MCVoteTxs == <<[code |-> 5, votes |-> <<"k1">>],
               [code |-> 0, votes |-> <<"k1", "k2">>],
               [code |-> 0, votes |-> <<"k2">>]>>

\* The indexes of a transaction: messages with all the shapes of a value, up to two of them.
Text(s) == <<"text", s>>
MCValues == {Text("aura1"), Text("x"), <<"null">>, <<"list", <<Text("aura2")>>>>,
             <<"object", [to |-> Text("aura2")]>>}
MCArgs == {<<"null">>, Text("aura1"), <<"list", <<Text("aura2")>>>>}
              \union {<<"object", [owner |-> v, to |-> w]>> : v \in MCValues, w \in MCValues}
MCAll == MCValues \union MCArgs \union {Text("aura2")}
MCNesting ==
    [v \in MCAll |-> IF v[1] \notin {"list", "object"} THEN 0 ELSE IF v \in MCValues THEN 1 ELSE 2]
MCInputs == {<<[key |-> "send", arg |-> a]>> : a \in MCArgs}
                \union {<<[key |-> "send", arg |-> a], [key |-> "mint", arg |-> Text("x")]>> : a \in MCArgs}
MCMsgs == [execute : BOOLEAN, sender : {"aura1"}, contract : {"aura3"}, input : MCInputs]
MCFew == {m \in MCMsgs : m.execute => Len(m.input) = 2 /\ m.input[1].arg[1] \in {"null", "list"}}
MCEvents == {{[name |-> "transfer_sender", value |-> "aura1", decodes |-> TRUE],
              [name |-> "transfer_memo", value |-> "aura2", decodes |-> FALSE]}}
MCTransactions ==
    [msgs : {<<>>} \union {<<m>> : m \in MCMsgs} \union {<<m, n>> : m \in MCMsgs, n \in MCFew},
     events : MCEvents]
MCNoTransactions == {[msgs |-> <<>>, events |-> {}]}

-----------------------------------------------------------------------------
\* The run of one service leaves the others where they are; the copy of the blocks can be run
\* without that of their transactions.
OthersRest ==
    /\ UNCHANGED service
    /\ IF service = "accounts" THEN TRUE ELSE UNCHANGED accountVars
    /\ IF service \in {"archive", "blocks"} THEN TRUE ELSE UNCHANGED archiveVars
    /\ IF service = "aura" THEN TRUE ELSE UNCHANGED auraVars
    /\ IF service = "claims" THEN TRUE ELSE UNCHANGED rewardVars
    /\ IF service = "codes" THEN TRUE ELSE UNCHANGED codeVars
    /\ IF service = "contracts" THEN TRUE ELSE UNCHANGED contractVars
    /\ IF service = "cw20" THEN TRUE ELSE UNCHANGED cw20Vars
    /\ IF service = "databases" THEN TRUE ELSE UNCHANGED databaseVars
    /\ IF service = "delay" THEN TRUE ELSE UNCHANGED delayVars
    /\ IF service = "holders" THEN TRUE ELSE UNCHANGED holderVars
    /\ IF service = "indexes" THEN TRUE ELSE UNCHANGED indexVars
    /\ IF service = "media" THEN TRUE ELSE UNCHANGED mediaVars
    /\ IF service = "nft" THEN TRUE ELSE UNCHANGED nftVars
    /\ IF service = "paging" THEN TRUE ELSE UNCHANGED pagingVars
    /\ IF service = "proposals" THEN TRUE ELSE UNCHANGED proposalVars
    /\ IF service = "removals" THEN TRUE ELSE UNCHANGED removeVars
    /\ IF service = "sockets" THEN TRUE ELSE UNCHANGED socketVars
    /\ IF service = "statistics" THEN TRUE ELSE UNCHANGED statVars
    /\ IF service = "votes" THEN TRUE ELSE UNCHANGED voteVars

servicesVars == <<service, accountVars, archiveVars, auraVars, rewardVars, codeVars,
                 contractVars, cw20Vars, databaseVars, delayVars, holderVars, indexVars,
                 mediaVars, nftVars, pagingVars, proposalVars, removeVars, socketVars, statVars,
                 voteVars>>

\* What rests has one initial state.
ServicesInit ==
    /\ service \in Services
    /\ AccountCrawlInit
    /\ ArchiveInit
    /\ AuraInit
    /\ ClaimsInit
    /\ CodeInit
    /\ ContractsInit
    /\ Cw20Init
    /\ DatabaseInit
    /\ DelayInit
    /\ HoldersInit
    /\ MediaInit
    /\ NftInit
    /\ ProposalInit
    /\ SocketInit
    /\ StatInit
    /\ VotesInit
    /\ IndexInit /\ (service # "indexes" => tx.msgs = <<>>)
    /\ PagingInit /\ (service # "paging" => ~requested.reverse /\ requested.limit = 1 /\ requested.of = "votes")
    /\ RemoveInit /\ (service # "removals" => votes = <<>>)

ServicesNext ==
    \/ service = "accounts" /\ AccountNext /\ OthersRest
    \/ service = "blocks" /\ BlocksNext /\ UNCHANGED archiveTxVars /\ OthersRest
    \/ service = "archive" /\ ArchiveNext /\ OthersRest
    \/ service = "aura" /\ AuraNext /\ OthersRest
    \/ service = "claims" /\ ClaimsNext /\ OthersRest
    \/ service = "codes" /\ CodeNext /\ OthersRest
    \/ service = "contracts" /\ ContractsNext /\ OthersRest
    \/ service = "cw20" /\ Cw20Next /\ OthersRest
    \/ service = "databases" /\ DatabaseNext /\ OthersRest
    \/ service = "delay" /\ DelayNext /\ OthersRest
    \/ service = "holders" /\ HoldersNext /\ OthersRest
    \/ service = "indexes" /\ IndexNext /\ OthersRest
    \/ service = "media" /\ MediaNext /\ OthersRest
    \/ service = "nft" /\ NftNext /\ OthersRest
    \/ service = "paging" /\ PagingNext /\ OthersRest
    \/ service = "proposals" /\ ProposalNext /\ OthersRest
    \/ service = "removals" /\ RemoveNext /\ OthersRest
    \/ service = "sockets" /\ SocketNext /\ OthersRest
    \/ service = "statistics" /\ StatNext /\ OthersRest
    \/ service = "votes" /\ VotesNext /\ OthersRest

ServicesSpec == ServicesInit /\ [][ServicesNext]_servicesVars

-----------------------------------------------------------------------------
(* The properties of services that settle.  Liveness is asked of the one that *)
(* runs: nothing ever happens to the others.                                  *)

\* What the chain changes is seen in the end: a field of an account is crawled, or given up; a code
\* is indexed; an entry that ended leaves its account; a transaction of aura-network that its
\* block brought in vain comes with it again; a proposal shows what the chain settles on
\* (crawl-account-balances.service.ts:39-161, asset-tx-handler.service.ts:201-215,
\* handle-delay-job.service.ts:40-158, handle-block.service.ts:41-78 of aura-network,
\* crawl-proposal.service.ts:44-153, crawl-tally-proposal.service.ts:62-99).
ChainChangesArrive ==
    /\ service = "accounts" => ChangesArrive
    /\ service = "aura" => SecondChance
    /\ service = "codes" => CodeGetsIndexed
    /\ service = "delay" => EndedLeaves
    /\ service = "proposals" => StatusConverges /\ TallyConverges /\ DepositConverges

\* Work in hand comes to an end, whatever else is begun meanwhile: what is old leaves its
\* collection, with the transactions of its blocks; a list of contracts is handled, or given up;
\* a source of an image is completed or in error, unless the lookup died between its document
\* and its job; a registered hash that is stored is told of; a day gets its record, unless its
\* jobs went on after midnight; a job of rewards is done or has failed
\* (job-move-block-older.service.ts:84-117, job-move-tx-older.service.ts:39-73,
\* contract-tx-handler.service.ts:56-133, cw721-asset-media.service.ts:174-186,
\* cw721-asset-media-manager.service.ts:160-262, websocket.service.ts:132-161,
\* crawl-daily-tx.service.ts:68-165, crawl-account-claimed-rewards.service.ts:42-72).
WorkInHandEnds ==
    /\ service = "archive" => EveryOldBlockLeaves /\ TxsFollowTheirBlock
    /\ service = "claims" => JobsSettle
    /\ service = "contracts" => ListsAreHandled
    /\ service = "media" => HandlingEnds
    /\ service = "sockets" => StoredIsCast
    /\ service = "statistics" => EachDayRecorded
=============================================================================
