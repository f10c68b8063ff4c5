----------------------------- MODULE Cw20Assets -----------------------------
(* The balances of a CW20 contract: services/asset-indexer/cw20-asset lists its *)
(* accounts, asks for the balance of each and has it upserted by               *)
(* services/asset-manager/cw20-asset-manager, all accounts at once; then it has *)
(* the holders counted.  A contract's jobs do not touch another's assets.       *)
EXTENDS Naturals, Sequences, FiniteSets, SequencesExt

CONSTANTS
    Owners,
    Cw20Balances,       \* what an account may hold, with 0
    MaxTransfers,       \* bound: changes of a balance
    EnrichCw20,         \* jobs of CW20.enrich that run at a time, of all workers
    MaxCw20Crashes      \* bound: deaths of the process

ASSUME Cw20Assumption ==
    /\ 0 \in Cw20Balances /\ EnrichCw20 \in Nat \ {0}
    /\ {MaxTransfers, MaxCw20Crashes} \subseteq Nat

VARIABLES
    balance,            \* the chain: accounts and what they hold
    transfers,
    enrichJobs,         \* waiting jobs of CW20.enrich
    enriching,          \* those that run: [id, owners], and for each account [pc, balance, at]
    tokens,             \* the collection: [owner, balance]
    holderJobs,         \* jobs of update.contract-holders
    holders,            \* the holders last counted
    blurredBalances,    \* history: accounts whose balance was not answered, or asked by two jobs
    cw20Crashes

cw20Vars == <<balance, transfers, enrichJobs, enriching, tokens, holderJobs, holders, blurredBalances, cw20Crashes>>

Cw20Init ==
    /\ balance = [o \in {} |-> 0] /\ transfers = 0
    /\ enrichJobs = 0 /\ enriching = {} /\ tokens = <<>>
    /\ holderJobs = 0 /\ holders = 0 /\ blurredBalances = {} /\ cw20Crashes = 0

\* A transaction changes a balance, and asset-tx-handler creates a job.
Transfer(o, b) ==
    /\ transfers < MaxTransfers
    /\ transfers' = transfers + 1
    /\ balance' = [p \in DOMAIN balance \union {o} |-> IF p = o THEN b ELSE balance[p]]
    /\ enrichJobs' = enrichJobs + 1
    /\ UNCHANGED <<enriching, tokens, holderJobs, holders, blurredBalances, cw20Crashes>>

-----------------------------------------------------------------------------

\* getOwnerList: all accounts, page after page.
GetOwnerList ==
    /\ enrichJobs > 0 /\ Cardinality(enriching) < EnrichCw20
    /\ enrichJobs' = enrichJobs - 1
    /\ LET id == CHOOSE i \in 1 .. EnrichCw20 : \A j \in enriching : j.id # i
           of == [o \in DOMAIN balance |-> [pc |-> "ask", balance |-> 0, at |-> 0]]
       IN enriching' = enriching \union {[id |-> id, of |-> of]}
    /\ UNCHANGED <<balance, transfers, tokens, holderJobs, holders, blurredBalances, cw20Crashes>>

Step(j, o, x) == enriching' = (enriching \ {j}) \union {[j EXCEPT !.of[o] = x]}

\* An account that another job is at.
Shared(j, o) == \E k \in enriching \ {j} : o \in DOMAIN k.of /\ k.of[o].pc # "done"

GetBalance(j, o) ==
    /\ j.of[o].pc = "ask"
    /\ Step(j, o, [pc |-> "find", balance |-> balance[o], at |-> 0])
    /\ blurredBalances' = IF Shared(j, o) THEN blurredBalances \union {o} ELSE blurredBalances
    /\ UNCHANGED <<balance, transfers, enrichJobs, tokens, holderJobs, holders, cw20Crashes>>

\* The LCD does not answer: the account is left out.
GetBalanceNull(j, o) ==
    /\ j.of[o].pc = "ask"
    /\ Step(j, o, [j.of[o] EXCEPT !.pc = "done"])
    /\ blurredBalances' = blurredBalances \union {o}
    /\ UNCHANGED <<balance, transfers, enrichJobs, tokens, holderJobs, holders, cw20Crashes>>

\* The place of an account in the collection, or 0.
TokenOf(o) ==
    IF \E i \in DOMAIN tokens : tokens[i].owner = o
    THEN CHOOSE i \in DOMAIN tokens :
             tokens[i].owner = o /\ \A k \in 1 .. (i - 1) : tokens[k].owner # o
    ELSE 0

\* Variant for the mutants: the asset is not looked for.
FindNothing(j, o) ==
    /\ j.of[o].pc = "find"
    /\ Step(j, o, [j.of[o] EXCEPT !.pc = "write"])
    /\ UNCHANGED <<balance, transfers, enrichJobs, tokens, holderJobs, holders, blurredBalances, cw20Crashes>>

\* upsertHandler: findOne, and updateById or insert.
FindToken(j, o) ==
    /\ j.of[o].pc = "find"
    /\ Step(j, o, [j.of[o] EXCEPT !.pc = "write", !.at = TokenOf(o)])
    /\ UNCHANGED <<balance, transfers, enrichJobs, tokens, holderJobs, holders, blurredBalances, cw20Crashes>>

UpsertToken(j, o) ==
    /\ j.of[o].pc = "write"
    /\ Step(j, o, [j.of[o] EXCEPT !.pc = "done"])
    /\ LET t == [owner |-> o, balance |-> j.of[o].balance]
       IN tokens' = IF j.of[o].at = 0 THEN Append(tokens, t) ELSE [tokens EXCEPT ![j.of[o].at] = t]
    /\ UNCHANGED <<balance, transfers, enrichJobs, holderJobs, holders, blurredBalances, cw20Crashes>>

\* With all accounts done the job has the holders counted.
EndEnrich(j) ==
    /\ \A o \in DOMAIN j.of : j.of[o].pc = "done"
    /\ enriching' = enriching \ {j}
    /\ holderJobs' = holderJobs + 1
    /\ UNCHANGED <<balance, transfers, enrichJobs, tokens, holders, blurredBalances, cw20Crashes>>

\* cw20-holder: the assets whose balance is not 0.
CountByAddress == Cardinality({i \in DOMAIN tokens : tokens[i].balance # 0})

CountHolders ==
    /\ holderJobs > 0
    /\ holderJobs' = holderJobs - 1
    /\ holders' = CountByAddress
    /\ UNCHANGED <<balance, transfers, enrichJobs, enriching, tokens, blurredBalances, cw20Crashes>>

\* The process dies: the jobs that ran run again, from the start.
CrashCw20 ==
    /\ cw20Crashes < MaxCw20Crashes /\ enriching # {}
    /\ cw20Crashes' = cw20Crashes + 1
    /\ enrichJobs' = enrichJobs + Cardinality(enriching)
    /\ enriching' = {}
    /\ UNCHANGED <<balance, transfers, tokens, holderJobs, holders, blurredBalances>>

Cw20JobNext ==
    \/ GetOwnerList \/ CountHolders
    \/ \E j \in enriching :
          \/ EndEnrich(j)
          \/ \E o \in DOMAIN j.of :
                GetBalance(j, o) \/ GetBalanceNull(j, o) \/ FindToken(j, o) \/ UpsertToken(j, o)

Cw20Next ==
    \/ \E o \in Owners, b \in Cw20Balances : Transfer(o, b)
    \/ Cw20JobNext \/ CrashCw20

Cw20Spec == Cw20Init /\ [][Cw20Next]_cw20Vars

-----------------------------------------------------------------------------
\* Assets are of accounts of the contract, and jobs know where they write.
Cw20TypeOK ==
    /\ \A i \in DOMAIN tokens : tokens[i].owner \in DOMAIN balance
    /\ \A j \in enriching : \A o \in DOMAIN j.of : j.of[o].at \in 0 .. Len(tokens)
    /\ Cardinality(enriching) <= EnrichCw20

AtRestCw20 == enrichJobs = 0 /\ enriching = {} /\ holderJobs = 0

\* cw20-asset.service.ts:290-321, cw20-asset-manager:110: with no job left an account
\* has one asset, with what it holds, unless its balance was not answered or two jobs
\* were at it.
BalanceIsCurrent ==
    AtRestCw20 => \A o \in DOMAIN balance \ blurredBalances :
        Cardinality({i \in DOMAIN tokens : tokens[i].owner = o}) = 1 /\ tokens[TokenOf(o)].balance = balance[o]

\* cw20-asset.service.ts:323: the holders are counted after the accounts of the job
\* are written, and so the last count is of all.
HoldersAreCounted ==
    AtRestCw20 => holders = CountByAddress

\* The balances of a contract and the number of its holders, after any transfers, with jobs side
\* by side and deaths: at rest they are those of the chain
\* (cw20-asset.service.ts:294-346, cw20-asset-manager.service.ts:112-139).
BalancesFollowChain ==
    /\ Cw20TypeOK
    /\ BalanceIsCurrent
    /\ HoldersAreCounted
=============================================================================
