------------------------------ MODULE Contracts ------------------------------
(* services/contract-manager/contract-tx-handler: the contracts that a list of  *)
(* transactions instantiates are asked for at the LCD, and inserted together    *)
(* at the end of the list; those it executes are asked for and updated in       *)
(* calls of their own, which the job does not wait for.                         *)
EXTENDS Naturals, Sequences, FiniteSets, FiniteSetsExt, SequencesExt

CONSTANTS
    ContractAddresses,
    MaxExecutes,        \* bound: executions of a contract
    TxConcurrency,      \* jobs of contract.tx-handle that run at a time
    TxAttempts,         \* attempts of a job, BULL_JOB_ATTEMPT
    MaxAgain,           \* bound: lists that are delivered twice
    MaxTxCrashes        \* bound: deaths of the process

ASSUME ContractsAssumption ==
    /\ {MaxExecutes, MaxAgain, MaxTxCrashes} \subseteq Nat
    /\ {TxConcurrency, TxAttempts} \subseteq Nat \ {0}

VARIABLES
    version,            \* the chain: 0, or the state a contract is in
    block,              \* the transactions of the list to come: <<kind, contract>>
    contractJobs,       \* waiting jobs: [id, list, tries]
    runningLists,       \* jobs that run: [job, rest, built], with the contracts built so far
    updates,            \* calls under way: [c, info, same], info 0 before it is asked for, and
                        \* same when the list instantiates the contract too
    storedContracts,    \* the collection: the info of each contract, 0 when it is not there
    lostLists,          \* history: contracts of jobs that failed for good
    unsureContracts,    \* history: contracts whose updates overlapped or failed, and those
                        \* that were not there yet for an update
    delivered,          \* jobs created so far
    doubled,            \* those that were created twice
    txCrashes

contractVars == <<version, block, contractJobs, runningLists, updates, storedContracts, lostLists, unsureContracts, delivered, doubled,
                  txCrashes>>

ContractsInit ==
    /\ version = [c \in ContractAddresses |-> 0] /\ block = <<>>
    /\ contractJobs = <<>> /\ runningLists = {} /\ updates = {}
    /\ storedContracts = [c \in ContractAddresses |-> 0]
    /\ lostLists = {} /\ unsureContracts = {} /\ delivered = 0 /\ doubled = 0 /\ txCrashes = 0

ContractTx(c) ==
    /\ version[c] <= MaxExecutes
    /\ version' = [version EXCEPT ![c] = @ + 1]
    /\ block' = Append(block, <<IF version[c] = 0 THEN "instantiate" ELSE "execute", c>>)
    /\ UNCHANGED <<contractJobs, runningLists, updates, storedContracts, lostLists, unsureContracts, delivered, doubled, txCrashes>>

\* handle-transaction-upserted creates the job; a list comes twice when it dies.
DeliverList ==
    /\ block # <<>>
    /\ block' = <<>>
    /\ \E n \in 1 .. (IF doubled < MaxAgain THEN 2 ELSE 1) :
          /\ contractJobs' = contractJobs \o [i \in 1 .. n |-> [id |-> delivered + i, list |-> block, tries |-> 0]]
          /\ delivered' = delivered + n
          /\ doubled' = doubled + n - 1
    /\ UNCHANGED <<version, runningLists, updates, storedContracts, lostLists, unsureContracts, txCrashes>>

-----------------------------------------------------------------------------
\* The contracts of a list.
ContractsOf(list) == {list[i][2] : i \in DOMAIN list}

StartList ==
    /\ contractJobs # <<>> /\ Cardinality(runningLists) < TxConcurrency
    /\ LET j == Head(contractJobs)
       IN runningLists' = runningLists \union {[job |-> j, rest |-> j.list, built |-> [c \in {} |-> 0]]}
    /\ contractJobs' = Tail(contractJobs)
    /\ UNCHANGED <<version, block, updates, storedContracts, lostLists, unsureContracts, delivered, doubled, txCrashes>>

\* A contract is instantiated: what the LCD has of it is kept until the end.
BuildContract(r) ==
    /\ r.rest # <<>> /\ Head(r.rest)[1] = "instantiate"
    /\ LET c == Head(r.rest)[2]
           built == [d \in DOMAIN r.built \union {c} |-> IF d = c THEN version[c] ELSE r.built[d]]
       IN runningLists' = (runningLists \ {r}) \union {[r EXCEPT !.rest = Tail(@), !.built = built]}
    /\ UNCHANGED <<version, block, contractJobs, updates, storedContracts, lostLists, unsureContracts, delivered, doubled, txCrashes>>

\* The LCD does not answer: reading a field of null ends the attempt.
BuildFails(r) ==
    /\ r.rest # <<>> /\ Head(r.rest)[1] = "instantiate"
    /\ runningLists' = runningLists \ {r}
    /\ IF r.job.tries + 1 < TxAttempts
       THEN contractJobs' = Append(contractJobs, [r.job EXCEPT !.tries = @ + 1]) /\ UNCHANGED lostLists
       ELSE lostLists' = lostLists \union ContractsOf(r.job.list) /\ UNCHANGED contractJobs
    /\ UNCHANGED <<version, block, updates, storedContracts, unsureContracts, delivered, doubled, txCrashes>>

\* A contract is executed: _updateContractOnchainInfo is on its way.  Two calls that
\* have not asked yet are one member of updates: they overlap.
ExecuteContract(r) ==
    /\ r.rest # <<>> /\ Head(r.rest)[1] = "execute"
    /\ runningLists' = (runningLists \ {r}) \union {[r EXCEPT !.rest = Tail(@)]}
    /\ LET c == Head(r.rest)[2]
           u == [c |-> c, info |-> 0, same |-> c \in DOMAIN r.built]
       IN /\ updates' = updates \union {u}
          /\ unsureContracts' = IF u \in updates THEN unsureContracts \union {c} ELSE unsureContracts
    /\ UNCHANGED <<version, block, contractJobs, storedContracts, lostLists, delivered, doubled, txCrashes>>

\* Variant for the mutants: what is there is replaced.
InsertOver(built) ==
    [c \in ContractAddresses |-> IF c \in DOMAIN built THEN built[c] ELSE storedContracts[c]]

\* insertMany stops at the first contract that is there; a list that comes again has
\* all of its contracts there, for it is inserted in one go.
InsertMany(built) ==
    IF \E c \in DOMAIN built : storedContracts[c] # 0 THEN storedContracts
    ELSE [c \in ContractAddresses |-> IF c \in DOMAIN built THEN built[c] ELSE storedContracts[c]]

InsertContracts(r) ==
    /\ r.rest = <<>>
    /\ runningLists' = runningLists \ {r}
    /\ storedContracts' = InsertMany(r.built)
    /\ UNCHANGED <<version, block, contractJobs, updates, lostLists, unsureContracts, delivered, doubled, txCrashes>>

-----------------------------------------------------------------------------
\* queryContractSmart.
AskContract(u) ==
    /\ u.info = 0
    /\ updates' = (updates \ {u}) \union {[u EXCEPT !.info = version[u.c]]}
    /\ unsureContracts' = IF \E w \in updates \ {u} : w.c = u.c THEN unsureContracts \union {u.c} ELSE unsureContracts
    /\ UNCHANGED <<version, block, contractJobs, runningLists, storedContracts, lostLists, delivered, doubled, txCrashes>>

\* findOne and updateById; a contract that is not there is left.
UpdateContract(u) ==
    /\ u.info > 0
    /\ updates' = updates \ {u}
    /\ storedContracts' = IF storedContracts[u.c] = 0 THEN storedContracts ELSE [storedContracts EXCEPT ![u.c] = u.info]
    /\ unsureContracts' = IF storedContracts[u.c] = 0 /\ ~u.same THEN unsureContracts \union {u.c} ELSE unsureContracts
    /\ UNCHANGED <<version, block, contractJobs, runningLists, lostLists, delivered, doubled, txCrashes>>

\* The LCD does not answer: the fields are written as undefined, or left.
UpdateBlank(u) ==
    /\ u.info = 0
    /\ updates' = updates \ {u}
    /\ unsureContracts' = unsureContracts \union {u.c}
    /\ UNCHANGED <<version, block, contractJobs, runningLists, storedContracts, lostLists, delivered, doubled, txCrashes>>

\* The process dies: its jobs are run again, its updates are not.
CrashContracts ==
    /\ txCrashes < MaxTxCrashes
    /\ runningLists # {} \/ updates # {}
    /\ txCrashes' = txCrashes + 1
    /\ contractJobs' = SetToSeq({r.job : r \in runningLists}) \o contractJobs
    /\ unsureContracts' = unsureContracts \union {u.c : u \in updates}
    /\ runningLists' = {} /\ updates' = {}
    /\ UNCHANGED <<version, block, storedContracts, lostLists, delivered, doubled>>

ListNext ==
    \/ DeliverList \/ StartList
    \/ \E r \in runningLists : BuildContract(r) \/ BuildFails(r) \/ ExecuteContract(r) \/ InsertContracts(r)

UpdatesNext == \E u \in updates : AskContract(u) \/ UpdateContract(u) \/ UpdateBlank(u)

ContractsNext ==
    \/ \E c \in ContractAddresses : ContractTx(c)
    \/ ListNext \/ UpdatesNext \/ CrashContracts

ContractsSpec == ContractsInit /\ [][ContractsNext]_contractVars

\* Jobs are taken and do what they have to, and calls of the LCD are answered.
ContractsFairness == WF_contractVars(ListNext) /\ WF_contractVars(UpdatesNext)

-----------------------------------------------------------------------------
\* Contracts are stored in states the chain has been in, and jobs keep their limits.
ContractsTypeOK ==
    /\ \A c \in ContractAddresses : storedContracts[c] <= version[c]
    /\ \A r \in runningLists : \A c \in DOMAIN r.built : r.built[c] \in 1 .. version[c]
    /\ \A r \in runningLists : r.job.tries < TxAttempts
    /\ Cardinality(runningLists) <= TxConcurrency

Handled(c) ==
    /\ c \notin ContractsOf(block)
    /\ \A j \in Range(contractJobs) \union {r.job : r \in runningLists} : c \notin ContractsOf(j.list)
    /\ \A u \in updates : u.c # c

\* contract-tx-handler.service.ts:133: a contract is there once its list is handled,
\* unless all attempts of the list failed, be it for another contract of the list.
EveryContractStored ==
    \A c \in ContractAddresses : version[c] > 0 /\ Handled(c) => storedContracts[c] > 0 \/ c \in lostLists

\* :140-171: it is stored as the chain has it, also when its list executes it, before
\* it is inserted; unless updates of two lists overlapped, the contract was not there
\* yet for the update of a later list, or the LCD did not answer.
ContractIsCurrent ==
    \A c \in ContractAddresses \ (unsureContracts \union lostLists) :
        storedContracts[c] > 0 /\ Handled(c) => storedContracts[c] = version[c]

\* What is instantiated is stored, and what is executed is up to date, with lists that come
\* twice, attempts that fail and deaths of the process (contract-tx-handler.service.ts:44-198).
ContractsAreStored == ContractsTypeOK /\ EveryContractStored /\ ContractIsCurrent

\* Lists do not stay: each ends, or fails all of its attempts.
ListsAreHandled == ContractsFairness => []<>(\A c \in ContractAddresses : Handled(c))
=============================================================================
