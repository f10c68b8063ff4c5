----------------------------- MODULE TxPipeline -----------------------------
(* crawl-transaction and handle-transaction together: handle.transaction     *)
(* leads from the first to the second, crawl.transaction-hash leads back.    *)
(* What handle-block does to the queue crawl.transaction is an action here.  *)
EXTENDS CrawlTransaction, HandleTransaction

CONSTANT MaxLists       \* bound: lists handed over by handle-block

ASSUME MaxListsAssumption == MaxLists \in Nat

VARIABLE lists          \* lists handed over so far

txVars == <<txListQueue, handleTxQueue, hashQueue, crawlTxOwnVars, handleTxOwnVars,
            lists>>

TxInit ==
    /\ txListQueue = <<>>
    /\ lists = 0
    /\ CrawlTxInit
    /\ HandleTxInit

\* handle-block hands over the list of a block, perhaps not for the first time.
HandOverList ==
    /\ lists < MaxLists
    /\ lists' = lists + 1
    /\ \E b \in DOMAIN TxsOf : txListQueue' = Add(txListQueue, b)
    /\ UNCHANGED <<handleTxQueue, hashQueue, crawlTxOwnVars, handleTxOwnVars>>

TxNext ==
    \/ HandOverList
    \/ CrawlTxNext /\ UNCHANGED <<handleTxOwnVars, lists>>
    \/ HandleTxNext /\ UNCHANGED <<txListQueue, crawlTxOwnVars, lists>>

TxSpec == TxInit /\ [][TxNext]_txVars

FairTxSpec == TxSpec /\ CrawlTxFairness /\ HandleTxFairness

-----------------------------------------------------------------------------
TxQueuesTypeOK ==
    /\ txListQueue \in Seq(JobOf(DOMAIN TxsOf))
    /\ handleTxQueue \in Seq(JobOf(Txs))
    /\ hashQueue \in Seq(JobOf(Txs))

CrawlTxTypeOK ==
    /\ startedTxs \in SUBSET Txs
    /\ fetching \in [Txs -> Nat]
    /\ hashJob \in JobOf(Txs) \union {NoHashJob}
    /\ hashOrphans \in Seq(JobOf(Txs))
    /\ handleSends \in Seq(Txs)
    /\ droppedTxs \in SUBSET Txs
    /\ lostFetches \in SUBSET Txs
    /\ stalledHashes \in SUBSET Txs
    /\ txCrashes \in Nat

\* An idle worker has no job.
HandleTxTypeOK ==
    /\ txStep \in [TxWorkers -> {"idle", "announced", "insert", "done"}]
    /\ txJob \in [TxWorkers -> JobOf(Txs) \union {NoTxJob}]
    /\ \A w \in TxWorkers : txStep[w] = "idle" <=> txJob[w] = NoTxJob
    /\ txOrphans \in Seq(JobOf(Txs))
    /\ stalledTxs \in SUBSET Txs
    /\ storedTxs \in SUBSET (Txs \ Malformed)
    /\ jobSends \in [TxWorkers -> SUBSET (Txs \X Downstream)]
    /\ downstream \in SUBSET (Txs \X Downstream)
    /\ hashSends \in [TxWorkers -> Seq(Txs)]
    /\ lostJobs \in SUBSET (Txs \X Downstream)
    /\ lostRetries \in SUBSET Txs
    /\ txHandlerCrashes \in Nat
    /\ txWriteErrors \in Nat

\* Every variable has its type.
TxTypeOK == TxQueuesTypeOK /\ CrawlTxTypeOK /\ HandleTxTypeOK /\ lists \in Nat

\* Transactions some queue, process or worker is responsible for.
TxPending ==
    {t \in Txs : fetching[t] > 0}
        \union InFlight(handleSends)
        \union Waiting(handleTxQueue) \union Waiting(hashQueue)
        \union Waiting(txOrphans) \union Waiting(hashOrphans)
        \union (IF hashJob = NoHashJob THEN {} ELSE {hashJob.data})
        \union UNION {ActiveTx(w) \union InFlight(hashSends[w]) : w \in TxWorkers}

\* Transactions that some failure has taken out of the pipeline at least once.
TxGone == droppedTxs \union lostFetches \union lostRetries \union stalledTxs
              \union stalledHashes

\* A transaction whose fetch was started is on its way, stored, or its loss has
\* a cause: the network gave null (crawl-transaction.service.ts:109), a process
\* died, or its job stalled twice.  A failing write is none, because handleJob
\* asks for the transaction again (handle-transaction.service.ts:58-70).
TxAccounted == \A t \in startedTxs : t \in TxPending \union storedTxs \union TxGone

\* The job of <<t, q>> is created, on its way or lost, or t will be announced again.
Heard(t, q) ==
    \/ <<t, q>> \in downstream \union lostJobs
    \/ \E w \in TxWorkers : <<t, q>> \in jobSends[w]
    \/ t \in Waiting(handleTxQueue) \union Waiting(txOrphans) \union stalledTxs

\* Downstream hears of a transaction before it is stored and, because a job that
\* runs again announces again, does so whatever crashes in between
\* (handle-transaction.service.ts:52-57): only the death of a process after its
\* job completed can keep a stored transaction from a downstream queue.
StoredIsHeardDownstream ==
    \A t \in storedTxs, q \in Downstream : Heard(t, q)

\* A well-formed transaction is stored in the end or lost for one of the causes,
\* however often a malformed one goes round the retry loop beside it.
EveryTxSettles ==
    \A t \in Txs \ Malformed : t \in startedTxs ~> t \in storedTxs \union TxGone

-----------------------------------------------------------------------------
(* The inductive strengthening of the invariants above, in named parts.       *)

\* Transactions of the workers that have not yet stored theirs, found it stored
\* or asked for it again.
AtWork == {txJob[w].data : w \in {v \in TxWorkers : txStep[v] \in {"announced", "insert"}}}

\* A transaction that does not deserialize gets no further than that.
WellFormedInv == AtWork \intersect Malformed = {}

CrawlHeld ==
    {t \in Txs : fetching[t] > 0} \union InFlight(handleSends) \union Waiting(hashOrphans)
        \union (IF hashJob = NoHashJob THEN {} ELSE {hashJob.data})

HandleHeld ==
    Waiting(txOrphans) \union AtWork \union UNION {InFlight(hashSends[w]) : w \in TxWorkers}

\* Whose loss has a cause, who is stored, and who is held by something else than
\* a worker that is done: no step takes a transaction out of these.
Custody ==
    CrawlHeld \union HandleHeld \union Waiting(handleTxQueue) \union Waiting(hashQueue)
        \union storedTxs \union TxGone

\* TxAccounted, not counting on workers that are done.
CustodyInv == startedTxs \subseteq Custody

\* StoredIsHeardDownstream, also for what is about to be stored.
HeardInv == \A t \in storedTxs \union AtWork, q \in Downstream : Heard(t, q)
=============================================================================
