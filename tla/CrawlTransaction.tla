-------------------------- MODULE CrawlTransaction --------------------------
(* services/crawl-transaction/crawl-transaction.service.ts: the transactions *)
(* of a block, and single ones by hash, are fetched from the network and     *)
(* handed to handle.transaction.                                             *)
(*                                                                           *)
(* The job of a block starts a crawlTransaction per hash and completes       *)
(* without awaiting them: from then on nothing but the memory of the process *)
(* knows of these fetches.  The job of a single hash awaits its fetch.       *)
EXTENDS TxListQueue, TxQueues

CONSTANTS
    TxsOf,          \* TxsOf[b]: the transactions of block b
    MaxTxCrashes    \* bound: crashes of the process

ASSUME CrawlTransactionAssumption ==
    /\ \A b \in DOMAIN TxsOf : TxsOf[b] \subseteq Txs
    /\ MaxTxCrashes \in Nat

\* No transaction.
CONSTANT NoTx
ASSUME NoTxAssumption == NoTx \notin Txs

VARIABLES
    startedTxs,     \* history: transactions whose fetch a block job started
    fetching,       \* fetching[t]: fetches of t started by block jobs
    hashJob,        \* active job of crawl.transaction-hash, or NoHashJob
    hashOrphans,    \* active jobs of that queue left by a crash
    handleSends,    \* handle.transaction jobs not in Redis yet
    droppedTxs,     \* history: transactions the network gave null for
    lostFetches,    \* history: transactions that died with the process
    stalledHashes,  \* transactions whose hash job stalled twice
    txCrashes       \* crashes so far

crawlTxOwnVars == <<startedTxs, fetching, hashJob, hashOrphans, handleSends,
                    droppedTxs, lostFetches, stalledHashes, txCrashes>>

crawlTxVars == <<txListQueue, handleTxQueue, hashQueue, crawlTxOwnVars>>

NoHashJob == NewJob(NoTx)

CrawlTxInit ==
    /\ startedTxs = {}
    /\ fetching = [t \in Txs |-> 0]
    /\ hashJob = NoHashJob
    /\ hashOrphans = <<>>
    /\ handleSends = <<>>
    /\ handleTxQueue = <<>>
    /\ hashQueue = <<>>
    /\ droppedTxs = {}
    /\ lostFetches = {}
    /\ stalledHashes = {}
    /\ txCrashes = 0

\* A crawl.transaction job: start the fetch of every transaction of the block,
\* and complete.
StartFetches ==
    /\ txListQueue # <<>>
    /\ txListQueue' = Tail(txListQueue)
    /\ startedTxs' = startedTxs \union TxsOf[Head(txListQueue).data]
    /\ fetching' = [t \in Txs |->
           IF t \in TxsOf[Head(txListQueue).data] THEN fetching[t] + 1 ELSE fetching[t]]
    /\ UNCHANGED <<handleTxQueue, hashQueue, hashJob, hashOrphans, handleSends,
                   droppedTxs, lostFetches, stalledHashes, txCrashes>>

\* The network answers one of them.
FetchTx(t) ==
    /\ fetching[t] > 0
    /\ fetching' = [fetching EXCEPT ![t] = @ - 1]
    /\ handleSends' = Append(handleSends, t)
    /\ UNCHANGED <<txListQueue, startedTxs, handleTxQueue, hashQueue, hashJob, hashOrphans,
                   droppedTxs, lostFetches, stalledHashes, txCrashes>>

\* It gives null instead: crawlTransaction returns, and nobody tries again.
FetchTxNull(t) ==
    /\ fetching[t] > 0
    /\ fetching' = [fetching EXCEPT ![t] = @ - 1]
    /\ droppedTxs' = droppedTxs \union {t}
    /\ UNCHANGED <<txListQueue, startedTxs, handleTxQueue, hashQueue, hashJob, hashOrphans,
                   handleSends, lostFetches, stalledHashes, txCrashes>>

\* A crawl.transaction-hash job becomes active.
TakeHash ==
    /\ hashJob = NoHashJob
    /\ hashQueue # <<>>
    /\ hashJob' = Head(hashQueue)
    /\ hashQueue' = Tail(hashQueue)
    /\ UNCHANGED <<txListQueue, startedTxs, handleTxQueue, fetching, hashOrphans, handleSends,
                   droppedTxs, lostFetches, stalledHashes, txCrashes>>

\* Its fetch is answered, and it completes.
FetchHash ==
    /\ hashJob # NoHashJob
    /\ handleSends' = Append(handleSends, hashJob.data)
    /\ hashJob' = NoHashJob
    /\ UNCHANGED <<txListQueue, startedTxs, handleTxQueue, hashQueue, fetching, hashOrphans,
                   droppedTxs, lostFetches, stalledHashes, txCrashes>>

\* Its fetch gives null, and it completes all the same.
FetchHashNull ==
    /\ hashJob # NoHashJob
    /\ droppedTxs' = droppedTxs \union {hashJob.data}
    /\ hashJob' = NoHashJob
    /\ UNCHANGED <<txListQueue, startedTxs, handleTxQueue, hashQueue, fetching, hashOrphans,
                   handleSends, lostFetches, stalledHashes, txCrashes>>

\* The oldest handle.transaction job reaches Redis.
HandleJobLands ==
    /\ handleSends # <<>>
    /\ handleTxQueue' = Add(handleTxQueue, Head(handleSends))
    /\ handleSends' = Tail(handleSends)
    /\ UNCHANGED <<txListQueue, startedTxs, hashQueue, fetching, hashJob, hashOrphans, droppedTxs,
                   lostFetches, stalledHashes, txCrashes>>

\* The process dies with the fetches and the sends it alone knows of.
CrashCrawlTx ==
    /\ txCrashes < MaxTxCrashes
    /\ txCrashes' = txCrashes + 1
    /\ lostFetches' = lostFetches \union InFlight(handleSends)
                          \union {t \in Txs : fetching[t] > 0}
    /\ fetching' = [t \in Txs |-> 0]
    /\ handleSends' = <<>>
    /\ hashOrphans' = IF hashJob = NoHashJob THEN hashOrphans
                      ELSE Append(hashOrphans, hashJob)
    /\ hashJob' = NoHashJob
    /\ UNCHANGED <<txListQueue, startedTxs, handleTxQueue, hashQueue, droppedTxs, stalledHashes>>

\* Bull finds the stalled crawl.transaction-hash job.
RecoverHash ==
    /\ hashOrphans # <<>>
    /\ hashOrphans' = Tail(hashOrphans)
    /\ IF Head(hashOrphans).stalled
       THEN /\ stalledHashes' = stalledHashes \union {Head(hashOrphans).data}
            /\ UNCHANGED hashQueue
       ELSE /\ hashQueue' = Requeue(hashQueue, Head(hashOrphans))
            /\ UNCHANGED stalledHashes
    /\ UNCHANGED <<txListQueue, startedTxs, handleTxQueue, fetching, hashJob, handleSends,
                   droppedTxs, lostFetches, txCrashes>>

CrawlTxNext ==
    \/ StartFetches
    \/ \E t \in Txs : FetchTx(t) \/ FetchTxNull(t)
    \/ TakeHash
    \/ FetchHash
    \/ FetchHashNull
    \/ HandleJobLands
    \/ CrashCrawlTx
    \/ RecoverHash

\* Jobs are taken, and every call to the network is answered, with null or not.
CrawlTxFairness ==
    /\ WF_crawlTxVars(StartFetches)
    /\ \A t \in Txs : WF_crawlTxVars(FetchTx(t) \/ FetchTxNull(t))
    /\ WF_crawlTxVars(TakeHash)
    /\ WF_crawlTxVars(FetchHash \/ FetchHashNull)
    /\ WF_crawlTxVars(HandleJobLands)
    /\ WF_crawlTxVars(RecoverHash)
=============================================================================
