-------------------------- MODULE HandleTransaction --------------------------
(* services/handle-transaction: the workers of handle.transaction announce a  *)
(* transaction, store it, and ask for a new fetch when that fails             *)
(* (handle-transaction.service.ts); the announcement 'list-tx.upsert' becomes *)
(* a job of every downstream queue (handle-transaction-upserted.service.ts).  *)
(*                                                                            *)
(* One job: deserialize -> emit -> find -> insertMany, the last two awaited.  *)
EXTENDS TxQueues, Naturals

CONSTANTS
    TxWorkers,          \* consumers of handle.transaction, concurrency 1 each
    Malformed,          \* transactions that do not deserialize, ever
    Downstream,         \* queues whose CREATE_JOB_... switch is on
    MaxTxHandlerCrashes,\* bound: crashes of a worker's process
    MaxTxWriteErrors    \* bound: failed calls of the database

ASSUME HandleTransactionAssumption ==
    /\ Malformed \subseteq Txs
    /\ MaxTxHandlerCrashes \in Nat
    /\ MaxTxWriteErrors \in Nat

\* No active job of handle.transaction.
CONSTANT NoTxJob
ASSUME NoTxJobAssumption == NoTxJob \notin JobOf(Txs)

VARIABLES
    txStep,             \* txStep[w]: where worker w is in handleJob
    txJob,              \* txJob[w]: its active job, or NoTxJob
    txOrphans,          \* active jobs whose process is gone
    stalledTxs,         \* transactions whose job stalled twice
    storedTxs,          \* the transaction collection
    jobSends,           \* jobSends[w]: pairs <<t, q>>, downstream jobs not in Redis yet
    downstream,         \* pairs <<t, q>> whose job is in queue q
    hashSends,          \* hashSends[w]: crawl.transaction-hash jobs not in Redis yet
    lostJobs,           \* history: downstream jobs that died after their job completed
    lostRetries,        \* history: retries that died after their job completed
    txHandlerCrashes,   \* crashes so far
    txWriteErrors       \* failed calls of the database so far

handleTxOwnVars == <<txStep, txJob, txOrphans, stalledTxs, storedTxs, jobSends,
                     downstream, hashSends, lostJobs, lostRetries,
                     txHandlerCrashes, txWriteErrors>>

handleTxVars == <<handleTxQueue, hashQueue, handleTxOwnVars>>

\* The transaction of the job worker w is at, if it is at one.
ActiveTx(w) == IF txStep[w] = "idle" THEN {} ELSE {txJob[w].data}

HandleTxInit ==
    /\ txStep = [w \in TxWorkers |-> "idle"]
    /\ txJob = [w \in TxWorkers |-> NoTxJob]
    /\ txOrphans = <<>>
    /\ stalledTxs = {}
    /\ storedTxs = {}
    /\ jobSends = [w \in TxWorkers |-> {}]
    /\ downstream = {}
    /\ hashSends = [w \in TxWorkers |-> <<>>]
    /\ lostJobs = {}
    /\ lostRetries = {}
    /\ txHandlerCrashes = 0
    /\ txWriteErrors = 0

\* Variant for the mutants: a transaction that is stored is not announced again.
AnnounceTxIfNew(w) ==
    /\ txStep[w] = "idle"
    /\ handleTxQueue # <<>>
    /\ Head(handleTxQueue).data \notin Malformed
    /\ txJob' = [txJob EXCEPT ![w] = Head(handleTxQueue)]
    /\ handleTxQueue' = Tail(handleTxQueue)
    /\ jobSends' = IF Head(handleTxQueue).data \in storedTxs THEN jobSends
                   ELSE [jobSends EXCEPT ![w] = @ \union ({Head(handleTxQueue).data} \X Downstream)]
    /\ txStep' = [txStep EXCEPT ![w] = "announced"]
    /\ UNCHANGED <<hashQueue, txOrphans, stalledTxs, storedTxs, downstream, hashSends,
                   lostJobs, lostRetries, txHandlerCrashes, txWriteErrors>>

\* Take the oldest job, deserialize it and emit 'list-tx.upsert', which the
\* upserted service of this process turns into one job per downstream queue.
AnnounceTx(w) ==
    /\ txStep[w] = "idle"
    /\ handleTxQueue # <<>>
    /\ Head(handleTxQueue).data \notin Malformed
    /\ txJob' = [txJob EXCEPT ![w] = Head(handleTxQueue)]
    /\ handleTxQueue' = Tail(handleTxQueue)
    /\ jobSends' = [jobSends EXCEPT ![w] = @ \union ({Head(handleTxQueue).data} \X Downstream)]
    /\ txStep' = [txStep EXCEPT ![w] = "announced"]
    /\ UNCHANGED <<hashQueue, txOrphans, stalledTxs, storedTxs, downstream, hashSends,
                   lostJobs, lostRetries, txHandlerCrashes, txWriteErrors>>

\* Variant for the mutants: a transaction that does not deserialize goes back in
\* front of the queue.
RejectTxInPlace(w) ==
    /\ txStep[w] = "idle"
    /\ handleTxQueue # <<>>
    /\ Head(handleTxQueue).data \in Malformed
    /\ txJob' = [txJob EXCEPT ![w] = Head(handleTxQueue)]
    /\ txStep' = [txStep EXCEPT ![w] = "done"]
    /\ UNCHANGED <<handleTxQueue, hashQueue, txOrphans, stalledTxs, storedTxs, jobSends,
                   downstream, hashSends, lostJobs, lostRetries, txHandlerCrashes,
                   txWriteErrors>>

\* It does not deserialize: the error is caught and a new fetch asked for.
RejectTx(w) ==
    /\ txStep[w] = "idle"
    /\ handleTxQueue # <<>>
    /\ Head(handleTxQueue).data \in Malformed
    /\ txJob' = [txJob EXCEPT ![w] = Head(handleTxQueue)]
    /\ handleTxQueue' = Tail(handleTxQueue)
    /\ hashSends' = [hashSends EXCEPT ![w] = Append(@, Head(handleTxQueue).data)]
    /\ txStep' = [txStep EXCEPT ![w] = "done"]
    /\ UNCHANGED <<hashQueue, txOrphans, stalledTxs, storedTxs, jobSends, downstream,
                   lostJobs, lostRetries, txHandlerCrashes, txWriteErrors>>

\* `find` by hash: one that is there leaves nothing to insert.
FindTx(w) ==
    /\ txStep[w] = "announced"
    /\ txStep' = [txStep EXCEPT ![w] =
                     IF txJob[w].data \in storedTxs THEN "done" ELSE "insert"]
    /\ UNCHANGED <<handleTxQueue, hashQueue, txJob, txOrphans, stalledTxs, storedTxs,
                   jobSends, downstream, hashSends, lostJobs, lostRetries,
                   txHandlerCrashes, txWriteErrors>>

\* insertMany succeeds; tx_response.txhash has a unique index.
InsertTx(w) ==
    /\ txStep[w] = "insert"
    /\ txJob[w].data \notin storedTxs
    /\ storedTxs' = storedTxs \union {txJob[w].data}
    /\ txStep' = [txStep EXCEPT ![w] = "done"]
    /\ UNCHANGED <<handleTxQueue, hashQueue, txJob, txOrphans, stalledTxs, jobSends,
                   downstream, hashSends, lostJobs, lostRetries, txHandlerCrashes,
                   txWriteErrors>>

\* Variant for the mutants: the error is caught and nothing asked for.
RetryTxNever(w) ==
    /\ \/ /\ txStep[w] = "insert"
          /\ txJob[w].data \in storedTxs
          /\ UNCHANGED txWriteErrors
       \/ /\ txStep[w] \in {"announced", "insert"}
          /\ txWriteErrors < MaxTxWriteErrors
          /\ txWriteErrors' = txWriteErrors + 1
    /\ txStep' = [txStep EXCEPT ![w] = "done"]
    /\ UNCHANGED <<handleTxQueue, hashQueue, txJob, txOrphans, stalledTxs, storedTxs,
                   jobSends, downstream, hashSends, lostJobs, lostRetries, txHandlerCrashes>>

\* It is refused by the unique index, or the database fails in `find` or in
\* `insertMany`: handleJob catches the error and asks for a new fetch.
RetryTx(w) ==
    /\ \/ /\ txStep[w] = "insert"
          /\ txJob[w].data \in storedTxs
          /\ UNCHANGED txWriteErrors
       \/ /\ txStep[w] \in {"announced", "insert"}
          /\ txWriteErrors < MaxTxWriteErrors
          /\ txWriteErrors' = txWriteErrors + 1
    /\ hashSends' = [hashSends EXCEPT ![w] = Append(@, txJob[w].data)]
    /\ txStep' = [txStep EXCEPT ![w] = "done"]
    /\ UNCHANGED <<handleTxQueue, hashQueue, txJob, txOrphans, stalledTxs, storedTxs,
                   jobSends, downstream, lostJobs, lostRetries, txHandlerCrashes>>

\* Variant for the mutants: the worker goes idle and keeps its job.
CompleteTxKeepingJob(w) ==
    /\ txStep[w] = "done"
    /\ txStep' = [txStep EXCEPT ![w] = "idle"]
    /\ UNCHANGED <<handleTxQueue, hashQueue, txJob, txOrphans, stalledTxs, storedTxs,
                   jobSends, downstream, hashSends, lostJobs, lostRetries,
                   txHandlerCrashes, txWriteErrors>>

\* The job completes: handleJob has caught whatever went wrong.
CompleteTx(w) ==
    /\ txStep[w] = "done"
    /\ txStep' = [txStep EXCEPT ![w] = "idle"]
    /\ txJob' = [txJob EXCEPT ![w] = NoTxJob]
    /\ UNCHANGED <<handleTxQueue, hashQueue, txOrphans, stalledTxs, storedTxs, jobSends,
                   downstream, hashSends, lostJobs, lostRetries, txHandlerCrashes,
                   txWriteErrors>>

\* A downstream job reaches its queue; every queue has a connection of its own.
DownstreamJobLands(w) ==
    /\ \E job \in jobSends[w] :
          /\ jobSends' = [jobSends EXCEPT ![w] = @ \ {job}]
          /\ downstream' = downstream \union {job}
    /\ UNCHANGED <<handleTxQueue, hashQueue, txStep, txJob, txOrphans, stalledTxs,
                   storedTxs, hashSends, lostJobs, lostRetries, txHandlerCrashes,
                   txWriteErrors>>

\* The oldest crawl.transaction-hash job of a worker reaches Redis.
RetryLands(w) ==
    /\ hashSends[w] # <<>>
    /\ hashQueue' = Add(hashQueue, Head(hashSends[w]))
    /\ hashSends' = [hashSends EXCEPT ![w] = Tail(@)]
    /\ UNCHANGED <<handleTxQueue, txStep, txJob, txOrphans, stalledTxs, storedTxs,
                   jobSends, downstream, lostJobs, lostRetries, txHandlerCrashes,
                   txWriteErrors>>

\* The process of a worker dies with its sends, and leaves its job active: that
\* job will make its sends again, those of completed jobs are lost.
CrashTxHandler(w) ==
    /\ txHandlerCrashes < MaxTxHandlerCrashes
    /\ txHandlerCrashes' = txHandlerCrashes + 1
    /\ lostJobs' = lostJobs \union (jobSends[w] \ (ActiveTx(w) \X Downstream))
    /\ jobSends' = [jobSends EXCEPT ![w] = {}]
    /\ lostRetries' = lostRetries \union (InFlight(hashSends[w]) \ ActiveTx(w))
    /\ hashSends' = [hashSends EXCEPT ![w] = <<>>]
    /\ txOrphans' = IF txStep[w] = "idle" THEN txOrphans ELSE Append(txOrphans, txJob[w])
    /\ txStep' = [txStep EXCEPT ![w] = "idle"]
    /\ txJob' = [txJob EXCEPT ![w] = NoTxJob]
    /\ UNCHANGED <<handleTxQueue, hashQueue, stalledTxs, storedTxs, downstream,
                   txWriteErrors>>

\* Bull finds a stalled handle.transaction job.
RecoverTx ==
    /\ txOrphans # <<>>
    /\ txOrphans' = Tail(txOrphans)
    /\ IF Head(txOrphans).stalled
       THEN /\ stalledTxs' = stalledTxs \union {Head(txOrphans).data}
            /\ UNCHANGED handleTxQueue
       ELSE /\ handleTxQueue' = Requeue(handleTxQueue, Head(txOrphans))
            /\ UNCHANGED stalledTxs
    /\ UNCHANGED <<hashQueue, txStep, txJob, storedTxs, jobSends, downstream, hashSends,
                   lostJobs, lostRetries, txHandlerCrashes, txWriteErrors>>

HandleTxNext ==
    \/ \E w \in TxWorkers :
          \/ AnnounceTx(w)
          \/ RejectTx(w)
          \/ FindTx(w)
          \/ InsertTx(w)
          \/ RetryTx(w)
          \/ CompleteTx(w)
          \/ DownstreamJobLands(w)
          \/ RetryLands(w)
          \/ CrashTxHandler(w)
    \/ RecoverTx

HandleTxFairness ==
    /\ \A w \in TxWorkers :
          /\ WF_handleTxVars(AnnounceTx(w) \/ RejectTx(w))
          /\ WF_handleTxVars(FindTx(w))
          /\ WF_handleTxVars(InsertTx(w) \/ RetryTx(w))
          /\ WF_handleTxVars(CompleteTx(w))
          /\ WF_handleTxVars(DownstreamJobLands(w))
          /\ WF_handleTxVars(RetryLands(w))
    /\ WF_handleTxVars(RecoverTx)
=============================================================================
