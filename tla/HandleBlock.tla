----------------------------- MODULE HandleBlock -----------------------------
(* services/handle-block: the workers of the queue handle.block store a block *)
(* (handle-block.service.ts), and the service that hears 'list-block.upserted'*)
(* adds its proposer (handle-block-upserted.service.ts).                      *)
(*                                                                            *)
(* The operations of one job, in the order of handleBlock:                    *)
(*   find by hash -> createJob crawl.transaction -> insert -> emit -> done.   *)
(* `find` and `insert` are awaited, so other workers run in between.          *)
EXTENDS BlockQueue, TxListQueue

CONSTANTS
    Workers,            \* consumers of handle.block, concurrency 1 each
    Blocks,             \* heights of the blocks that may be in the queue
    BlocksWithTxs,      \* those whose block.data.txs is not empty
    KnownProposers,     \* those whose proposer is in the validator collection
    MaxHandlerCrashes,  \* bound: crashes of a worker's process
    MaxWriteErrors      \* bound: failed calls of the database

ASSUME HandleBlockAssumption ==
    /\ BlocksWithTxs \subseteq Blocks
    /\ KnownProposers \subseteq Blocks
    /\ MaxHandlerCrashes \in Nat
    /\ MaxWriteErrors \in Nat

VARIABLES
    step,           \* step[w]: where worker w is in handleBlock
    held,           \* held[w]: its active job, or NoJob
    orphans,        \* active jobs whose process is gone
    failedBlocks,   \* blocks with a job in the failed set of handle.block
    stored,         \* blocks in the block collection
    txSends,        \* txSends[w]: crawl.transaction jobs not in Redis yet
    upsertSends,    \* upsertSends[w]: list-block.upserted on its way
    proposerQueue,  \* wait list of add-proposer
    proposed,       \* stored blocks that have their proposer
    unproposed,     \* blocks whose add-proposer job ended without a write
    emits,          \* history: emits[b], how often b was announced
    lostTxLists,    \* history: blocks that were done when their crawl.transaction
                    \* job died in flight
    lostUpserts,    \* history: blocks whose announcement died with a process
    handlerCrashes, \* crashes so far
    writeErrors     \* failed calls of the database so far

\* The variables of this service alone.
handleOwnVars == <<step, held, orphans, failedBlocks, stored, txSends,
                   upsertSends, proposerQueue, proposed, unproposed, emits,
                   lostTxLists, lostUpserts, handlerCrashes, writeErrors>>

handleVars == <<blockQueue, txListQueue, handleOwnVars>>

\* No active job.
NoJob == NewJob(0)

HandleTypeOK ==
    /\ step \in [Workers -> {"idle", "found", "missing", "insert", "inserted", "done"}]
    /\ held \in [Workers -> JobOf(Blocks \union {0})]
    /\ \A w \in Workers : step[w] # "idle" => held[w] \in JobOf(Blocks)
    /\ orphans \in Seq(JobOf(Blocks))
    /\ failedBlocks \in SUBSET Blocks
    /\ stored \in SUBSET Blocks
    /\ txSends \in [Workers -> Seq(Blocks)]
    /\ upsertSends \in [Workers -> Seq(Blocks)]
    /\ proposerQueue \in Seq(JobOf(Blocks))
    /\ proposed \in SUBSET stored
    /\ unproposed \in SUBSET Blocks
    /\ emits \in [Blocks -> Nat]
    /\ lostTxLists \in SUBSET Blocks
    /\ lostUpserts \in SUBSET Blocks
    /\ handlerCrashes \in Nat
    /\ writeErrors \in Nat

\* The block of the job worker w is at, if it is at one.
ActiveOf(w) == IF step[w] = "idle" THEN {} ELSE {held[w].data}

HandleInit ==
    /\ step = [w \in Workers |-> "idle"]
    /\ held = [w \in Workers |-> NoJob]
    /\ orphans = <<>>
    /\ failedBlocks = {}
    /\ stored = {}
    /\ txSends = [w \in Workers |-> <<>>]
    /\ txListQueue = <<>>
    /\ upsertSends = [w \in Workers |-> <<>>]
    /\ proposerQueue = <<>>
    /\ proposed = {}
    /\ unproposed = {}
    /\ emits = [b \in Blocks |-> 0]
    /\ lostTxLists = {}
    /\ lostUpserts = {}
    /\ handlerCrashes = 0
    /\ writeErrors = 0

\* Take the oldest job and look the block up by its hash.
FindBlock(w) ==
    /\ step[w] = "idle"
    /\ blockQueue # <<>>
    /\ held' = [held EXCEPT ![w] = Head(blockQueue)]
    /\ blockQueue' = Tail(blockQueue)
    /\ step' = [step EXCEPT ![w] =
                   IF Head(blockQueue).data \in stored THEN "found" ELSE "missing"]
    /\ UNCHANGED <<orphans, failedBlocks, stored, txSends, txListQueue, upsertSends,
                   proposerQueue, proposed, unproposed, emits, lostTxLists,
                   lostUpserts, handlerCrashes, writeErrors>>

\* Variant for the mutants: only a block that was found hands over its
\* transactions, as an early return after `find` would have it.
CreateTxJobIfFound(w) ==
    /\ step[w] \in {"found", "missing"}
    /\ txSends' = IF step[w] = "found" /\ held[w].data \in BlocksWithTxs
                  THEN [txSends EXCEPT ![w] = Append(@, held[w].data)]
                  ELSE txSends
    /\ step' = [step EXCEPT ![w] = IF @ = "found" THEN "done" ELSE "insert"]
    /\ UNCHANGED <<blockQueue, held, orphans, failedBlocks, stored, txListQueue, upsertSends,
                   proposerQueue, proposed, unproposed, emits, lostTxLists,
                   lostUpserts, handlerCrashes, writeErrors>>

\* createJob crawl.transaction, whether the block was found or not; a block
\* that was found needs nothing else.
CreateTxJob(w) ==
    /\ step[w] \in {"found", "missing"}
    /\ txSends' = IF held[w].data \in BlocksWithTxs
                  THEN [txSends EXCEPT ![w] = Append(@, held[w].data)]
                  ELSE txSends
    /\ step' = [step EXCEPT ![w] = IF @ = "found" THEN "done" ELSE "insert"]
    /\ UNCHANGED <<blockQueue, held, orphans, failedBlocks, stored, txListQueue, upsertSends,
                   proposerQueue, proposed, unproposed, emits, lostTxLists,
                   lostUpserts, handlerCrashes, writeErrors>>

\* Variants for the mutants: without the unique index...
InsertBlockTwice(w) ==
    /\ step[w] = "insert"
    /\ stored' = stored \union {held[w].data}
    /\ step' = [step EXCEPT ![w] = "inserted"]
    /\ UNCHANGED <<blockQueue, held, orphans, failedBlocks, txSends, txListQueue, upsertSends,
                   proposerQueue, proposed, unproposed, emits, lostTxLists,
                   lostUpserts, handlerCrashes, writeErrors>>

\* ... and without the emit that follows.
InsertBlockSilently(w) ==
    /\ step[w] = "insert"
    /\ held[w].data \notin stored
    /\ stored' = stored \union {held[w].data}
    /\ step' = [step EXCEPT ![w] = "done"]
    /\ UNCHANGED <<blockQueue, held, orphans, failedBlocks, txSends, txListQueue, upsertSends,
                   proposerQueue, proposed, unproposed, emits, lostTxLists,
                   lostUpserts, handlerCrashes, writeErrors>>

\* The insert succeeds; block_id.hash has a unique index.
InsertBlock(w) ==
    /\ step[w] = "insert"
    /\ held[w].data \notin stored
    /\ stored' = stored \union {held[w].data}
    /\ step' = [step EXCEPT ![w] = "inserted"]
    /\ UNCHANGED <<blockQueue, held, orphans, failedBlocks, txSends, txListQueue, upsertSends,
                   proposerQueue, proposed, unproposed, emits, lostTxLists,
                   lostUpserts, handlerCrashes, writeErrors>>

\* Variant for the mutants: removeOnFail drops the failed job altogether.
HandleBlockFailsForgotten(w) ==
    /\ \/ /\ step[w] = "insert"
          /\ held[w].data \in stored
          /\ UNCHANGED writeErrors
       \/ /\ step[w] \in {"found", "missing", "insert"}
          /\ writeErrors < MaxWriteErrors
          /\ writeErrors' = writeErrors + 1
    /\ step' = [step EXCEPT ![w] = "idle"]
    /\ held' = [held EXCEPT ![w] = NoJob]
    /\ UNCHANGED <<blockQueue, orphans, failedBlocks, stored, txSends, txListQueue,
                   upsertSends, proposerQueue, proposed, unproposed, emits,
                   lostTxLists, lostUpserts, handlerCrashes>>

\* The insert is refused by the unique index, or the database fails in `find` or
\* in `insert`: the job fails, and it has no second attempt.
HandleBlockFails(w) ==
    /\ \/ /\ step[w] = "insert"
          /\ held[w].data \in stored
          /\ UNCHANGED writeErrors
       \/ /\ step[w] \in {"found", "missing", "insert"}
          /\ writeErrors < MaxWriteErrors
          /\ writeErrors' = writeErrors + 1
    /\ failedBlocks' = failedBlocks \union {held[w].data}
    /\ step' = [step EXCEPT ![w] = "idle"]
    /\ held' = [held EXCEPT ![w] = NoJob]
    /\ UNCHANGED <<blockQueue, orphans, stored, txSends, txListQueue, upsertSends,
                   proposerQueue, proposed, unproposed, emits, lostTxLists,
                   lostUpserts, handlerCrashes>>

\* Variant for the mutants: the event is emitted and nobody hears it.
EmitUnheard(w) ==
    /\ step[w] = "inserted"
    /\ emits' = [emits EXCEPT ![held[w].data] = @ + 1]
    /\ step' = [step EXCEPT ![w] = "done"]
    /\ UNCHANGED <<blockQueue, held, orphans, failedBlocks, stored, txSends, txListQueue,
                   upsertSends, proposerQueue, proposed, unproposed, lostTxLists,
                   lostUpserts, handlerCrashes, writeErrors>>

\* emit 'list-block.upserted', heard by the upserted service of this process.
EmitUpserted(w) ==
    /\ step[w] = "inserted"
    /\ emits' = [emits EXCEPT ![held[w].data] = @ + 1]
    /\ upsertSends' = [upsertSends EXCEPT ![w] = Append(@, held[w].data)]
    /\ step' = [step EXCEPT ![w] = "done"]
    /\ UNCHANGED <<blockQueue, held, orphans, failedBlocks, stored, txSends, txListQueue,
                   proposerQueue, proposed, unproposed, lostTxLists, lostUpserts,
                   handlerCrashes, writeErrors>>

\* Bull marks the job completed and removes it (removeOnComplete).
CompleteBlock(w) ==
    /\ step[w] = "done"
    /\ step' = [step EXCEPT ![w] = "idle"]
    /\ held' = [held EXCEPT ![w] = NoJob]
    /\ UNCHANGED <<blockQueue, orphans, failedBlocks, stored, txSends, txListQueue, upsertSends,
                   proposerQueue, proposed, unproposed, emits, lostTxLists,
                   lostUpserts, handlerCrashes, writeErrors>>

\* The oldest crawl.transaction job of a worker reaches Redis.
TxJobLands(w) ==
    /\ txSends[w] # <<>>
    /\ txListQueue' = Add(txListQueue, Head(txSends[w]))
    /\ txSends' = [txSends EXCEPT ![w] = Tail(@)]
    /\ UNCHANGED <<blockQueue, step, held, orphans, failedBlocks, stored, upsertSends,
                   proposerQueue, proposed, unproposed, emits, lostTxLists,
                   lostUpserts, handlerCrashes, writeErrors>>

\* The event is heard, and its add-proposer job reaches Redis.
ProposerJobLands(w) ==
    /\ upsertSends[w] # <<>>
    /\ proposerQueue' = Add(proposerQueue, Head(upsertSends[w]))
    /\ upsertSends' = [upsertSends EXCEPT ![w] = Tail(@)]
    /\ UNCHANGED <<blockQueue, step, held, orphans, failedBlocks, stored, txSends, txListQueue,
                   proposed, unproposed, emits, lostTxLists, lostUpserts,
                   handlerCrashes, writeErrors>>

\* handleJobAddProposer finds the validator and updates the block.
AddProposer ==
    /\ proposerQueue # <<>>
    /\ Head(proposerQueue).data \in KnownProposers
    /\ proposed' = proposed \union ({Head(proposerQueue).data} \intersect stored)
    /\ proposerQueue' = Tail(proposerQueue)
    /\ UNCHANGED <<blockQueue, step, held, orphans, failedBlocks, stored, txSends, txListQueue,
                   upsertSends, unproposed, emits, lostTxLists, lostUpserts,
                   handlerCrashes, writeErrors>>

\* It does not: result[0] of no validator, or a failing find, fails the job for
\* good; a failing bulkWrite is caught, and the job completes without a write.
SkipProposer ==
    /\ proposerQueue # <<>>
    /\ \/ /\ Head(proposerQueue).data \notin KnownProposers
          /\ UNCHANGED writeErrors
       \/ /\ Head(proposerQueue).data \in KnownProposers
          /\ writeErrors < MaxWriteErrors
          /\ writeErrors' = writeErrors + 1
    /\ unproposed' = unproposed \union {Head(proposerQueue).data}
    /\ proposerQueue' = Tail(proposerQueue)
    /\ UNCHANGED <<blockQueue, step, held, orphans, failedBlocks, stored, txSends, txListQueue,
                   upsertSends, proposed, emits, lostTxLists, lostUpserts,
                   handlerCrashes>>

\* The process of a worker dies with its sends, and leaves its job active: that
\* job will create its crawl.transaction job again, completed ones will not.
CrashHandler(w) ==
    /\ handlerCrashes < MaxHandlerCrashes
    /\ handlerCrashes' = handlerCrashes + 1
    /\ lostTxLists' = lostTxLists \union (InFlight(txSends[w]) \ ActiveOf(w))
    /\ txSends' = [txSends EXCEPT ![w] = <<>>]
    /\ lostUpserts' = lostUpserts \union InFlight(upsertSends[w])
          \union (IF step[w] = "inserted" THEN ActiveOf(w) ELSE {})
    /\ upsertSends' = [upsertSends EXCEPT ![w] = <<>>]
    /\ orphans' = IF step[w] = "idle" THEN orphans ELSE Append(orphans, held[w])
    /\ step' = [step EXCEPT ![w] = "idle"]
    /\ held' = [held EXCEPT ![w] = NoJob]
    /\ UNCHANGED <<blockQueue, failedBlocks, stored, txListQueue, proposerQueue,
                   proposed, unproposed, emits, writeErrors>>

\* Bull's check for stalled jobs finds one: it goes back to the wait list the
\* first time and to the failed set the second.
RecoverStalled ==
    /\ orphans # <<>>
    /\ orphans' = Tail(orphans)
    /\ IF Head(orphans).stalled
       THEN /\ failedBlocks' = failedBlocks \union {Head(orphans).data}
            /\ UNCHANGED blockQueue
       ELSE /\ blockQueue' = Requeue(blockQueue, Head(orphans))
            /\ UNCHANGED failedBlocks
    /\ UNCHANGED <<step, held, stored, txSends, txListQueue, upsertSends,
                   proposerQueue, proposed, unproposed, emits, lostTxLists,
                   lostUpserts, handlerCrashes, writeErrors>>

HandleStep(w) ==
    \/ FindBlock(w)
    \/ CreateTxJob(w)
    \/ InsertBlock(w)
    \/ HandleBlockFails(w)
    \/ EmitUpserted(w)
    \/ CompleteBlock(w)
    \/ TxJobLands(w)
    \/ ProposerJobLands(w)
    \/ CrashHandler(w)

HandleNext ==
    \/ \E w \in Workers : HandleStep(w)
    \/ RecoverStalled
    \/ AddProposer
    \/ SkipProposer

\* A live worker takes the next job and carries on with the one it has; an
\* insert that can succeed is not refused for ever.
HandleFairness ==
    /\ \A w \in Workers :
          /\ WF_handleVars(FindBlock(w))
          /\ WF_handleVars(CreateTxJob(w))
          /\ WF_handleVars(InsertBlock(w) \/ HandleBlockFails(w))
          /\ WF_handleVars(EmitUpserted(w))
          /\ WF_handleVars(CompleteBlock(w))
          /\ WF_handleVars(TxJobLands(w))
          /\ WF_handleVars(ProposerJobLands(w))
    /\ WF_handleVars(RecoverStalled)
    /\ WF_handleVars(AddProposer \/ SkipProposer)
=============================================================================
