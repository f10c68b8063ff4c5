---------------------------- MODULE BlockPipeline ----------------------------
(* The crawler and the block handlers together: they share the queue          *)
(* handle.block and nothing else.                                             *)
EXTENDS CrawlBlock, HandleBlock

\* What the crawler has to itself.
crawlOwnVars == <<chainHeight, latestBlockRedis, currentBlockRedis, currentBlock,
                  crawlStep, latestSeen, endBlock, cursorWrite, blockSends,
                  lostBlocks, crashes>>

vars == <<crawlOwnVars, blockQueue, txListQueue, handleOwnVars>>

\* The blocks of the handlers are the heights of the chain.
ASSUME PipelineAssumption == Blocks = Height

Init == CrawlInit /\ HandleInit

Next ==
    \/ CrawlNext /\ UNCHANGED <<txListQueue, handleOwnVars>>
    \/ HandleNext /\ UNCHANGED crawlOwnVars

Spec == Init /\ [][Next]_vars

FairSpec == Spec /\ CrawlFairness /\ HandleFairness

-----------------------------------------------------------------------------
\* Every variable has its type.
TypeOK ==
    /\ CrawlTypeOK
    /\ HandleTypeOK
    /\ blockQueue \in Seq(JobOf(Height))
    /\ txListQueue \in Seq(JobOf(Height))

\* Blocks a worker has as its active job.
Active == UNION {ActiveOf(w) : w \in Workers}

\* Blocks some queue, process or worker is responsible for.
Pending ==
    InFlight(blockSends) \union Waiting(blockQueue) \union Active \union Waiting(orphans)

\* The height the next job of the crawler resumes from.
ResumeFrom == InitialBlock(currentBlockRedis)

\* The cursor in Redis passes a block (crawl-block.service.ts:117-119) only if
\* the block is on its way to the database or in it, or the crawler's process
\* or the block's job is known to have died.
NoSilentLoss ==
    \A h \in (StartBlock + 1) .. ResumeFrom :
        h \in Pending \union stored \union failedBlocks \union lostBlocks

\* The cursor, and every block that is queued, stays within the chain, though
\* the head is read from servers that may lag (crawl-block.service.ts:84-97).
WithinChain ==
    /\ ResumeFrom <= MaxOf(StartBlock, chainHeight)
    /\ \A h \in Pending : h <= chainHeight

\* A block is announced at most once, however often its job runs and however
\* many workers hold a copy of it (handle-block.service.ts:47-76).
AnnouncedOnce == \A b \in Blocks : emits[b] <= 1

\* A stored block was announced, unless the process died with the event.
StoredIsAnnounced ==
    \A b \in stored :
        \/ emits[b] > 0
        \/ \E w \in Workers : step[w] = "inserted" /\ held[w].data = b
        \/ b \in lostUpserts

\* The transactions of a block are handed over before the block is stored, and
\* again when its job runs again (handle-block.service.ts:53-70): a stored block
\* has handed over its own, or a job that will is waiting.
StoredHandedTxs ==
    \A b \in stored \intersect BlocksWithTxs :
        \/ b \in Waiting(txListQueue)
        \/ \E w \in Workers : b \in InFlight(txSends[w])
        \/ \E w \in Workers : b \in ActiveOf(w) /\ step[w] = "found"
        \/ b \in Waiting(blockQueue) \union Waiting(orphans)
        \/ b \in lostTxLists \union failedBlocks

\* The cursor in Redis never goes back, across restarts too: every job reads it
\* before it writes it (crawl-block.service.ts:41-42).
CursorNeverGoesBack == [][currentBlockRedis' >= currentBlockRedis]_vars

\* The pipeline does what the ledger promises.
Ledger == INSTANCE BlockLedger WITH
    Start <- StartBlock,
    Block <- Height,
    cursor <- ResumeFrom,
    pending <- Pending,
    settled <- stored,
    writtenOff <- failedBlocks \union lostBlocks

ImplementsLedger == Ledger!LedgerSpec

\* Every block the chain makes above START_BLOCK is stored in the end, or its
\* job failed or died with the crawler.
EveryBlockSettles ==
    \A h \in Height :
        h > StartBlock /\ h <= chainHeight
            ~> h \in stored \union failedBlocks \union lostBlocks

\* Every stored block gets its proposer, or the add-proposer job ended without
\* writing one, or the announcement died with a process.
EveryBlockGetsProposer ==
    \A h \in Height :
        h \in stored ~> h \in proposed \union unproposed \union lostUpserts

\* crawl-block.service.ts:52 calls the cursor that a restart reads the "handled
\* block": the blocks up to it need not be crawled again.
CursorIsHandled ==
    \A h \in (StartBlock + 1) .. ResumeFrom :
        h \in Pending \union stored \union failedBlocks

-----------------------------------------------------------------------------
(* The inductive strengthening of the invariants above, in named parts.       *)

\* The height the crawler has created the jobs up to.
Claimed == IF cursorWrite # Unset THEN cursorWrite ELSE ResumeFrom

\* How the cursor, its copies and the head of the chain stand to each other.
CursorInv ==
    /\ StartBlock <= ResumeFrom
    /\ crawlStep # "idle" => currentBlock = ResumeFrom /\ cursorWrite = Unset
    /\ cursorWrite # Unset => ResumeFrom < cursorWrite /\ cursorWrite <= chainHeight
    /\ latestBlockRedis <= chainHeight
    /\ latestSeen <= chainHeight
    /\ endBlock <= chainHeight
    /\ WithinChain

\* NoSilentLoss up to the cursor whose write is in flight.
OwedInv ==
    \A h \in (StartBlock + 1) .. Claimed :
        h \in Pending \union stored \union failedBlocks \union lostBlocks

\* A worker past the insert, or that found its block, holds a stored block.
HoldInv ==
    \A w \in Workers :
        step[w] \in {"found", "inserted", "done"} => held[w].data \in stored

\* Only the worker that inserted a block announces it, and only once.
AnnounceInv ==
    /\ \A b \in Blocks : emits[b] > 0 => b \in stored
    /\ \A w \in Workers :
          step[w] = "inserted" => held[w].data \in stored /\ emits[held[w].data] = 0
    /\ \A v, w \in Workers :
          step[v] = "inserted" /\ step[w] = "inserted" /\ held[v].data = held[w].data
              => v = w

\* A worker past its createJob call has handed over its block's transactions.
HandedInv ==
    \A w \in Workers :
        step[w] \in {"insert", "inserted", "done"} /\ held[w].data \in BlocksWithTxs
            => held[w].data \in Waiting(txListQueue) \union InFlight(txSends[w])
=============================================================================
