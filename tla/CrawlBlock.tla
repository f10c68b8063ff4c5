----------------------------- MODULE CrawlBlock -----------------------------
(* services/crawl-block/crawl-block.service.ts: the repeated job crawl.block *)
(* reads the head of the chain, fetches the next NUMBER_OF_BLOCK_PER_CALL    *)
(* blocks, creates one handle.block job per block and moves its cursor.      *)
(*                                                                           *)
(* Every job starts with reading the cursor, REDIS_KEY_CURRENT_BLOCK, into   *)
(* _currentBlock.  Neither the createJob calls nor the write of the cursor   *)
(* are awaited, and they travel on two connections, so a crash can keep one  *)
(* and lose the other.                                                       *)
EXTENDS BlockQueue, Integers

CONSTANTS
    StartBlock,     \* START_BLOCK of the configuration
    BlocksPerCall,  \* NUMBER_OF_BLOCK_PER_CALL
    MaxHeight,      \* bound: the chain stops growing here
    MaxCrashes      \* bound: crashes of the crawler process

ASSUME CrawlBlockAssumption ==
    /\ StartBlock \in Nat
    /\ BlocksPerCall \in Nat \ {0}
    /\ MaxHeight \in Nat \ {0}
    /\ MaxCrashes \in Nat

VARIABLES
    chainHeight,        \* height of the chain (external)
    latestBlockRedis,   \* REDIS_KEY_LATEST_BLOCK
    currentBlockRedis,  \* REDIS_KEY_CURRENT_BLOCK, or Unset
    currentBlock,       \* this._currentBlock
    crawlStep,          \* where the crawl.block job is
    latestSeen,         \* latestBlockRedis as the job read it
    endBlock,           \* endBlock of the running job
    cursorWrite,        \* value of the `set` in flight, or Unset
    blockSends,         \* handle.block jobs created but not in Redis yet
    lostBlocks,         \* history: heights whose createJob died with the process
    crashes             \* crashes so far

crawlVars == <<chainHeight, latestBlockRedis, currentBlockRedis, currentBlock,
               crawlStep, latestSeen, endBlock, cursorWrite, blockSends,
               blockQueue, lostBlocks, crashes>>

\* No value: the key is missing, or no write is in flight.
Unset == -1

Height == 1 .. MaxHeight

MaxOf(a, b) == IF a >= b THEN a ELSE b
MinOf(a, b) == IF a <= b THEN a ELSE b

\* The cursor a starting job finds: initEnv.
InitialBlock(redis) == IF redis # Unset THEN redis ELSE StartBlock

CrawlTypeOK ==
    /\ chainHeight \in Height
    /\ latestBlockRedis \in 0 .. MaxHeight
    /\ currentBlockRedis \in Nat \union {Unset}
    /\ currentBlock \in Nat
    /\ crawlStep \in {"idle", "latest", "fetch"}
    /\ latestSeen \in 0 .. MaxHeight
    /\ endBlock \in 0 .. MaxHeight
    /\ cursorWrite \in Height \union {Unset}
    /\ blockSends \in Seq(Height)
    /\ lostBlocks \in SUBSET Height
    /\ crashes \in Nat

CrawlInit ==
    /\ chainHeight \in Height
    /\ latestBlockRedis = 0
    /\ currentBlockRedis = Unset
    /\ currentBlock = 0
    /\ crawlStep = "idle"
    /\ latestSeen = 0
    /\ endBlock = 0
    /\ cursorWrite = Unset
    /\ blockSends = <<>>
    /\ blockQueue = <<>>
    /\ lostBlocks = {}
    /\ crashes = 0

\* The chain makes a block.
ChainGrows ==
    /\ chainHeight < MaxHeight
    /\ chainHeight' = chainHeight + 1
    /\ UNCHANGED <<latestBlockRedis, currentBlockRedis, currentBlock, crawlStep,
                   latestSeen, endBlock, cursorWrite, blockSends, blockQueue,
                   lostBlocks, crashes>>

\* Variant for the mutants: a job goes on from the cursor in memory.
ReadLatestBlockInMemory ==
    /\ crawlStep = "idle"
    /\ cursorWrite = Unset
    /\ latestSeen' = latestBlockRedis
    /\ crawlStep' = "latest"
    /\ UNCHANGED <<chainHeight, latestBlockRedis, currentBlockRedis, currentBlock,
                   endBlock, cursorWrite, blockSends, blockQueue, lostBlocks, crashes>>

\* The job starts: initEnv reads the cursor and handleJobCrawlBlock the latest
\* block.  The previous job's write of the cursor is on the same connection, so
\* both answers come after it.
ReadLatestBlock ==
    /\ crawlStep = "idle"
    /\ cursorWrite = Unset
    /\ currentBlock' = InitialBlock(currentBlockRedis)
    /\ latestSeen' = latestBlockRedis
    /\ crawlStep' = "latest"
    /\ UNCHANGED <<chainHeight, latestBlockRedis, currentBlockRedis, endBlock,
                   cursorWrite, blockSends, blockQueue, lostBlocks, crashes>>

\* Variant for the mutants: endBlock is clamped one above the head.
GetLatestBlockPastHead(network) ==
    /\ crawlStep = "latest"
    /\ latestBlockRedis' = IF network > latestSeen THEN network ELSE latestBlockRedis
    /\ endBlock' = MinOf(currentBlock + BlocksPerCall, MaxOf(network, latestSeen) + 1)
    /\ crawlStep' = "fetch"
    /\ UNCHANGED <<chainHeight, currentBlockRedis, currentBlock, latestSeen,
                   cursorWrite, blockSends, blockQueue, lostBlocks, crashes>>

\* The network answers with the height of one of its servers, which may lag.
GetLatestBlock(network) ==
    /\ crawlStep = "latest"
    /\ latestBlockRedis' = IF network > latestSeen THEN network ELSE latestBlockRedis
    /\ endBlock' = MinOf(currentBlock + BlocksPerCall, MaxOf(network, latestSeen))
    /\ crawlStep' = "fetch"
    /\ UNCHANGED <<chainHeight, currentBlockRedis, currentBlock, latestSeen,
                   cursorWrite, blockSends, blockQueue, lostBlocks, crashes>>

\* Variant for the mutants: the last block of the range gets no job.
FetchBlocksButLast ==
    /\ crawlStep = "fetch"
    /\ blockSends' = blockSends \o
           [i \in 1 .. MaxOf(endBlock - currentBlock - 1, 0) |-> currentBlock + i]
    /\ IF currentBlock < endBlock
       THEN /\ currentBlock' = endBlock
            /\ cursorWrite' = endBlock
       ELSE UNCHANGED <<currentBlock, cursorWrite>>
    /\ crawlStep' = "idle"
    /\ latestSeen' = 0
    /\ endBlock' = 0
    /\ UNCHANGED <<chainHeight, latestBlockRedis, currentBlockRedis, blockQueue,
                   lostBlocks, crashes>>

\* All blocks came: create their jobs and move the cursor, awaiting nothing.
FetchBlocks ==
    /\ crawlStep = "fetch"
    /\ blockSends' = blockSends \o
           [i \in 1 .. MaxOf(endBlock - currentBlock, 0) |-> currentBlock + i]
    /\ IF currentBlock < endBlock
       THEN /\ currentBlock' = endBlock
            /\ cursorWrite' = endBlock
       ELSE UNCHANGED <<currentBlock, cursorWrite>>
    /\ crawlStep' = "idle"
    /\ latestSeen' = 0
    /\ endBlock' = 0
    /\ UNCHANGED <<chainHeight, latestBlockRedis, currentBlockRedis, blockQueue,
                   lostBlocks, crashes>>

\* Variant for the mutants: a failing fetch moves the cursor all the same.
CrawlFailsForward ==
    /\ crawlStep = "fetch"
    /\ currentBlock < endBlock
    /\ currentBlock' = endBlock
    /\ cursorWrite' = endBlock
    /\ crawlStep' = "idle"
    /\ latestSeen' = 0
    /\ endBlock' = 0
    /\ UNCHANGED <<chainHeight, latestBlockRedis, currentBlockRedis, blockSends,
                   blockQueue, lostBlocks, crashes>>

\* A call to the network gave null: the job throws and nothing has moved.
CrawlFails ==
    /\ crawlStep \in {"latest", "fetch"}
    /\ crawlStep' = "idle"
    /\ latestSeen' = 0
    /\ endBlock' = 0
    /\ UNCHANGED <<chainHeight, latestBlockRedis, currentBlockRedis, currentBlock,
                   cursorWrite, blockSends, blockQueue, lostBlocks, crashes>>

\* The write of the cursor reaches Redis.
CursorLands ==
    /\ cursorWrite # Unset
    /\ currentBlockRedis' = cursorWrite
    /\ cursorWrite' = Unset
    /\ UNCHANGED <<chainHeight, latestBlockRedis, currentBlock, crawlStep, latestSeen,
                   endBlock, blockSends, blockQueue, lostBlocks, crashes>>

\* The oldest createJob call reaches Redis.
BlockJobLands ==
    /\ blockSends # <<>>
    /\ blockQueue' = Add(blockQueue, Head(blockSends))
    /\ blockSends' = Tail(blockSends)
    /\ UNCHANGED <<chainHeight, latestBlockRedis, currentBlockRedis, currentBlock,
                   crawlStep, latestSeen, endBlock, cursorWrite, lostBlocks, crashes>>

\* The process dies with what it had in flight; the next job starts at initEnv.
CrashCrawler ==
    /\ crashes < MaxCrashes
    /\ crashes' = crashes + 1
    /\ lostBlocks' = lostBlocks \union InFlight(blockSends)
    /\ blockSends' = <<>>
    /\ cursorWrite' = Unset
    /\ currentBlock' = 0
    /\ crawlStep' = "idle"
    /\ latestSeen' = 0
    /\ endBlock' = 0
    /\ UNCHANGED <<chainHeight, latestBlockRedis, currentBlockRedis, blockQueue>>

CrawlNext ==
    \/ ChainGrows
    \/ ReadLatestBlock
    \/ \E network \in 1 .. chainHeight : GetLatestBlock(network)
    \/ FetchBlocks
    \/ CrawlFails
    \/ CursorLands
    \/ BlockJobLands
    \/ CrashCrawler

\* The repeated job runs for ever, sends are delivered, and the network answers
\* in the end: its head is the chain's, and its failures do not last.
CrawlFairness ==
    /\ WF_crawlVars(ReadLatestBlock)
    /\ SF_crawlVars(GetLatestBlock(chainHeight))
    /\ SF_crawlVars(FetchBlocks)
    /\ WF_crawlVars(CursorLands)
    /\ WF_crawlVars(BlockJobLands)
=============================================================================
