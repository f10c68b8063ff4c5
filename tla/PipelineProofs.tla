----------------------------- MODULE PipelineProofs ----------------------------
(* Theorems about the block pipeline, for every chain, every number of        *)
(* workers, every batch size and every number of failures; then about that    *)
(* of the transactions, for every set of them, of workers and of downstream   *)
(* queues.  The two are specifications of their own.                          *)
EXTENDS BlockPipeline, TxPipeline, BullQueueProofs

-----------------------------------------------------------------------------
(* Type correctness.                                                          *)

LEMMA InitTypeOK == Init => TypeOK
<1> SUFFICES ASSUME Init PROVE TypeOK
  OBVIOUS
<1> USE CrawlBlockAssumption, HandleBlockAssumption, PipelineAssumption
<1>1. CrawlTypeOK
  BY EmptyLemma DEF Init, CrawlInit, CrawlTypeOK, Height, InitialBlock, Unset
<1>2. HandleTypeOK
  BY EmptyLemma
  DEF Init, HandleInit, HandleTypeOK, NoJob, NewJob, JobOf
<1> QED
  BY <1>1, <1>2, EmptyLemma DEF TypeOK, Init, CrawlInit, HandleInit

LEMMA CrawlTypeStep == TypeOK /\ CrawlNext => CrawlTypeOK' /\ (blockQueue \in Seq(JobOf(Height)))'
<1> SUFFICES ASSUME TypeOK, CrawlNext
             PROVE  CrawlTypeOK' /\ (blockQueue \in Seq(JobOf(Height)))'
  OBVIOUS
<1> USE CrawlBlockAssumption DEF TypeOK, CrawlTypeOK, Height, Unset
<1>1. CASE ChainGrows
  BY <1>1 DEF ChainGrows
<1>2. CASE ReadLatestBlock
  <2>1. (currentBlock \in Nat)'
    BY <1>2 DEF ReadLatestBlock, InitialBlock
  <2> QED
    BY <1>2, <2>1 DEF ReadLatestBlock
<1>3. ASSUME NEW network \in 1 .. chainHeight, GetLatestBlock(network)
      PROVE  CrawlTypeOK' /\ (blockQueue \in Seq(JobOf(Height)))'
  BY <1>3 DEF GetLatestBlock, MinOf, MaxOf
<1>4. CASE FetchBlocks
  <2> DEFINE n == MaxOf(endBlock - currentBlock, 0)
             new == [i \in 1 .. n |-> currentBlock + i]
  <2>1. n \in Nat /\ (\A i \in 1 .. n : currentBlock + i \in Height)
    BY DEF MaxOf
  <2>2. new \in Seq(Height)
    <3>1. new \in [1 .. n -> Height]
      BY <2>1
    <3> HIDE DEF new, n
    <3> QED
      BY <2>1, <3>1, ListLemma
  <2>3. blockSends \o new \in Seq(Height)
    BY <2>2
  <2>4. blockSends' = blockSends \o new
    BY <1>4 DEF FetchBlocks
  <2> HIDE DEF new, n
  <2>5. (currentBlock \in Nat)' /\ (cursorWrite \in Height \union {Unset})'
    BY <1>4 DEF FetchBlocks
  <2>6. (blockSends \in Seq(Height))'
    BY <2>3, <2>4
  <2>7. /\ crawlStep' = "idle" /\ latestSeen' = 0 /\ endBlock' = 0
        /\ UNCHANGED <<chainHeight, latestBlockRedis, currentBlockRedis, blockQueue,
                       lostBlocks, crashes>>
    BY <1>4 DEF FetchBlocks
  <2> QED
    BY <2>5, <2>6, <2>7
<1>5. CASE CrawlFails
  BY <1>5 DEF CrawlFails
<1>6. CASE CursorLands
  BY <1>6 DEF CursorLands
<1>7. CASE BlockJobLands
  <2>1. Head(blockSends) \in Height /\ Tail(blockSends) \in Seq(Height)
    BY <1>7, ArriveLemma DEF BlockJobLands
  <2>2. Add(blockQueue, Head(blockSends)) \in Seq(JobOf(Height))
    BY <2>1, AddLemma
  <2> QED
    BY <1>7, <2>1, <2>2 DEF BlockJobLands
<1>8. CASE CrashCrawler
  <2>1. InFlight(blockSends) \subseteq Height
    BY DEF InFlight
  <2>2. (blockSends \in Seq(Height))' /\ (lostBlocks \in SUBSET Height)'
    BY <1>8, <2>1, EmptyLemma DEF CrashCrawler
  <2>3. (currentBlock \in Nat)'
    BY <1>8 DEF CrashCrawler
  <2> QED
    BY <1>8, <2>2, <2>3 DEF CrashCrawler
<1> QED
  BY <1>1, <1>2, <1>3, <1>4, <1>5, <1>6, <1>7, <1>8 DEF CrawlNext

LEMMA HandleTypeStep ==
    TypeOK /\ HandleNext
        => HandleTypeOK' /\ (blockQueue \in Seq(JobOf(Height)))'
                         /\ (txListQueue \in Seq(JobOf(Height)))'
<1> DEFINE Good == /\ HandleTypeOK
                   /\ blockQueue \in Seq(JobOf(Height))
                   /\ txListQueue \in Seq(JobOf(Height))
<1> SUFFICES ASSUME TypeOK, HandleNext
             PROVE  Good'
  OBVIOUS
<1> USE HandleBlockAssumption, PipelineAssumption DEF TypeOK
<1>0. 0 \in Blocks \union {0} /\ NoJob \in JobOf(Blocks \union {0})
      /\ JobOf(Blocks) \subseteq JobOf(Blocks \union {0})
  BY DEF NoJob, NewJob, JobOf
<1>1. ASSUME NEW w \in Workers, FindBlock(w)
      PROVE  Good'
  <2>1. /\ Head(blockQueue) \in JobOf(Height)
        /\ Tail(blockQueue) \in Seq(JobOf(Height))
    BY <1>1, TakeLemma DEF FindBlock
  <2> QED
    BY <1>0, <1>1, <2>1 DEF FindBlock, HandleTypeOK
<1>2. ASSUME NEW w \in Workers, CreateTxJob(w)
      PROVE  Good'
  <2>1. held[w] \in JobOf(Blocks) /\ held[w].data \in Blocks
    BY <1>2 DEF CreateTxJob, HandleTypeOK, JobOf
  <2>2. Append(txSends[w], held[w].data) \in Seq(Blocks)
    BY <2>1, SendOneLemma DEF HandleTypeOK
  <2> QED
    BY <1>2, <2>1, <2>2 DEF CreateTxJob, HandleTypeOK
<1>3. ASSUME NEW w \in Workers, InsertBlock(w)
      PROVE  Good'
  <2>1. held[w].data \in Blocks
    BY <1>3 DEF InsertBlock, HandleTypeOK, JobOf
  <2> QED
    BY <1>3, <2>1 DEF InsertBlock, HandleTypeOK
<1>4. ASSUME NEW w \in Workers, HandleBlockFails(w)
      PROVE  Good'
  <2>1. held[w].data \in Blocks
    BY <1>4 DEF HandleBlockFails, HandleTypeOK, JobOf
  <2>2. writeErrors' \in Nat
    BY <1>4 DEF HandleBlockFails, HandleTypeOK
  <2> QED
    BY <1>0, <1>4, <2>1, <2>2 DEF HandleBlockFails, HandleTypeOK
<1>5. ASSUME NEW w \in Workers, EmitUpserted(w)
      PROVE  Good'
  <2>1. held[w].data \in Blocks
    BY <1>5 DEF EmitUpserted, HandleTypeOK, JobOf
  <2>2. Append(upsertSends[w], held[w].data) \in Seq(Blocks)
    BY <2>1, SendOneLemma DEF HandleTypeOK
  <2> QED
    BY <1>5, <2>1, <2>2 DEF EmitUpserted, HandleTypeOK
<1>6. ASSUME NEW w \in Workers, CompleteBlock(w)
      PROVE  Good'
  BY <1>0, <1>6 DEF CompleteBlock, HandleTypeOK
<1>7. ASSUME NEW w \in Workers, TxJobLands(w)
      PROVE  Good'
  <2>1. Head(txSends[w]) \in Blocks /\ Tail(txSends[w]) \in Seq(Blocks)
    BY <1>7, ArriveLemma DEF TxJobLands, HandleTypeOK
  <2>2. Add(txListQueue, Head(txSends[w])) \in Seq(JobOf(Height))
    BY <2>1, AddLemma
  <2> QED
    BY <1>7, <2>1, <2>2 DEF TxJobLands, HandleTypeOK
<1>8. ASSUME NEW w \in Workers, ProposerJobLands(w)
      PROVE  Good'
  <2>1. Head(upsertSends[w]) \in Blocks /\ Tail(upsertSends[w]) \in Seq(Blocks)
    BY <1>8, ArriveLemma DEF ProposerJobLands, HandleTypeOK
  <2>2. Add(proposerQueue, Head(upsertSends[w])) \in Seq(JobOf(Blocks))
    BY <2>1, AddLemma DEF HandleTypeOK
  <2> QED
    BY <1>8, <2>1, <2>2 DEF ProposerJobLands, HandleTypeOK
<1>9. ASSUME NEW w \in Workers, CrashHandler(w)
      PROVE  Good'
  <2>1. ActiveOf(w) \subseteq Blocks
    BY DEF ActiveOf, HandleTypeOK, JobOf
  <2>2. InFlight(txSends[w]) \subseteq Blocks /\ InFlight(upsertSends[w]) \subseteq Blocks
    BY DEF InFlight, HandleTypeOK
  <2>3. orphans' \in Seq(JobOf(Blocks))
    BY <1>9 DEF CrashHandler, HandleTypeOK
  <2>4. /\ step' \in [Workers ->
                {"idle", "found", "missing", "insert", "inserted", "done"}]
        /\ held' \in [Workers -> JobOf(Blocks \union {0})]
        /\ \A v \in Workers : step'[v] # "idle" => held'[v] \in JobOf(Blocks)
    BY <1>0, <1>9 DEF CrashHandler, HandleTypeOK
  <2>5. /\ txSends' \in [Workers -> Seq(Blocks)]
        /\ upsertSends' \in [Workers -> Seq(Blocks)]
    BY <1>9, EmptyLemma DEF CrashHandler, HandleTypeOK
  <2>6. lostTxLists' \in SUBSET Blocks /\ lostUpserts' \in SUBSET Blocks
    BY <1>9, <2>1, <2>2 DEF CrashHandler, HandleTypeOK
  <2>7. /\ handlerCrashes' \in Nat
        /\ UNCHANGED <<blockQueue, txListQueue, failedBlocks, stored, proposerQueue,
                       proposed, unproposed, emits, writeErrors>>
    BY <1>9 DEF CrashHandler, HandleTypeOK
  <2> QED
    BY <2>3, <2>4, <2>5, <2>6, <2>7 DEF HandleTypeOK
<1>10. CASE RecoverStalled
  <2>1. /\ Head(orphans) \in JobOf(Blocks) /\ Head(orphans).data \in Blocks
        /\ Tail(orphans) \in Seq(JobOf(Blocks))
    BY <1>10, TakeLemma DEF RecoverStalled, HandleTypeOK
  <2>2. Requeue(blockQueue, Head(orphans)) \in Seq(JobOf(Height))
    BY <2>1, RequeueLemma
  <2> QED
    BY <1>10, <2>1, <2>2 DEF RecoverStalled, HandleTypeOK
<1>11. CASE AddProposer \/ SkipProposer
  <2>1. /\ Head(proposerQueue).data \in Blocks
        /\ Tail(proposerQueue) \in Seq(JobOf(Blocks))
    BY <1>11, TakeLemma DEF AddProposer, SkipProposer, HandleTypeOK
  <2>2. CASE AddProposer
    BY <2>1, <2>2 DEF AddProposer, HandleTypeOK
  <2>3. CASE SkipProposer
    <3>1. writeErrors' \in Nat
      BY <2>3 DEF SkipProposer, HandleTypeOK
    <3> QED
      BY <2>1, <2>3, <3>1 DEF SkipProposer, HandleTypeOK
  <2> QED
    BY <1>11, <2>2, <2>3
<1> QED
  BY <1>1, <1>2, <1>3, <1>4, <1>5, <1>6, <1>7, <1>8, <1>9, <1>10, <1>11
  DEF HandleNext, HandleStep

LEMMA NextTypeOK == TypeOK /\ [Next]_vars => TypeOK'
<1> SUFFICES ASSUME TypeOK, [Next]_vars PROVE TypeOK'
  OBVIOUS
<1>1. CASE CrawlNext /\ UNCHANGED <<txListQueue, handleOwnVars>>
  <2>1. HandleTypeOK'
    BY <1>1 DEF TypeOK, HandleTypeOK, handleOwnVars
  <2> QED
    BY <1>1, <2>1, CrawlTypeStep DEF TypeOK
<1>2. CASE HandleNext /\ UNCHANGED crawlOwnVars
  <2>1. CrawlTypeOK'
    BY <1>2 DEF TypeOK, CrawlTypeOK, crawlOwnVars
  <2> QED
    BY <1>2, <2>1, HandleTypeStep DEF TypeOK
<1>3. CASE UNCHANGED vars
  BY <1>3 DEF TypeOK, CrawlTypeOK, HandleTypeOK, vars, crawlOwnVars, handleOwnVars
<1> QED
  BY <1>1, <1>2, <1>3 DEF Next

\* Every variable keeps its type: the queues hold blocks of the chain only, and
\* only stored blocks have a proposer.
THEOREM TypeCorrect == Spec => []TypeOK
<1> QED
  BY InitTypeOK, NextTypeOK, PTL DEF Spec

-----------------------------------------------------------------------------
(* How the steps move the blocks some part of the pipeline is responsible for. *)

\* The blocks of the workers other than w.
Others(w) == UNION {ActiveOf(v) : v \in Workers \ {w}}

\* A step of worker w leaves the others' jobs alone.
LEMMA ActiveLemma ==
    ASSUME NEW w \in Workers,
           \A v \in Workers \ {w} : step'[v] = step[v] /\ held'[v] = held[v]
    PROVE  /\ Active = Others(w) \union ActiveOf(w)
           /\ Active' = Others(w) \union ActiveOf(w)'
<1>1. Active = Others(w) \union ActiveOf(w)
  BY DEF Active, Others
<1>2. \A v \in Workers \ {w} : ActiveOf(v)' = ActiveOf(v)
  BY DEF ActiveOf
<1>3. Active' = UNION {ActiveOf(v)' : v \in Workers}
  BY DEF Active
<1> QED
  BY <1>1, <1>2, <1>3 DEF Others

\* What is pending are blocks of the chain.
LEMMA PendingType == TypeOK => Pending \subseteq Height
<1> SUFFICES ASSUME TypeOK PROVE Pending \subseteq Height
  OBVIOUS
<1>1. InFlight(blockSends) \subseteq Height
  BY DEF TypeOK, CrawlTypeOK, InFlight
<1>2. Waiting(blockQueue) \subseteq Height
  BY WaitingType DEF TypeOK
<1>3. Waiting(orphans) \subseteq Height
  BY WaitingType, PipelineAssumption DEF TypeOK, HandleTypeOK
<1>4. Active \subseteq Height
  BY PipelineAssumption DEF TypeOK, HandleTypeOK, Active, ActiveOf, JobOf
<1> QED
  BY <1>1, <1>2, <1>3, <1>4 DEF Pending

\* The crawler adds the blocks it fetched; nothing else of its own changes what
\* is pending, except that a crash takes the jobs that were in flight.
LEMMA CrawlPending ==
    ASSUME TypeOK, CrawlNext, UNCHANGED <<txListQueue, handleOwnVars>>
    PROVE  /\ FetchBlocks => Pending' = Pending \union ((currentBlock + 1) .. endBlock)
           /\ CrashCrawler => /\ Pending' \subseteq Pending
                              /\ Pending \subseteq Pending' \union InFlight(blockSends)
           /\ ~FetchBlocks /\ ~CrashCrawler => Pending' = Pending
<1>1. Active' = Active /\ orphans' = orphans
  BY DEF handleOwnVars, Active, ActiveOf
<1>0. FetchBlocks => ~CrashCrawler
  <2>1. crashes \in Nat
    BY DEF TypeOK, CrawlTypeOK
  <2>2. FetchBlocks => crashes' = crashes
    BY DEF FetchBlocks
  <2>3. CrashCrawler => crashes' = crashes + 1
    BY DEF CrashCrawler
  <2> QED
    BY <2>1, <2>2, <2>3
<1>2. CASE FetchBlocks
  <2> DEFINE n == MaxOf(endBlock - currentBlock, 0)
             new == [i \in 1 .. n |-> currentBlock + i]
  <2>1. n \in Nat /\ currentBlock \in Nat /\ endBlock \in Nat
    BY DEF MaxOf, TypeOK, CrawlTypeOK
  <2>2. new \in Seq(Height) /\ InFlight(new) = {new[i] : i \in 1 .. n}
    <3>1. new \in [1 .. n -> Height]
      BY <2>1, CrawlBlockAssumption DEF TypeOK, CrawlTypeOK, Height, MaxOf
    <3> HIDE DEF new, n
    <3> QED
      BY <2>1, <3>1, ListLemma
  <2>3. {new[i] : i \in 1 .. n} = (currentBlock + 1) .. endBlock
    <3>1. ASSUME NEW h \in (currentBlock + 1) .. endBlock
          PROVE  h \in {new[i] : i \in 1 .. n}
      <4>1. h - currentBlock \in 1 .. n /\ currentBlock + (h - currentBlock) = h
        BY <2>1 DEF MaxOf
      <4> QED
        BY <4>1
    <3>2. ASSUME NEW i \in 1 .. n
          PROVE  currentBlock + i \in (currentBlock + 1) .. endBlock
      BY <2>1 DEF MaxOf
    <3> QED
      BY <3>1, <3>2
  <2>4. blockSends \in Seq(Height)
    BY DEF TypeOK, CrawlTypeOK
  <2>5. blockSends' = blockSends \o new /\ blockQueue' = blockQueue
    BY <1>2 DEF FetchBlocks
  <2> HIDE DEF new, n
  <2>6. InFlight(blockSends') = InFlight(blockSends) \union ((currentBlock + 1) .. endBlock)
    BY <2>2, <2>3, <2>4, <2>5, SendLemma
  <2> QED
    BY <1>0, <1>1, <1>2, <2>5, <2>6 DEF Pending
<1>3. CASE CrashCrawler
  <2>1. blockQueue' = blockQueue /\ InFlight(blockSends') = {}
    BY <1>3, EmptyLemma DEF CrashCrawler
  <2> QED
    BY <1>0, <1>1, <1>3, <2>1 DEF Pending
<1>4. CASE BlockJobLands
  <2>1. /\ Head(blockSends) \in Height
        /\ InFlight(blockSends) = {Head(blockSends)} \union InFlight(blockSends')
    BY <1>4, ArriveLemma DEF BlockJobLands, TypeOK, CrawlTypeOK
  <2>2. Waiting(blockQueue') = Waiting(blockQueue) \union {Head(blockSends)}
    BY <1>4, <2>1, AddLemma DEF BlockJobLands, TypeOK
  <2>3. Pending' = Pending
    BY <1>1, <2>1, <2>2 DEF Pending
  <2>4. ~FetchBlocks /\ ~CrashCrawler
    BY <1>4 DEF FetchBlocks, CrashCrawler, BlockJobLands, TypeOK, CrawlTypeOK
  <2> QED
    BY <2>3, <2>4
<1>5. ASSUME ~FetchBlocks, ~CrashCrawler, ~BlockJobLands
      PROVE  Pending' = Pending
  <2>1. UNCHANGED <<blockSends, blockQueue>>
    BY <1>5 DEF CrawlNext, ChainGrows, ReadLatestBlock, GetLatestBlock, CrawlFails,
                CursorLands
  <2> QED
    BY <1>1, <2>1 DEF Pending
<1> QED
  BY <1>2, <1>3, <1>4, <1>5

\* A block leaves the handlers only when it is stored or in the failed set.
LEMMA HandlePending ==
    ASSUME TypeOK, HoldInv, HandleNext, UNCHANGED crawlOwnVars
    PROVE  /\ Pending' \subseteq Pending
           /\ Pending \subseteq Pending' \union stored' \union failedBlocks'
<1> DEFINE Rest == InFlight(blockSends)
           Good == /\ Pending' \subseteq Pending
                   /\ Pending \subseteq Pending' \union stored' \union failedBlocks'
<1> USE PipelineAssumption
<1>0. Rest' = Rest
  BY DEF crawlOwnVars
<1>1. ASSUME NEW w \in Workers, HandleStep(w)
      PROVE  Good
  <2>0. \A v \in Workers \ {w} : step'[v] = step[v] /\ held'[v] = held[v]
    BY <1>1 DEF HandleStep, FindBlock, CreateTxJob, InsertBlock, HandleBlockFails,
                EmitUpserted, CompleteBlock, TxJobLands, ProposerJobLands, CrashHandler,
                TypeOK, HandleTypeOK
  <2>00. /\ Active = Others(w) \union ActiveOf(w)
         /\ Active' = Others(w) \union ActiveOf(w)'
    BY <2>0, ActiveLemma
  <2>1. CASE FindBlock(w)
    <3>1. Waiting(blockQueue) = {Head(blockQueue).data} \union Waiting(blockQueue')
      BY <2>1, TakeLemma DEF FindBlock, TypeOK
    <3>2. ActiveOf(w) = {} /\ ActiveOf(w)' = {Head(blockQueue).data}
      BY <2>1 DEF FindBlock, ActiveOf, TypeOK, HandleTypeOK
    <3>3. orphans' = orphans
      BY <2>1 DEF FindBlock
    <3> QED
      BY <1>0, <2>00, <3>1, <3>2, <3>3 DEF Pending
  <2>2. CASE CreateTxJob(w) \/ InsertBlock(w) \/ EmitUpserted(w)
             \/ TxJobLands(w) \/ ProposerJobLands(w)
    <3>1. ActiveOf(w)' = ActiveOf(w) /\ UNCHANGED <<blockQueue, orphans>>
      BY <2>2 DEF CreateTxJob, InsertBlock, EmitUpserted, TxJobLands, ProposerJobLands,
                  ActiveOf, TypeOK, HandleTypeOK
    <3> QED
      BY <1>0, <2>00, <3>1 DEF Pending
  <2>3. CASE HandleBlockFails(w) \/ CompleteBlock(w)
    <3>1. UNCHANGED <<blockQueue, orphans>>
      BY <2>3 DEF HandleBlockFails, CompleteBlock
    <3>2. ActiveOf(w) = {held[w].data} /\ ActiveOf(w)' = {}
      BY <2>3 DEF HandleBlockFails, CompleteBlock, ActiveOf, TypeOK, HandleTypeOK
    <3>3. held[w].data \in stored' \union failedBlocks'
      BY <2>3 DEF HandleBlockFails, CompleteBlock, HoldInv
    <3> QED
      BY <1>0, <2>00, <3>1, <3>2, <3>3 DEF Pending
  <2>4. CASE CrashHandler(w)
    <3>1. blockQueue' = blockQueue /\ ActiveOf(w)' = {}
      BY <2>4 DEF CrashHandler, ActiveOf, TypeOK, HandleTypeOK
    <3>2. Waiting(orphans') = Waiting(orphans) \union ActiveOf(w)
      <4>1. CASE step[w] = "idle"
        BY <2>4, <4>1 DEF CrashHandler, ActiveOf
      <4>2. CASE step[w] # "idle"
        <5>1. held[w] \in JobOf(Blocks) /\ orphans \in Seq(JobOf(Blocks))
          BY <4>2 DEF TypeOK, HandleTypeOK
        <5>2. orphans' = Append(orphans, held[w]) /\ ActiveOf(w) = {held[w].data}
          BY <2>4, <4>2 DEF CrashHandler, ActiveOf
        <5> QED
          BY <5>1, <5>2, AppendLemma
      <4> QED
        BY <4>1, <4>2
    <3> QED
      BY <1>0, <2>00, <3>1, <3>2 DEF Pending
  <2> QED
    BY <1>1, <2>1, <2>2, <2>3, <2>4 DEF HandleStep
<1>2. CASE RecoverStalled
  <2>1. Active' = Active
    BY <1>2 DEF RecoverStalled, Active, ActiveOf
  <2>2. /\ Head(orphans) \in JobOf(Blocks)
        /\ Waiting(orphans) = {Head(orphans).data} \union Waiting(orphans')
    BY <1>2, TakeLemma DEF RecoverStalled, TypeOK, HandleTypeOK
  <2>3. CASE Head(orphans).stalled
    <3>1. blockQueue' = blockQueue /\ Head(orphans).data \in failedBlocks'
      BY <1>2, <2>3 DEF RecoverStalled
    <3> QED
      BY <1>0, <2>1, <2>2, <3>1 DEF Pending
  <2>4. CASE ~Head(orphans).stalled
    <3>1. Waiting(blockQueue') = Waiting(blockQueue) \union {Head(orphans).data}
      BY <1>2, <2>2, <2>4, RequeueLemma DEF RecoverStalled, TypeOK
    <3> QED
      BY <1>0, <2>1, <2>2, <3>1 DEF Pending
  <2> QED
    BY <2>3, <2>4
<1>3. CASE AddProposer \/ SkipProposer
  <2>1. UNCHANGED <<step, held, blockQueue, orphans>>
    BY <1>3 DEF AddProposer, SkipProposer
  <2>2. Active' = Active
    BY <2>1 DEF Active, ActiveOf
  <2> QED
    BY <1>0, <2>1, <2>2 DEF Pending
<1> QED
  BY <1>1, <1>2, <1>3 DEF HandleNext

-----------------------------------------------------------------------------
(* The cursors: what is taken over, and that none of it is forgotten.         *)

LedgerInv == TypeOK /\ CursorInv /\ OwedInv /\ HoldInv

LEMMA InitLedgerInv == Init => LedgerInv
<1> SUFFICES ASSUME Init PROVE LedgerInv
  OBVIOUS
<1> USE CrawlBlockAssumption
<1>1. TypeOK
  BY InitTypeOK
<1>2. Pending = {}
  BY EmptyLemma DEF Init, CrawlInit, HandleInit, Pending, Active, ActiveOf
<1>3. CursorInv
  BY <1>2 DEF Init, CrawlInit, CursorInv, WithinChain, ResumeFrom, InitialBlock, Unset,
              MaxOf, Height
<1>4. OwedInv
  BY DEF Init, CrawlInit, OwedInv, Claimed, ResumeFrom, InitialBlock, Unset
<1>5. HoldInv
  BY DEF Init, HandleInit, HoldInv
<1> QED
  BY <1>1, <1>3, <1>4, <1>5 DEF LedgerInv

LEMMA NextCursorInv ==
    TypeOK /\ CursorInv /\ HoldInv /\ [Next]_vars => CursorInv'
<1> SUFFICES ASSUME TypeOK, CursorInv, HoldInv, [Next]_vars
             PROVE  CursorInv'
  OBVIOUS
<1> USE CrawlBlockAssumption
<1>1. CASE CrawlNext /\ UNCHANGED <<txListQueue, handleOwnVars>>
  <2>0. /\ FetchBlocks => Pending' = Pending \union ((currentBlock + 1) .. endBlock)
        /\ CrashCrawler => Pending' \subseteq Pending
        /\ ~FetchBlocks /\ ~CrashCrawler => Pending' = Pending
    BY <1>1, CrawlPending
  <2>9. Pending \subseteq Height
    BY PendingType
  <2> USE DEF CursorInv, WithinChain, TypeOK, CrawlTypeOK, Height, Unset, ResumeFrom,
              InitialBlock, MaxOf
  <2>1. CASE ChainGrows
    <3>1. Pending' \subseteq Pending
      BY <2>0, <2>1 DEF ChainGrows, FetchBlocks, CrashCrawler
    <3>2. \A h \in Pending' : h <= chainHeight'
      BY <2>1, <2>9, <3>1 DEF ChainGrows
    <3> QED
      BY <2>1, <3>2 DEF ChainGrows
  <2>2. CASE ReadLatestBlock
    <3>1. Pending' \subseteq Pending
      BY <2>0, <2>2 DEF ReadLatestBlock, FetchBlocks, CrashCrawler
    <3> QED
      BY <2>2, <3>1 DEF ReadLatestBlock
  <2>3. ASSUME NEW network \in 1 .. chainHeight, GetLatestBlock(network)
        PROVE  CursorInv'
    <3>1. Pending' \subseteq Pending
      BY <2>0, <2>3 DEF GetLatestBlock, FetchBlocks, CrashCrawler
    <3> QED
      BY <2>3, <3>1 DEF GetLatestBlock, MinOf
  <2>4. CASE FetchBlocks
    <3>1. Pending' = Pending \union ((currentBlock + 1) .. endBlock)
      BY <2>0, <2>4
    <3> QED
      BY <2>4, <3>1 DEF FetchBlocks
  <2>5. CASE CrawlFails
    <3>1. Pending' \subseteq Pending
      BY <2>0, <2>5 DEF CrawlFails, FetchBlocks, CrashCrawler
    <3> QED
      BY <2>5, <3>1 DEF CrawlFails
  <2>6. CASE CursorLands
    <3>1. Pending' \subseteq Pending
      BY <2>0, <2>6 DEF CursorLands, FetchBlocks, CrashCrawler
    <3> QED
      BY <2>6, <3>1 DEF CursorLands
  <2>7. CASE BlockJobLands
    <3>1. Pending' \subseteq Pending
      BY <2>0, <2>7 DEF BlockJobLands, FetchBlocks, CrashCrawler
    <3> QED
      BY <2>7, <3>1 DEF BlockJobLands
  <2>8. CASE CrashCrawler
    <3>1. Pending' \subseteq Pending
      BY <2>0, <2>8
    <3> QED
      BY <2>8, <3>1 DEF CrashCrawler
  <2> QED
    BY <1>1, <2>1, <2>2, <2>3, <2>4, <2>5, <2>6, <2>7, <2>8 DEF CrawlNext
<1>2. CASE HandleNext /\ UNCHANGED crawlOwnVars
  <2>1. Pending' \subseteq Pending
    BY <1>2, HandlePending
  <2> QED
    BY <1>2, <2>1 DEF CursorInv, WithinChain, ResumeFrom, crawlOwnVars
<1>3. CASE UNCHANGED vars
  <2>1. Pending' = Pending
    BY <1>3 DEF vars, crawlOwnVars, handleOwnVars, Pending, Active, ActiveOf
  <2> QED
    BY <1>3, <2>1 DEF CursorInv, WithinChain, ResumeFrom, vars, crawlOwnVars
<1> QED
  BY <1>1, <1>2, <1>3 DEF Next

LEMMA NextOwedInv ==
    TypeOK /\ CursorInv /\ OwedInv /\ HoldInv /\ [Next]_vars => OwedInv'
<1> SUFFICES ASSUME TypeOK, CursorInv, OwedInv, HoldInv, [Next]_vars,
                    NEW h \in ((StartBlock + 1) .. Claimed)'
             PROVE  h \in Pending' \union stored' \union failedBlocks' \union lostBlocks'
  BY DEF OwedInv
<1> USE CrawlBlockAssumption
<1>1. CASE CrawlNext /\ UNCHANGED <<txListQueue, handleOwnVars>>
  <2>0. /\ FetchBlocks => Pending' = Pending \union ((currentBlock + 1) .. endBlock)
        /\ CrashCrawler => Pending \subseteq Pending' \union InFlight(blockSends)
        /\ ~FetchBlocks /\ ~CrashCrawler => Pending' = Pending
        /\ stored' = stored /\ failedBlocks' = failedBlocks
    BY <1>1, CrawlPending DEF handleOwnVars
  <2>1. CASE FetchBlocks
    <3>1. Claimed = currentBlock
      BY <2>1 DEF FetchBlocks, CursorInv, Claimed
    <3>2. Claimed' = IF currentBlock < endBlock THEN endBlock ELSE currentBlock
      BY <2>1, <3>1
      DEF FetchBlocks, CursorInv, Claimed, ResumeFrom, Unset, TypeOK, CrawlTypeOK
    <3>3. \/ h \in (StartBlock + 1) .. Claimed
          \/ h \in (currentBlock + 1) .. endBlock
      BY <3>1, <3>2 DEF TypeOK, CrawlTypeOK
    <3> QED
      BY <2>0, <2>1, <3>3 DEF FetchBlocks, OwedInv
  <2>2. CASE CrashCrawler
    <3>1. Claimed' = ResumeFrom /\ ResumeFrom <= Claimed
      BY <2>2
      DEF CrashCrawler, Claimed, ResumeFrom, CursorInv, TypeOK, CrawlTypeOK, InitialBlock,
          Unset, Height
    <3>2. Claimed \in Nat /\ ResumeFrom \in Nat
      BY DEF Claimed, ResumeFrom, TypeOK, CrawlTypeOK, InitialBlock, Height
    <3>3. h \in (StartBlock + 1) .. Claimed
      BY <3>1, <3>2
    <3> QED
      BY <2>0, <2>2, <3>3 DEF CrashCrawler, OwedInv
  <2>3. CASE CursorLands
    <3>1. Claimed' = Claimed
      BY <2>3
      DEF CursorLands, Claimed, ResumeFrom, InitialBlock, TypeOK, CrawlTypeOK, Unset, Height
    <3>2. ~FetchBlocks /\ ~CrashCrawler
      BY <2>3
      DEF CursorLands, FetchBlocks, CrashCrawler, CursorInv, TypeOK, CrawlTypeOK
    <3> QED
      BY <2>0, <2>3, <3>1, <3>2 DEF CursorLands, OwedInv
  <2>4. CASE ~FetchBlocks /\ ~CrashCrawler /\ ~CursorLands
    <3>1. UNCHANGED <<currentBlockRedis, cursorWrite, lostBlocks>>
      BY <1>1, <2>4 DEF CrawlNext, ChainGrows, ReadLatestBlock, GetLatestBlock,
                        CrawlFails, BlockJobLands
    <3> QED
      BY <2>0, <2>4, <3>1 DEF OwedInv, Claimed, ResumeFrom
  <2> QED
    BY <2>1, <2>2, <2>3, <2>4
<1>2. CASE HandleNext /\ UNCHANGED crawlOwnVars
  <2>1. Pending \subseteq Pending' \union stored' \union failedBlocks'
    BY <1>2, HandlePending
  <2>2. stored \subseteq stored' /\ failedBlocks \subseteq failedBlocks'
    BY <1>2 DEF HandleNext, HandleStep, FindBlock, CreateTxJob, InsertBlock, HandleBlockFails,
                EmitUpserted, CompleteBlock, TxJobLands, ProposerJobLands, CrashHandler,
                RecoverStalled, AddProposer, SkipProposer
  <2>3. Claimed' = Claimed /\ lostBlocks' = lostBlocks
    BY <1>2 DEF crawlOwnVars, Claimed, ResumeFrom
  <2> QED
    BY <2>1, <2>2, <2>3 DEF OwedInv
<1>3. CASE UNCHANGED vars
  <2>1. Pending' = Pending
    BY <1>3 DEF vars, crawlOwnVars, handleOwnVars, Pending, Active, ActiveOf
  <2> QED
    BY <1>3, <2>1 DEF OwedInv, Claimed, ResumeFrom, vars, crawlOwnVars, handleOwnVars
<1> QED
  BY <1>1, <1>2, <1>3 DEF Next

LEMMA NextHoldInv == TypeOK /\ HoldInv /\ [Next]_vars => HoldInv'
<1> SUFFICES ASSUME TypeOK, HoldInv, [Next]_vars
             PROVE  HoldInv'
  OBVIOUS
<1> USE DEF HoldInv, TypeOK, HandleTypeOK
<1>1. CASE UNCHANGED <<step, held, stored>>
  BY <1>1
<1>2. ASSUME NEW w \in Workers, FindBlock(w)
      PROVE  HoldInv'
  BY <1>2 DEF FindBlock
<1>3. ASSUME NEW w \in Workers, CreateTxJob(w)
      PROVE  HoldInv'
  BY <1>3 DEF CreateTxJob
<1>4. ASSUME NEW w \in Workers, InsertBlock(w)
      PROVE  HoldInv'
  BY <1>4 DEF InsertBlock
<1>5. ASSUME NEW w \in Workers, HandleBlockFails(w) \/ CompleteBlock(w) \/ CrashHandler(w)
      PROVE  HoldInv'
  BY <1>5 DEF HandleBlockFails, CompleteBlock, CrashHandler
<1>6. ASSUME NEW w \in Workers, EmitUpserted(w)
      PROVE  HoldInv'
  BY <1>6 DEF EmitUpserted
<1>7. CASE CrawlNext /\ UNCHANGED <<txListQueue, handleOwnVars>>
  BY <1>1, <1>7 DEF handleOwnVars
<1>8. ASSUME NEW w \in Workers, TxJobLands(w) \/ ProposerJobLands(w)
      PROVE  HoldInv'
  BY <1>1, <1>8 DEF TxJobLands, ProposerJobLands
<1>9. CASE RecoverStalled \/ AddProposer \/ SkipProposer
  BY <1>1, <1>9 DEF RecoverStalled, AddProposer, SkipProposer
<1>10. CASE UNCHANGED vars
  BY <1>1, <1>10 DEF vars, handleOwnVars
<1> QED
  BY <1>2, <1>3, <1>4, <1>5, <1>6, <1>7, <1>8, <1>9, <1>10
  DEF Next, HandleNext, HandleStep

LEMMA NextLedgerInv == LedgerInv /\ [Next]_vars => LedgerInv'
BY NextTypeOK, NextCursorInv, NextOwedInv, NextHoldInv DEF LedgerInv

LEMMA LedgerInvariant == Spec => []LedgerInv
<1> QED
  BY InitLedgerInv, NextLedgerInv, PTL DEF Spec

\* No block the Redis cursor has passed is forgotten: each is on its way, stored,
\* failed, or died in flight with the crawler.
THEOREM NothingForgotten == Spec => []NoSilentLoss
<1>1. LedgerInv => NoSilentLoss
  <2> SUFFICES ASSUME LedgerInv, NEW h \in (StartBlock + 1) .. ResumeFrom
               PROVE  h \in Pending \union stored \union failedBlocks \union lostBlocks
    BY DEF NoSilentLoss
  <2>1. h \in (StartBlock + 1) .. Claimed
    BY CrawlBlockAssumption
    DEF LedgerInv, CursorInv, TypeOK, CrawlTypeOK, Claimed, ResumeFrom, InitialBlock, Height
  <2> QED
    BY <2>1 DEF LedgerInv, OwedInv
<1> QED
  BY <1>1, LedgerInvariant, PTL

\* The crawler never queues a block that the chain has not made.
THEOREM StaysWithinChain == Spec => []WithinChain
<1>1. LedgerInv => WithinChain
  BY DEF LedgerInv, CursorInv
<1> QED
  BY <1>1, LedgerInvariant, PTL

\* No restart, and no answer of a lagging server, moves the Redis cursor back.
THEOREM CursorMonotone == Spec => CursorNeverGoesBack
<1>1. LedgerInv /\ [Next]_vars => [currentBlockRedis' >= currentBlockRedis]_vars
  <2> SUFFICES ASSUME LedgerInv, [Next]_vars
               PROVE  currentBlockRedis' >= currentBlockRedis
    OBVIOUS
  <2>1. CASE CursorLands
    BY <2>1, CrawlBlockAssumption
    DEF CursorLands, LedgerInv, CursorInv, TypeOK, CrawlTypeOK, ResumeFrom, InitialBlock,
        Unset, Height
  <2>2. CASE ~CursorLands
    <3>1. currentBlockRedis' = currentBlockRedis
      BY <2>2 DEF Next, CrawlNext, ChainGrows, ReadLatestBlock, GetLatestBlock,
                  FetchBlocks, CrawlFails, BlockJobLands, CrashCrawler, vars, crawlOwnVars
    <3> QED
      BY <3>1 DEF LedgerInv, TypeOK, CrawlTypeOK, Unset
  <2> QED
    BY <2>1, <2>2
<1> QED
  BY <1>1, LedgerInvariant, PTL DEF Spec, CursorNeverGoesBack

-----------------------------------------------------------------------------
(* The announcements: at most one per block, and none is forgotten.           *)

AnnouncementInv == TypeOK /\ AnnounceInv /\ AnnouncedOnce /\ StoredIsAnnounced

LEMMA InitAnnouncementInv == Init => AnnouncementInv
BY InitTypeOK
DEF Init, HandleInit, AnnouncementInv, AnnounceInv, AnnouncedOnce, StoredIsAnnounced

\* Steps that neither store, announce nor hold.
LEMMA AnnouncementStutter ==
    ASSUME AnnouncementInv, UNCHANGED <<stored, emits, step, held, lostUpserts>>
    PROVE  (AnnounceInv /\ AnnouncedOnce /\ StoredIsAnnounced)'
BY DEF AnnouncementInv, AnnounceInv, AnnouncedOnce, StoredIsAnnounced

LEMMA NextAnnouncementInv == AnnouncementInv /\ [Next]_vars => AnnouncementInv'
<1> DEFINE Good == AnnounceInv /\ AnnouncedOnce /\ StoredIsAnnounced
<1> SUFFICES ASSUME AnnouncementInv, [Next]_vars PROVE Good'
  BY NextTypeOK DEF AnnouncementInv
<1>1. ASSUME NEW w \in Workers, FindBlock(w) \/ CreateTxJob(w) \/ HandleBlockFails(w) \/ CompleteBlock(w)
      PROVE  Good'
  <2>1. /\ UNCHANGED <<stored, emits, lostUpserts>>
        /\ step[w] # "inserted" /\ step'[w] # "inserted"
        /\ \A v \in Workers \ {w} : step'[v] = step[v] /\ held'[v] = held[v]
    BY <1>1 DEF FindBlock, CreateTxJob, HandleBlockFails, CompleteBlock, AnnouncementInv,
                TypeOK, HandleTypeOK
  <2> QED
    BY <2>1 DEF AnnouncementInv, AnnounceInv, AnnouncedOnce, StoredIsAnnounced
<1>2. ASSUME NEW w \in Workers, InsertBlock(w)
      PROVE  Good'
  <2>1. /\ UNCHANGED <<emits, held, lostUpserts>>
        /\ held[w].data \notin stored /\ stored' = stored \union {held[w].data}
        /\ step[w] # "inserted" /\ step'[w] = "inserted"
        /\ \A v \in Workers \ {w} : step'[v] = step[v]
        /\ held[w].data \in Blocks
    BY <1>2 DEF InsertBlock, AnnouncementInv, TypeOK, HandleTypeOK, JobOf
  <2>2. \A v \in Workers : step[v] = "inserted" => held[v].data \in stored
    BY DEF AnnouncementInv, AnnounceInv
  <2>3. emits[held[w].data] = 0
    <3>1. emits[held[w].data] \in Nat
      BY <2>1 DEF AnnouncementInv, TypeOK, HandleTypeOK
    <3> QED
      BY <2>1, <3>1 DEF AnnouncementInv, AnnounceInv
  <2>4. AnnounceInv'
    BY <2>1, <2>2, <2>3 DEF AnnouncementInv, AnnounceInv
  <2>5. AnnouncedOnce' /\ StoredIsAnnounced'
    BY <2>1 DEF AnnouncementInv, AnnouncedOnce, StoredIsAnnounced
  <2> QED
    BY <2>4, <2>5
<1>3. ASSUME NEW w \in Workers, EmitUpserted(w)
      PROVE  Good'
  <2>1. /\ UNCHANGED <<stored, held, lostUpserts>>
        /\ step[w] = "inserted" /\ step'[w] # "inserted"
        /\ \A v \in Workers \ {w} : step'[v] = step[v]
        /\ held[w].data \in Blocks
        /\ emits' = [emits EXCEPT ![held[w].data] = @ + 1]
        /\ emits \in [Blocks -> Nat]
    BY <1>3 DEF EmitUpserted, AnnouncementInv, TypeOK, HandleTypeOK, JobOf
  <2>2. emits'[held[w].data] = 1
    BY <2>1 DEF AnnouncementInv, AnnounceInv
  <2>3. \A b \in Blocks : b # held[w].data => emits'[b] = emits[b]
    BY <2>1
  <2>4. \A v \in Workers : step'[v] = "inserted" =>
            /\ step[v] = "inserted" /\ held[v].data # held[w].data
            /\ held[v].data \in Blocks
    BY <2>1 DEF AnnouncementInv, AnnounceInv, TypeOK, HandleTypeOK, JobOf
  <2>5. AnnounceInv'
    BY <2>1, <2>2, <2>3, <2>4 DEF AnnouncementInv, AnnounceInv
  <2>6. AnnouncedOnce'
    BY <2>1, <2>2, <2>3 DEF AnnouncementInv, AnnouncedOnce
  <2>7. StoredIsAnnounced'
    <3> SUFFICES ASSUME NEW b \in stored
                 PROVE  \/ emits'[b] > 0
                        \/ \E v \in Workers : step'[v] = "inserted" /\ held'[v].data = b
                        \/ b \in lostUpserts'
      BY <2>1 DEF StoredIsAnnounced
    <3>1. b \in Blocks
      BY DEF AnnouncementInv, TypeOK, HandleTypeOK
    <3>2. CASE b = held[w].data
      BY <2>2, <3>2
    <3>3. CASE b # held[w].data
      BY <2>1, <2>3, <3>1, <3>3 DEF AnnouncementInv, StoredIsAnnounced
    <3> QED
      BY <3>2, <3>3
  <2> QED
    BY <2>5, <2>6, <2>7
<1>4. ASSUME NEW w \in Workers, CrashHandler(w)
      PROVE  Good'
  <2>1. /\ UNCHANGED <<stored, emits>>
        /\ step'[w] # "inserted"
        /\ lostUpserts \subseteq lostUpserts'
        /\ step[w] = "inserted" => held[w].data \in lostUpserts'
        /\ \A v \in Workers \ {w} : step'[v] = step[v] /\ held'[v] = held[v]
    BY <1>4 DEF CrashHandler, AnnouncementInv, TypeOK, HandleTypeOK, ActiveOf
  <2> QED
    BY <2>1 DEF AnnouncementInv, AnnounceInv, AnnouncedOnce, StoredIsAnnounced
<1>5. ASSUME NEW w \in Workers, TxJobLands(w) \/ ProposerJobLands(w)
      PROVE  Good'
  BY <1>5, AnnouncementStutter DEF TxJobLands, ProposerJobLands
<1>6. CASE RecoverStalled \/ AddProposer \/ SkipProposer
  BY <1>6, AnnouncementStutter DEF RecoverStalled, AddProposer, SkipProposer
<1>7. CASE UNCHANGED handleOwnVars
  BY <1>7, AnnouncementStutter DEF handleOwnVars
<1> QED
  BY <1>1, <1>2, <1>3, <1>4, <1>5, <1>6, <1>7
  DEF Next, HandleNext, HandleStep, vars

LEMMA AnnouncementInvariant == Spec => []AnnouncementInv
<1> QED
  BY InitAnnouncementInv, NextAnnouncementInv, PTL DEF Spec

\* However many workers run copies of a block's job, and however often, at most
\* one announcement of the block is made.
THEOREM AtMostOneAnnouncement == Spec => []AnnouncedOnce
<1>1. AnnouncementInv => AnnouncedOnce
  BY DEF AnnouncementInv
<1> QED
  BY <1>1, AnnouncementInvariant, PTL

\* Only the death of a process between insert and emit, or with the event still
\* in flight, leaves a stored block unannounced.
THEOREM StoredBlocksAreAnnounced == Spec => []StoredIsAnnounced
<1>1. AnnouncementInv => StoredIsAnnounced
  BY DEF AnnouncementInv
<1> QED
  BY <1>1, AnnouncementInvariant, PTL

-----------------------------------------------------------------------------
(* The transactions of a stored block are handed over.                        *)

HandOverInv == TypeOK /\ HandedInv /\ StoredHandedTxs

LEMMA InitHandOverInv == Init => HandOverInv
BY InitTypeOK DEF Init, HandleInit, HandOverInv, HandedInv, StoredHandedTxs

LEMMA NextHandOverInv == HandOverInv /\ [Next]_vars => HandOverInv'
<1> DEFINE Good == HandedInv /\ StoredHandedTxs
<1> SUFFICES ASSUME HandOverInv, [Next]_vars PROVE Good'
  BY NextTypeOK DEF HandOverInv
<1>1. CASE CrawlNext /\ UNCHANGED <<txListQueue, handleOwnVars>>
  <2>1. Waiting(blockQueue) \subseteq Waiting(blockQueue')
    <3>1. CASE BlockJobLands
      <4>1. Head(blockSends) \in Height
        BY <3>1, ArriveLemma DEF BlockJobLands, HandOverInv, TypeOK, CrawlTypeOK
      <4> QED
        BY <3>1, <4>1, AddLemma DEF BlockJobLands, HandOverInv, TypeOK
    <3>2. CASE ~BlockJobLands
      BY <1>1, <3>2 DEF CrawlNext, ChainGrows, ReadLatestBlock, GetLatestBlock,
                        FetchBlocks, CrawlFails, CursorLands, CrashCrawler
    <3> QED
      BY <3>1, <3>2
  <2> QED
    BY <1>1, <2>1 DEF HandOverInv, HandedInv, StoredHandedTxs, handleOwnVars, ActiveOf
<1>2. ASSUME NEW w \in Workers, FindBlock(w)
      PROVE  Good'
  <2>1. /\ UNCHANGED <<orphans, stored, txSends, txListQueue, lostTxLists, failedBlocks>>
        /\ \A v \in Workers \ {w} : step'[v] = step[v] /\ held'[v] = held[v]
        /\ step[w] = "idle"
        /\ ActiveOf(w)' = {Head(blockQueue).data}
        /\ step'[w] = IF Head(blockQueue).data \in stored THEN "found" ELSE "missing"
    BY <1>2 DEF FindBlock, HandOverInv, TypeOK, HandleTypeOK, ActiveOf
  <2>2. Waiting(blockQueue) = {Head(blockQueue).data} \union Waiting(blockQueue')
    BY <1>2, TakeLemma DEF FindBlock, HandOverInv, TypeOK
  <2>3. HandedInv'
    BY <2>1 DEF HandOverInv, HandedInv
  <2>4. \A v \in Workers \ {w} : ActiveOf(v)' = ActiveOf(v)
    BY <2>1 DEF ActiveOf
  <2>5. StoredHandedTxs'
    BY <2>1, <2>2, <2>4 DEF HandOverInv, StoredHandedTxs, ActiveOf
  <2> QED
    BY <2>3, <2>5
<1>3. ASSUME NEW w \in Workers, CreateTxJob(w)
      PROVE  Good'
  <2>1. /\ UNCHANGED <<blockQueue, held, orphans, stored, txListQueue, lostTxLists, failedBlocks>>
        /\ \A v \in Workers \ {w} : step'[v] = step[v] /\ txSends'[v] = txSends[v]
        /\ step[w] \in {"found", "missing"} /\ step'[w] \in {"done", "insert"}
        /\ held[w].data \in Blocks /\ txSends[w] \in Seq(Blocks)
    BY <1>3 DEF CreateTxJob, HandOverInv, TypeOK, HandleTypeOK, JobOf
  <2>2. InFlight(txSends[w]) \subseteq InFlight(txSends'[w])
    BY <1>3, <2>1, SendOneLemma DEF CreateTxJob, HandOverInv, TypeOK, HandleTypeOK
  <2>3. held[w].data \in BlocksWithTxs => held[w].data \in InFlight(txSends'[w])
    BY <1>3, <2>1, SendOneLemma DEF CreateTxJob, HandOverInv, TypeOK, HandleTypeOK
  <2>4. HandedInv'
    BY <2>1, <2>2, <2>3 DEF HandOverInv, HandedInv
  <2>5. \A v \in Workers \ {w} : ActiveOf(v)' = ActiveOf(v)
    BY <2>1 DEF ActiveOf
  <2>6. ActiveOf(w) = {held[w].data}
    BY <2>1 DEF ActiveOf
  <2>7. StoredHandedTxs'
    BY <2>1, <2>2, <2>3, <2>5, <2>6 DEF HandOverInv, StoredHandedTxs
  <2> QED
    BY <2>4, <2>7
<1>4. ASSUME NEW w \in Workers, InsertBlock(w)
      PROVE  Good'
  <2>1. /\ UNCHANGED <<blockQueue, held, orphans, txSends, txListQueue, lostTxLists, failedBlocks>>
        /\ \A v \in Workers \ {w} : step'[v] = step[v]
        /\ step[w] = "insert" /\ step'[w] = "inserted"
        /\ stored' = stored \union {held[w].data}
    BY <1>4 DEF InsertBlock, HandOverInv, TypeOK, HandleTypeOK
  <2>2. HandedInv'
    BY <2>1 DEF HandOverInv, HandedInv
  <2>3. \A v \in Workers : ActiveOf(v)' = ActiveOf(v)
    BY <2>1 DEF ActiveOf
  <2>4. StoredHandedTxs'
    BY <2>1, <2>3 DEF HandOverInv, HandedInv, StoredHandedTxs
  <2> QED
    BY <2>2, <2>4
<1>5. ASSUME NEW w \in Workers, HandleBlockFails(w) \/ CompleteBlock(w) \/ EmitUpserted(w)
      PROVE  Good'
  <2>1. /\ UNCHANGED <<blockQueue, orphans, stored, txSends, txListQueue, lostTxLists>>
        /\ failedBlocks \subseteq failedBlocks'
        /\ \A v \in Workers \ {w} : step'[v] = step[v] /\ held'[v] = held[v]
        /\ step[w] = "found" => ActiveOf(w) \subseteq failedBlocks'
        /\ step'[w] \in {"idle", "done"}
        /\ step'[w] = "done" => held'[w] = held[w] /\ step[w] = "inserted"
    BY <1>5
    DEF HandleBlockFails, CompleteBlock, EmitUpserted, HandOverInv, TypeOK, HandleTypeOK, ActiveOf
  <2>2. HandedInv'
    BY <2>1 DEF HandOverInv, HandedInv
  <2>3. \A v \in Workers \ {w} : ActiveOf(v)' = ActiveOf(v)
    BY <2>1 DEF ActiveOf
  <2>4. StoredHandedTxs'
    BY <2>1, <2>3 DEF HandOverInv, StoredHandedTxs
  <2> QED
    BY <2>2, <2>4
<1>6. ASSUME NEW w \in Workers, TxJobLands(w)
      PROVE  Good'
  <2>1. /\ UNCHANGED <<blockQueue, step, held, orphans, stored, lostTxLists, failedBlocks>>
        /\ \A v \in Workers \ {w} : txSends'[v] = txSends[v]
        /\ txSends[w] \in Seq(Blocks) /\ txSends[w] # <<>>
        /\ txSends'[w] = Tail(txSends[w])
        /\ txListQueue' = Add(txListQueue, Head(txSends[w]))
    BY <1>6 DEF TxJobLands, HandOverInv, TypeOK, HandleTypeOK
  <2>2. /\ Head(txSends[w]) \in Blocks
        /\ InFlight(txSends[w]) = {Head(txSends[w])} \union InFlight(txSends'[w])
    <3>1. /\ Head(txSends[w]) \in Blocks
          /\ InFlight(txSends[w]) =
                {Head(txSends[w])} \union InFlight(Tail(txSends[w]))
      BY <2>1, ArriveLemma
    <3> QED
      BY <2>1, <3>1
  <2>3. Waiting(txListQueue') = Waiting(txListQueue) \union {Head(txSends[w])}
    <3>1. txListQueue \in Seq(JobOf(Blocks))
      BY PipelineAssumption DEF HandOverInv, TypeOK
    <3>2. Waiting(Add(txListQueue, Head(txSends[w])))
              = Waiting(txListQueue) \union {Head(txSends[w])}
      BY <2>2, <3>1, AddLemma
    <3> QED
      BY <2>1, <3>2
  <2>4. HandedInv'
    BY <2>1, <2>2, <2>3 DEF HandOverInv, HandedInv
  <2>5. \A v \in Workers : ActiveOf(v)' = ActiveOf(v)
    BY <2>1 DEF ActiveOf
  <2>6. StoredHandedTxs'
    BY <2>1, <2>2, <2>3, <2>5 DEF HandOverInv, StoredHandedTxs
  <2> QED
    BY <2>4, <2>6
<1>7. ASSUME NEW w \in Workers, CrashHandler(w)
      PROVE  Good'
  <2>1. /\ UNCHANGED <<blockQueue, stored, txListQueue, failedBlocks>>
        /\ \A v \in Workers \ {w} :
              step'[v] = step[v] /\ held'[v] = held[v] /\ txSends'[v] = txSends[v]
        /\ step'[w] = "idle"
        /\ lostTxLists' = lostTxLists \union (InFlight(txSends[w]) \ ActiveOf(w))
    BY <1>7 DEF CrashHandler, HandOverInv, TypeOK, HandleTypeOK
  <2>2. Waiting(orphans') = Waiting(orphans) \union ActiveOf(w)
    <3>1. CASE step[w] = "idle"
      BY <1>7, <3>1 DEF CrashHandler, ActiveOf
    <3>2. CASE step[w] # "idle"
      <4>1. held[w] \in JobOf(Blocks) /\ orphans \in Seq(JobOf(Blocks))
        BY <3>2 DEF HandOverInv, TypeOK, HandleTypeOK
      <4>2. orphans' = Append(orphans, held[w]) /\ ActiveOf(w) = {held[w].data}
        BY <1>7, <3>2 DEF CrashHandler, ActiveOf
      <4> QED
        BY <4>1, <4>2, AppendLemma
    <3> QED
      BY <3>1, <3>2
  <2>3. HandedInv'
    BY <2>1 DEF HandOverInv, HandedInv
  <2>4. \A v \in Workers \ {w} : ActiveOf(v)' = ActiveOf(v)
    BY <2>1 DEF ActiveOf
  <2>5. StoredHandedTxs'
    BY <2>1, <2>2, <2>4 DEF HandOverInv, StoredHandedTxs
  <2> QED
    BY <2>3, <2>5
<1>8. CASE RecoverStalled
  <2>1. /\ UNCHANGED <<step, held, stored, txSends, txListQueue, lostTxLists>>
        /\ Head(orphans) \in JobOf(Blocks)
        /\ Waiting(orphans) = {Head(orphans).data} \union Waiting(orphans')
    BY <1>8, TakeLemma DEF RecoverStalled, HandOverInv, TypeOK, HandleTypeOK
  <2>2. /\ Waiting(blockQueue) \subseteq Waiting(blockQueue')
        /\ failedBlocks \subseteq failedBlocks'
        /\ Head(orphans).data \in Waiting(blockQueue') \union failedBlocks'
    <3>1. CASE Head(orphans).stalled
      BY <1>8, <3>1 DEF RecoverStalled
    <3>2. CASE ~Head(orphans).stalled
      <4>1. Waiting(blockQueue') = Waiting(blockQueue) \union {Head(orphans).data}
        BY <1>8, <2>1, <3>2, RequeueLemma, PipelineAssumption
        DEF RecoverStalled, HandOverInv, TypeOK
      <4> QED
        BY <1>8, <3>2, <4>1 DEF RecoverStalled
    <3> QED
      BY <3>1, <3>2
  <2>3. \A v \in Workers : ActiveOf(v)' = ActiveOf(v)
    BY <2>1 DEF ActiveOf
  <2> QED
    BY <2>1, <2>2, <2>3 DEF HandOverInv, HandedInv, StoredHandedTxs
<1>9. CASE UNCHANGED <<blockQueue, txListQueue, step, held, orphans, failedBlocks, stored,
                       txSends, lostTxLists>>
  BY <1>9 DEF HandOverInv, HandedInv, StoredHandedTxs, ActiveOf
<1>10. ASSUME NEW w \in Workers, ProposerJobLands(w)
       PROVE  Good'
  BY <1>9, <1>10 DEF ProposerJobLands
<1>11. CASE AddProposer \/ SkipProposer
  BY <1>9, <1>11 DEF AddProposer, SkipProposer
<1>12. CASE UNCHANGED vars
  BY <1>9, <1>12 DEF vars, handleOwnVars
<1> QED
  BY <1>1, <1>2, <1>3, <1>4, <1>5, <1>6, <1>7, <1>8, <1>10, <1>11, <1>12
  DEF Next, HandleNext, HandleStep

\* A stored block has handed over its transactions, or a job that will do so is
\* on its way, or the process died with the hand-over after the job was done.
THEOREM StoredBlocksHandOver == Spec => []StoredHandedTxs
<1>1. HandOverInv => StoredHandedTxs
  BY DEF HandOverInv
<1> QED
  BY <1>1, InitHandOverInv, NextHandOverInv, PTL DEF Spec

-----------------------------------------------------------------------------
(* The block pipeline implements the ledger: every step of it is a step of    *)
(* the ledger or leaves the ledger alone.                                     *)

LEMMA LedgerInitRefined == Init => Ledger!LedgerInit
<1> SUFFICES ASSUME Init PROVE Ledger!LedgerInit
  OBVIOUS
<1>1. Pending = {}
  BY EmptyLemma DEF Init, CrawlInit, HandleInit, Pending, Active, ActiveOf
<1> QED
  BY <1>1 DEF Init, CrawlInit, HandleInit, Ledger!LedgerInit, ResumeFrom, InitialBlock, Unset

\* A job that is being inserted stays the worker's until it completes.
LEMMA InsertPending ==
    ASSUME TypeOK, NEW w \in Workers, InsertBlock(w), UNCHANGED crawlOwnVars
    PROVE  Pending' = Pending /\ held[w].data \in Pending
<1>1. /\ UNCHANGED <<held, orphans, blockQueue, blockSends>>
      /\ step[w] = "insert" /\ step'[w] = "inserted"
      /\ \A v \in Workers \ {w} : step'[v] = step[v]
  BY DEF InsertBlock, TypeOK, HandleTypeOK, crawlOwnVars
<1>2. \A v \in Workers : ActiveOf(v)' = ActiveOf(v)
  BY <1>1 DEF ActiveOf
<1>3. Active' = Active /\ held[w].data \in Active
  BY <1>1, <1>2 DEF Active, ActiveOf
<1> QED
  BY <1>1, <1>3 DEF Pending

LEMMA LedgerStepRefined ==
    LedgerInv /\ [Next]_vars => [Ledger!LedgerNext]_(Ledger!ledgerVars)
<1> DEFINE off == failedBlocks \union lostBlocks
           Same == /\ ResumeFrom' = ResumeFrom /\ Pending' = Pending
                   /\ stored' = stored /\ off' = off
           Good == Ledger!LedgerNext \/ Same
<1> SUFFICES ASSUME LedgerInv, [Next]_vars PROVE Good
  BY DEF Ledger!ledgerVars
<1>0. TypeOK /\ HoldInv
  BY DEF LedgerInv
<1>1. CASE CrawlNext /\ UNCHANGED <<txListQueue, handleOwnVars>>
  <2>0. /\ FetchBlocks => Pending' = Pending \union ((currentBlock + 1) .. endBlock)
        /\ CrashCrawler => /\ Pending' \subseteq Pending
                           /\ Pending \subseteq Pending' \union InFlight(blockSends)
        /\ ~FetchBlocks /\ ~CrashCrawler => Pending' = Pending
        /\ stored' = stored /\ failedBlocks' = failedBlocks
    BY <1>0, <1>1, CrawlPending DEF handleOwnVars
  <2>1. CASE FetchBlocks
    <3>1. (currentBlock + 1) .. endBlock \subseteq Height
      BY <1>0, CrawlBlockAssumption DEF TypeOK, CrawlTypeOK, Height
    <3>2. ResumeFrom' = ResumeFrom /\ off' = off
      BY <2>0, <2>1 DEF FetchBlocks, ResumeFrom
    <3>3. Ledger!Claim
      BY <2>0, <2>1, <3>1, <3>2 DEF Ledger!Claim
    <3> QED
      BY <3>3 DEF Ledger!LedgerNext
  <2>2. CASE CrashCrawler
    <3>1. ResumeFrom' = ResumeFrom /\ lostBlocks' = lostBlocks \union InFlight(blockSends)
      BY <2>2 DEF CrashCrawler, ResumeFrom
    <3>2. InFlight(blockSends) \subseteq Pending
      BY DEF Pending
    <3>3. Ledger!Release
      BY <2>0, <2>2, <3>1, <3>2 DEF Ledger!Release
    <3> QED
      BY <3>3 DEF Ledger!LedgerNext
  <2>3. CASE CursorLands
    <3>1. /\ cursorWrite \in Height /\ ResumeFrom' = cursorWrite
          /\ lostBlocks' = lostBlocks
      BY <1>0, <2>3, CrawlBlockAssumption
      DEF CursorLands, TypeOK, CrawlTypeOK, ResumeFrom, InitialBlock, Height, Unset
    <3>2. ResumeFrom < cursorWrite /\ Claimed = cursorWrite /\ StartBlock <= ResumeFrom
      BY <2>3 DEF CursorLands, LedgerInv, CursorInv, Claimed
    <3>3. ResumeFrom \in Nat /\ cursorWrite \in Nat
      BY <1>0, <3>1, CrawlBlockAssumption
      DEF TypeOK, CrawlTypeOK, ResumeFrom, InitialBlock, Height
    <3>4. (ResumeFrom + 1) .. cursorWrite \subseteq Pending \union stored \union off
      <4> SUFFICES ASSUME NEW h \in (ResumeFrom + 1) .. cursorWrite
                   PROVE  h \in Pending \union stored \union off
        OBVIOUS
      <4>1. h \in (StartBlock + 1) .. Claimed
        BY <3>2, <3>3, CrawlBlockAssumption
      <4> QED
        BY <4>1 DEF LedgerInv, OwedInv
    <3>5. Pending' = Pending /\ off' = off
      <4>1. ~FetchBlocks
        BY <2>3 DEF CursorLands, FetchBlocks, LedgerInv, CursorInv
      <4>2. ~CrashCrawler
        BY <1>0, <2>3 DEF CursorLands, CrashCrawler, TypeOK, CrawlTypeOK
      <4> QED
        BY <2>0, <3>1, <4>1, <4>2
    <3>6. Ledger!Advance
      BY <2>0, <3>1, <3>2, <3>4, <3>5 DEF Ledger!Advance, Ledger!Accounted
    <3> QED
      BY <3>6 DEF Ledger!LedgerNext
  <2>4. CASE ~FetchBlocks /\ ~CrashCrawler /\ ~CursorLands
    <3>1. UNCHANGED <<currentBlockRedis, lostBlocks>>
      BY <1>1, <2>4 DEF CrawlNext, ChainGrows, ReadLatestBlock, GetLatestBlock,
                        CrawlFails, BlockJobLands
    <3> QED
      BY <2>0, <2>4, <3>1 DEF ResumeFrom
  <2> QED
    BY <2>1, <2>2, <2>3, <2>4
<1>2. CASE HandleNext /\ UNCHANGED crawlOwnVars
  <2>1. ResumeFrom' = ResumeFrom /\ lostBlocks' = lostBlocks
    BY <1>2 DEF crawlOwnVars, ResumeFrom
  <2>2. ASSUME NEW w \in Workers, InsertBlock(w)
        PROVE  Good
    <3>1. /\ held[w].data \notin stored
          /\ stored' = stored \union {held[w].data}
          /\ failedBlocks' = failedBlocks
      BY <2>2 DEF InsertBlock
    <3>2. Ledger!Settle
      BY <1>0, <1>2, <2>1, <2>2, <3>1, InsertPending DEF Ledger!Settle
    <3> QED
      BY <3>2 DEF Ledger!LedgerNext
  <2>3. CASE \A w \in Workers : ~InsertBlock(w)
    <3>1. /\ Pending' \subseteq Pending
          /\ Pending \subseteq Pending' \union stored' \union failedBlocks'
      BY <1>0, <1>2, HandlePending
    <3>2. stored' = stored
      BY <1>2, <2>3
      DEF HandleNext, HandleStep, FindBlock, CreateTxJob, HandleBlockFails, EmitUpserted,
          CompleteBlock, TxJobLands, ProposerJobLands, CrashHandler, RecoverStalled,
          AddProposer, SkipProposer
    <3>3. \E S \in SUBSET Pending : failedBlocks' = failedBlocks \union S
      <4>1. ASSUME NEW w \in Workers, HandleBlockFails(w)
            PROVE  \E S \in SUBSET Pending : failedBlocks' = failedBlocks \union S
        <5>1. held[w].data \in Pending
          BY <4>1 DEF HandleBlockFails, Pending, Active, ActiveOf
        <5> QED
          BY <4>1, <5>1 DEF HandleBlockFails
      <4>2. CASE RecoverStalled
        <5>1. orphans \in Seq(JobOf(Blocks)) /\ orphans # <<>>
          BY <1>0, <4>2 DEF RecoverStalled, TypeOK, HandleTypeOK
        <5>2. Head(orphans).data \in Waiting(orphans)
          BY <5>1, TakeLemma
        <5>3. {Head(orphans).data} \subseteq Pending
          BY <5>2 DEF Pending
        <5>4. \/ failedBlocks' = failedBlocks \union {}
              \/ failedBlocks' = failedBlocks \union {Head(orphans).data}
          BY <4>2 DEF RecoverStalled
        <5> QED
          BY <5>3, <5>4
      <4>3. \/ \E w \in Workers : HandleBlockFails(w)
            \/ RecoverStalled
            \/ failedBlocks' = failedBlocks
        BY <1>2, <2>3
        DEF HandleNext, HandleStep, FindBlock, CreateTxJob, EmitUpserted, CompleteBlock,
            TxJobLands, ProposerJobLands, CrashHandler, AddProposer, SkipProposer
      <4>4. failedBlocks' = failedBlocks
                => \E S \in SUBSET Pending : failedBlocks' = failedBlocks \union S
        <5>1. {} \in SUBSET Pending /\ failedBlocks \union {} = failedBlocks
          OBVIOUS
        <5> QED
          BY <5>1
      <4> QED
        BY <4>1, <4>2, <4>3, <4>4
    <3>4. Ledger!Release
      <4>1. PICK S \in SUBSET Pending : failedBlocks' = failedBlocks \union S
        BY <3>3
      <4>2. off' = off \union S
        BY <2>1, <4>1
      <4> QED
        BY <2>1, <3>1, <3>2, <4>2 DEF Ledger!Release
    <3> QED
      BY <3>4 DEF Ledger!LedgerNext
  <2> QED
    BY <2>2, <2>3
<1>3. CASE UNCHANGED vars
  BY <1>3 DEF vars, crawlOwnVars, handleOwnVars, ResumeFrom, Pending, Active, ActiveOf
<1> QED
  BY <1>1, <1>2, <1>3 DEF Next

\* The pipeline, with its queues, workers and crashes, does nothing the ledger
\* does not allow.
THEOREM PipelineImplementsLedger == Spec => ImplementsLedger
<1> QED
  BY LedgerInitRefined, LedgerStepRefined, LedgerInvariant, PTL
  DEF Spec, ImplementsLedger, Ledger!LedgerSpec

-----------------------------------------------------------------------------
(* The transactions: type correctness.                                        *)

TxTypeInv == TxTypeOK /\ WellFormedInv

\* The job that is none is no job of a transaction.
LEMMA NoHashJobLemma == NoHashJob.data = NoTx /\ NoHashJob \notin JobOf(Txs)
<1>1. NoHashJob.data = NoTx
  BY DEF NoHashJob, NewJob
<1> QED
  BY <1>1, NoTxAssumption DEF JobOf

LEMMA InitTxTypeInv == TxInit => TxTypeInv
<1> SUFFICES ASSUME TxInit PROVE TxTypeInv
  OBVIOUS
<1>1. TxQueuesTypeOK
  BY EmptyLemma DEF TxInit, CrawlTxInit, TxQueuesTypeOK
<1>2. CrawlTxTypeOK
  BY EmptyLemma DEF TxInit, CrawlTxInit, CrawlTxTypeOK
<1>3. HandleTxTypeOK
  BY EmptyLemma DEF TxInit, HandleTxInit, HandleTxTypeOK
<1>4. WellFormedInv
  BY DEF TxInit, HandleTxInit, WellFormedInv, AtWork
<1> QED
  BY <1>1, <1>2, <1>3, <1>4 DEF TxTypeInv, TxTypeOK, TxInit

LEMMA CrawlTxTypeStep ==
    TxTypeOK /\ CrawlTxNext => TxQueuesTypeOK' /\ CrawlTxTypeOK'
<1> DEFINE Good == TxQueuesTypeOK /\ CrawlTxTypeOK
<1> SUFFICES ASSUME TxTypeOK, CrawlTxNext PROVE Good'
  OBVIOUS
<1> USE DEF TxTypeOK, TxQueuesTypeOK, CrawlTxTypeOK
<1>1. CASE StartFetches
  <2>1. /\ Head(txListQueue).data \in DOMAIN TxsOf
        /\ Tail(txListQueue) \in Seq(JobOf(DOMAIN TxsOf))
    BY <1>1, TakeLemma DEF StartFetches
  <2>2. TxsOf[Head(txListQueue).data] \subseteq Txs
    BY <2>1, CrawlTransactionAssumption
  <2>3. startedTxs' \in SUBSET Txs /\ fetching' \in [Txs -> Nat]
    BY <1>1, <2>2 DEF StartFetches
  <2> QED
    BY <1>1, <2>1, <2>3 DEF StartFetches
<1>2. ASSUME NEW t \in Txs, FetchTx(t) \/ FetchTxNull(t)
      PROVE  Good'
  <2>1. fetching' \in [Txs -> Nat]
    <3>1. fetching' = [fetching EXCEPT ![t] = fetching[t] - 1] /\ fetching[t] > 0
      BY <1>2 DEF FetchTx, FetchTxNull
    <3>2. fetching \in [Txs -> Nat] /\ fetching[t] - 1 \in Nat
      BY <3>1
    <3> QED
      BY <3>1, <3>2
  <2>2. Append(handleSends, t) \in Seq(Txs)
    OBVIOUS
  <2> QED
    BY <1>2, <2>1, <2>2 DEF FetchTx, FetchTxNull
<1>3. CASE TakeHash
  <2>1. Head(hashQueue) \in JobOf(Txs) /\ Tail(hashQueue) \in Seq(JobOf(Txs))
    BY <1>3, TakeLemma DEF TakeHash
  <2> QED
    BY <1>3, <2>1 DEF TakeHash
<1>4. CASE FetchHash \/ FetchHashNull
  <2>1. hashJob.data \in Txs
    BY <1>4 DEF FetchHash, FetchHashNull, JobOf
  <2>2. Append(handleSends, hashJob.data) \in Seq(Txs)
    BY <2>1
  <2> QED
    BY <1>4, <2>1, <2>2 DEF FetchHash, FetchHashNull
<1>5. CASE HandleJobLands
  <2>1. Head(handleSends) \in Txs /\ Tail(handleSends) \in Seq(Txs)
    BY <1>5, ArriveLemma DEF HandleJobLands
  <2>2. Add(handleTxQueue, Head(handleSends)) \in Seq(JobOf(Txs))
    BY <2>1, AddLemma
  <2> QED
    BY <1>5, <2>1, <2>2 DEF HandleJobLands
<1>6. CASE CrashCrawlTx
  <2>1. InFlight(handleSends) \subseteq Txs
    BY DEF InFlight
  <2>2. hashOrphans' \in Seq(JobOf(Txs))
    BY <1>6 DEF CrashCrawlTx
  <2>3. /\ lostFetches' \in SUBSET Txs /\ fetching' \in [Txs -> Nat]
        /\ handleSends' \in Seq(Txs) /\ txCrashes' \in Nat
    BY <1>6, <2>1, EmptyLemma DEF CrashCrawlTx
  <2> QED
    BY <1>6, <2>2, <2>3 DEF CrashCrawlTx
<1>7. CASE RecoverHash
  <2>1. /\ Head(hashOrphans) \in JobOf(Txs) /\ Head(hashOrphans).data \in Txs
        /\ Tail(hashOrphans) \in Seq(JobOf(Txs))
    BY <1>7, TakeLemma DEF RecoverHash
  <2>2. Requeue(hashQueue, Head(hashOrphans)) \in Seq(JobOf(Txs))
    BY <2>1, RequeueLemma
  <2> QED
    BY <1>7, <2>1, <2>2 DEF RecoverHash
<1> QED
  BY <1>1, <1>2, <1>3, <1>4, <1>5, <1>6, <1>7 DEF CrawlTxNext

\* What worker w is at, if it is at work.
WorkOf(w) == IF txStep[w] \in {"announced", "insert"} THEN {txJob[w].data} ELSE {}

\* A step of worker w leaves alone what the others are at.
LEMMA WorkLemma ==
    ASSUME NEW w \in TxWorkers,
           \A v \in TxWorkers \ {w} : txStep'[v] = txStep[v] /\ txJob'[v] = txJob[v]
    PROVE  /\ AtWork \subseteq AtWork' \union WorkOf(w)
           /\ AtWork' \subseteq AtWork \union WorkOf(w)'
           /\ WorkOf(w) \subseteq AtWork
           /\ WorkOf(w)' \subseteq AtWork'
BY DEF AtWork, WorkOf

LEMMA HandleTxTypeStep ==
    TxTypeInv /\ HandleTxNext
        => HandleTxTypeOK' /\ (handleTxQueue \in Seq(JobOf(Txs)))' /\ (hashQueue \in Seq(JobOf(Txs)))'
<1> DEFINE Good == /\ HandleTxTypeOK
                   /\ handleTxQueue \in Seq(JobOf(Txs))
                   /\ hashQueue \in Seq(JobOf(Txs))
<1> SUFFICES ASSUME TxTypeInv, HandleTxNext PROVE Good'
  OBVIOUS
<1> USE DEF TxTypeInv, TxTypeOK, TxQueuesTypeOK
<1>0. \A w \in TxWorkers : txStep[w] # "idle" => txJob[w] \in JobOf(Txs) /\ txJob[w].data \in Txs
  BY DEF HandleTxTypeOK, JobOf
<1>1. ASSUME NEW w \in TxWorkers, AnnounceTx(w)
      PROVE  Good'
  <2>1. /\ Head(handleTxQueue) \in JobOf(Txs) /\ Head(handleTxQueue).data \in Txs
        /\ Tail(handleTxQueue) \in Seq(JobOf(Txs))
    BY <1>1, TakeLemma DEF AnnounceTx
  <2>2. jobSends' \in [TxWorkers -> SUBSET (Txs \X Downstream)]
    BY <1>1, <2>1 DEF AnnounceTx, HandleTxTypeOK
  <2> QED
    BY <1>1, <2>1, <2>2, NoTxJobAssumption DEF AnnounceTx, HandleTxTypeOK
<1>2. ASSUME NEW w \in TxWorkers, RejectTx(w)
      PROVE  Good'
  <2>1. /\ Head(handleTxQueue) \in JobOf(Txs) /\ Head(handleTxQueue).data \in Txs
        /\ Tail(handleTxQueue) \in Seq(JobOf(Txs))
    BY <1>2, TakeLemma DEF RejectTx
  <2>2. Append(hashSends[w], Head(handleTxQueue).data) \in Seq(Txs)
    BY <2>1 DEF HandleTxTypeOK
  <2> QED
    BY <1>2, <2>1, <2>2, NoTxJobAssumption DEF RejectTx, HandleTxTypeOK
<1>3. ASSUME NEW w \in TxWorkers, FindTx(w)
      PROVE  Good'
  BY <1>3 DEF FindTx, HandleTxTypeOK
<1>4. ASSUME NEW w \in TxWorkers, InsertTx(w)
      PROVE  Good'
  <2>1. txJob[w].data \in Txs \ Malformed
    BY <1>0, <1>4 DEF InsertTx, WellFormedInv, AtWork
  <2> QED
    BY <1>4, <2>1 DEF InsertTx, HandleTxTypeOK
<1>5. ASSUME NEW w \in TxWorkers, RetryTx(w)
      PROVE  Good'
  <2>1. txJob[w].data \in Txs
    BY <1>0, <1>5 DEF RetryTx
  <2>2. Append(hashSends[w], txJob[w].data) \in Seq(Txs)
    BY <2>1 DEF HandleTxTypeOK
  <2>3. txWriteErrors' \in Nat
    BY <1>5 DEF RetryTx, HandleTxTypeOK
  <2>4. txStep[w] # "idle" /\ txStep' = [txStep EXCEPT ![w] = "done"]
    BY <1>5 DEF RetryTx
  <2> QED
    BY <1>5, <2>2, <2>3, <2>4 DEF RetryTx, HandleTxTypeOK
<1>6. ASSUME NEW w \in TxWorkers, CompleteTx(w)
      PROVE  Good'
  BY <1>6 DEF CompleteTx, HandleTxTypeOK
<1>7. ASSUME NEW w \in TxWorkers, DownstreamJobLands(w)
      PROVE  Good'
  BY <1>7 DEF DownstreamJobLands, HandleTxTypeOK
<1>8. ASSUME NEW w \in TxWorkers, RetryLands(w)
      PROVE  Good'
  <2>1. Head(hashSends[w]) \in Txs /\ Tail(hashSends[w]) \in Seq(Txs)
    BY <1>8, ArriveLemma DEF RetryLands, HandleTxTypeOK
  <2>2. Add(hashQueue, Head(hashSends[w])) \in Seq(JobOf(Txs))
    BY <2>1, AddLemma
  <2> QED
    BY <1>8, <2>1, <2>2 DEF RetryLands, HandleTxTypeOK
<1>9. ASSUME NEW w \in TxWorkers, CrashTxHandler(w)
      PROVE  Good'
  <2>1. InFlight(hashSends[w]) \subseteq Txs
    BY DEF InFlight, HandleTxTypeOK
  <2>2. txOrphans' \in Seq(JobOf(Txs))
    BY <1>0, <1>9 DEF CrashTxHandler, HandleTxTypeOK
  <2>3. /\ lostJobs' \in SUBSET (Txs \X Downstream)
        /\ jobSends' \in [TxWorkers -> SUBSET (Txs \X Downstream)]
    BY <1>9 DEF CrashTxHandler, HandleTxTypeOK
  <2>4. lostRetries' \in SUBSET Txs /\ hashSends' \in [TxWorkers -> Seq(Txs)]
    BY <1>9, <2>1, EmptyLemma DEF CrashTxHandler, HandleTxTypeOK
  <2>5. /\ txStep' \in [TxWorkers -> {"idle", "announced", "insert", "done"}]
        /\ txJob' \in [TxWorkers -> JobOf(Txs) \union {NoTxJob}]
        /\ \A v \in TxWorkers : txStep'[v] = "idle" <=> txJob'[v] = NoTxJob
    BY <1>9 DEF CrashTxHandler, HandleTxTypeOK
  <2>6. /\ txHandlerCrashes' \in Nat
        /\ UNCHANGED <<handleTxQueue, hashQueue, stalledTxs, storedTxs, downstream, txWriteErrors>>
    BY <1>9 DEF CrashTxHandler, HandleTxTypeOK
  <2> QED
    BY <2>2, <2>3, <2>4, <2>5, <2>6 DEF HandleTxTypeOK
<1>10. CASE RecoverTx
  <2>1. /\ Head(txOrphans) \in JobOf(Txs) /\ Head(txOrphans).data \in Txs
        /\ Tail(txOrphans) \in Seq(JobOf(Txs))
    BY <1>10, TakeLemma DEF RecoverTx, HandleTxTypeOK
  <2>2. Requeue(handleTxQueue, Head(txOrphans)) \in Seq(JobOf(Txs))
    BY <2>1, RequeueLemma
  <2> QED
    BY <1>10, <2>1, <2>2 DEF RecoverTx, HandleTxTypeOK
<1> QED
  BY <1>1, <1>2, <1>3, <1>4, <1>5, <1>6, <1>7, <1>8, <1>9, <1>10 DEF HandleTxNext

\* A worker begins with a transaction that deserializes, or with none.
LEMMA WellFormedStep ==
    TxTypeInv /\ HandleTxNext => WellFormedInv'
<1> SUFFICES ASSUME TxTypeInv, HandleTxNext PROVE WellFormedInv'
  OBVIOUS
<1> USE DEF TxTypeInv, TxTypeOK
<1>1. ASSUME NEW w \in TxWorkers,
             \A v \in TxWorkers \ {w} : txStep'[v] = txStep[v] /\ txJob'[v] = txJob[v],
             WorkOf(w)' \subseteq AtWork \/ WorkOf(w)' \intersect Malformed = {}
      PROVE  WellFormedInv'
  BY <1>1, WorkLemma DEF WellFormedInv
<1>2. ASSUME NEW w \in TxWorkers, AnnounceTx(w)
      PROVE  WellFormedInv'
  BY <1>1, <1>2 DEF AnnounceTx, WorkOf, HandleTxTypeOK
<1>3. ASSUME NEW w \in TxWorkers,
             RejectTx(w) \/ InsertTx(w) \/ RetryTx(w) \/ CompleteTx(w) \/ CrashTxHandler(w)
      PROVE  WellFormedInv'
  <2>1. /\ \A v \in TxWorkers \ {w} : txStep'[v] = txStep[v] /\ txJob'[v] = txJob[v]
        /\ txStep'[w] \in {"idle", "done"}
    BY <1>3 DEF RejectTx, InsertTx, RetryTx, CompleteTx, CrashTxHandler, HandleTxTypeOK
  <2>2. WorkOf(w)' = {}
    BY <2>1 DEF WorkOf
  <2> QED
    BY <1>1, <2>1, <2>2
<1>4. ASSUME NEW w \in TxWorkers, FindTx(w)
      PROVE  WellFormedInv'
  <2>1. /\ \A v \in TxWorkers \ {w} : txStep'[v] = txStep[v] /\ txJob'[v] = txJob[v]
        /\ txStep[w] = "announced" /\ txJob'[w] = txJob[w]
    BY <1>4 DEF FindTx, HandleTxTypeOK
  <2>2. WorkOf(w)' \subseteq AtWork
    BY <2>1 DEF WorkOf, AtWork
  <2> QED
    BY <1>1, <2>1, <2>2
<1>5. CASE UNCHANGED <<txStep, txJob>>
  BY <1>5 DEF WellFormedInv, AtWork
<1> QED
  BY <1>2, <1>3, <1>4, <1>5 DEF HandleTxNext, DownstreamJobLands, RetryLands, RecoverTx

LEMMA NextTxTypeInv == TxTypeInv /\ [TxNext]_txVars => TxTypeInv'
<1> SUFFICES ASSUME TxTypeInv, [TxNext]_txVars PROVE TxTypeInv'
  OBVIOUS
<1> USE DEF TxTypeInv, TxTypeOK
<1>1. CASE HandOverList
  <2>1. (txListQueue \in Seq(JobOf(DOMAIN TxsOf)))'
    BY <1>1, AddLemma DEF HandOverList, TxQueuesTypeOK
  <2> QED
    BY <1>1, <2>1 DEF HandOverList, TxQueuesTypeOK, CrawlTxTypeOK, HandleTxTypeOK, WellFormedInv,
                      AtWork, crawlTxOwnVars, handleTxOwnVars
<1>2. CASE CrawlTxNext /\ UNCHANGED <<handleTxOwnVars, lists>>
  <2>1. HandleTxTypeOK' /\ WellFormedInv'
    BY <1>2 DEF HandleTxTypeOK, WellFormedInv, AtWork, handleTxOwnVars
  <2> QED
    BY <1>2, <2>1, CrawlTxTypeStep
<1>3. CASE HandleTxNext /\ UNCHANGED <<txListQueue, crawlTxOwnVars, lists>>
  <2>1. CrawlTxTypeOK'
    BY <1>3 DEF CrawlTxTypeOK, crawlTxOwnVars
  <2>2. TxQueuesTypeOK'
    BY <1>3, HandleTxTypeStep DEF TxQueuesTypeOK
  <2> QED
    BY <1>3, <2>1, <2>2, HandleTxTypeStep, WellFormedStep
<1>4. CASE UNCHANGED txVars
  BY <1>4 DEF TxQueuesTypeOK, CrawlTxTypeOK, HandleTxTypeOK, WellFormedInv, AtWork,
              txVars, crawlTxOwnVars, handleTxOwnVars
<1> QED
  BY <1>1, <1>2, <1>3, <1>4 DEF TxNext

LEMMA TxTypeInvariant == TxSpec => []TxTypeInv
<1> QED
  BY InitTxTypeInv, NextTxTypeInv, PTL DEF TxSpec

\* Every variable keeps its type: an idle worker has no job, and nothing is
\* stored that does not deserialize.
THEOREM TxTypeCorrect == TxSpec => []TxTypeOK
<1>1. TxTypeInv => TxTypeOK
  BY DEF TxTypeInv
<1> QED
  BY <1>1, TxTypeInvariant, PTL

-----------------------------------------------------------------------------
(* No step takes a transaction out of custody.                                *)

\* The transactions worker w asks for again.
AskedBy(w) == InFlight(hashSends[w])

\* What the workers other than w hold.
HeldByOthers(w) ==
    UNION {WorkOf(v) \union AskedBy(v) : v \in TxWorkers \ {w}}

\* A step of worker w leaves alone what the others hold.
LEMMA HeldLemma ==
    ASSUME NEW w \in TxWorkers,
           \A v \in TxWorkers \ {w} :
              txStep'[v] = txStep[v] /\ txJob'[v] = txJob[v] /\ hashSends'[v] = hashSends[v]
    PROVE  /\ HandleHeld = Waiting(txOrphans) \union HeldByOthers(w) \union WorkOf(w) \union AskedBy(w)
           /\ HandleHeld' = Waiting(txOrphans') \union HeldByOthers(w) \union WorkOf(w)' \union AskedBy(w)'
<1>1. HandleHeld = Waiting(txOrphans) \union UNION {WorkOf(v) \union AskedBy(v) : v \in TxWorkers}
  BY DEF HandleHeld, AtWork, WorkOf, AskedBy
<1>2. HandleHeld' = Waiting(txOrphans') \union UNION {WorkOf(v)' \union AskedBy(v)' : v \in TxWorkers}
  BY DEF HandleHeld, AtWork, WorkOf, AskedBy
<1>3. \A v \in TxWorkers \ {w} : WorkOf(v)' = WorkOf(v) /\ AskedBy(v)' = AskedBy(v)
  BY DEF WorkOf, AskedBy
<1> QED
  BY <1>1, <1>2, <1>3 DEF HeldByOthers

\* crawl-transaction starts fetches, and passes on or loses what it holds.
LEMMA CrawlCustody ==
    ASSUME TxTypeOK, CrawlTxNext, UNCHANGED handleTxOwnVars
    PROVE  Custody \subseteq Custody' /\ startedTxs' \subseteq startedTxs \union Custody'
<1> DEFINE Good == Custody \subseteq Custody' /\ startedTxs' \subseteq startedTxs \union Custody'
<1> USE DEF TxTypeOK, TxQueuesTypeOK, CrawlTxTypeOK
<1>0. /\ HandleHeld' = HandleHeld
      /\ UNCHANGED <<storedTxs, lostRetries, stalledTxs>>
  BY DEF HandleHeld, AtWork, handleTxOwnVars
<1>1. CASE StartFetches
  <2>1. Head(txListQueue).data \in DOMAIN TxsOf
    BY <1>1, TakeLemma DEF StartFetches
  <2> DEFINE new == TxsOf[Head(txListQueue).data]
  <2>2. new \subseteq Txs
    BY <2>1, CrawlTransactionAssumption
  <2>3. \A t \in Txs : fetching'[t] = IF t \in new THEN fetching[t] + 1 ELSE fetching[t]
    BY <1>1 DEF StartFetches
  <2>4. new \subseteq {t \in Txs : fetching'[t] > 0}
    BY <2>2, <2>3
  <2>5. {t \in Txs : fetching[t] > 0} \subseteq {t \in Txs : fetching'[t] > 0}
    BY <2>3
  <2>6. /\ startedTxs' = startedTxs \union new
        /\ UNCHANGED <<handleTxQueue, hashQueue, hashJob, hashOrphans, handleSends, droppedTxs,
                       lostFetches, stalledHashes>>
    BY <1>1 DEF StartFetches
  <2> QED
    BY <1>0, <2>4, <2>5, <2>6 DEF Custody, CrawlHeld, TxGone
<1>2. ASSUME NEW t \in Txs, FetchTx(t) \/ FetchTxNull(t)
      PROVE  Good
  <2>1. {s \in Txs : fetching[s] > 0} \subseteq {s \in Txs : fetching'[s] > 0} \union {t}
    BY <1>2 DEF FetchTx, FetchTxNull
  <2>2. CASE FetchTx(t)
    <3>1. InFlight(handleSends') = InFlight(handleSends) \union {t}
      BY <2>2, SendOneLemma DEF FetchTx
    <3> QED
      BY <1>0, <2>1, <2>2, <3>1 DEF FetchTx, Custody, CrawlHeld, TxGone
  <2>3. CASE FetchTxNull(t)
    BY <1>0, <2>1, <2>3 DEF FetchTxNull, Custody, CrawlHeld, TxGone
  <2> QED
    BY <1>2, <2>2, <2>3
<1>3. CASE TakeHash
  <2>1. /\ Waiting(hashQueue) = {hashJob'.data} \union Waiting(hashQueue')
        /\ hashJob' # NoHashJob
    BY <1>3, TakeLemma, NoHashJobLemma DEF TakeHash
  <2> QED
    BY <1>0, <1>3, <2>1 DEF TakeHash, Custody, CrawlHeld, TxGone
<1>4. CASE FetchHash
  <2>1. InFlight(handleSends') = InFlight(handleSends) \union {hashJob.data}
    BY <1>4, SendOneLemma DEF FetchHash, JobOf
  <2> QED
    BY <1>0, <1>4, <2>1 DEF FetchHash, Custody, CrawlHeld, TxGone
<1>5. CASE FetchHashNull
  BY <1>0, <1>5 DEF FetchHashNull, Custody, CrawlHeld, TxGone
<1>6. CASE HandleJobLands
  <2>1. /\ Head(handleSends) \in Txs
        /\ InFlight(handleSends) = {Head(handleSends)} \union InFlight(handleSends')
    BY <1>6, ArriveLemma DEF HandleJobLands
  <2>2. Waiting(handleTxQueue') = Waiting(handleTxQueue) \union {Head(handleSends)}
    <3> DEFINE sent == Head(handleSends)
    <3> HIDE DEF sent
    <3>1. handleTxQueue \in Seq(JobOf(Txs)) /\ sent \in Txs
      BY <2>1 DEF sent
    <3>2. Waiting(Add(handleTxQueue, sent)) = Waiting(handleTxQueue) \union {sent}
      BY <3>1, AddLemma
    <3> QED
      BY <1>6, <3>2 DEF HandleJobLands, sent
  <2> QED
    BY <1>0, <1>6, <2>1, <2>2 DEF HandleJobLands, Custody, CrawlHeld, TxGone
<1>7. CASE CrashCrawlTx
  <2>1. Waiting(hashOrphans') = Waiting(hashOrphans)
                \union (IF hashJob = NoHashJob THEN {} ELSE {hashJob.data})
    <3>1. CASE hashJob = NoHashJob
      BY <1>7, <3>1 DEF CrashCrawlTx
    <3>2. CASE hashJob # NoHashJob
      BY <1>7, <3>2, AppendLemma DEF CrashCrawlTx
    <3> QED
      BY <3>1, <3>2
  <2>2. /\ {t \in Txs : fetching[t] > 0} \union InFlight(handleSends) \subseteq lostFetches'
        /\ lostFetches \subseteq lostFetches'
        /\ UNCHANGED <<startedTxs, handleTxQueue, hashQueue, droppedTxs, stalledHashes>>
    BY <1>7 DEF CrashCrawlTx
  <2>3. CrawlHeld \subseteq CrawlHeld' \union lostFetches'
    BY <2>1, <2>2 DEF CrawlHeld
  <2> QED
    BY <1>0, <2>2, <2>3 DEF Custody, TxGone
<1>8. CASE RecoverHash
  <2>1. /\ Head(hashOrphans) \in JobOf(Txs)
        /\ Waiting(hashOrphans) = {Head(hashOrphans).data} \union Waiting(hashOrphans')
    BY <1>8, TakeLemma DEF RecoverHash
  <2>2. /\ Waiting(hashQueue) \subseteq Waiting(hashQueue')
        /\ stalledHashes \subseteq stalledHashes'
        /\ Head(hashOrphans).data \in Waiting(hashQueue') \union stalledHashes'
    <3>1. CASE Head(hashOrphans).stalled
      BY <1>8, <3>1 DEF RecoverHash
    <3>2. CASE ~Head(hashOrphans).stalled
      <4>1. Waiting(hashQueue') = Waiting(hashQueue) \union {Head(hashOrphans).data}
        <5>1. hashQueue' = Requeue(hashQueue, Head(hashOrphans))
          BY <1>8, <3>2 DEF RecoverHash
        <5>2. hashQueue \in Seq(JobOf(Txs)) /\ Head(hashOrphans) \in JobOf(Txs)
          BY <2>1
        <5> QED
          BY <5>1, <5>2, RequeueLemma
      <4> QED
        BY <1>8, <3>2, <4>1 DEF RecoverHash
    <3> QED
      BY <3>1, <3>2
  <2> QED
    BY <1>0, <1>8, <2>1, <2>2 DEF RecoverHash, Custody, CrawlHeld, TxGone
<1> QED
  BY <1>1, <1>2, <1>3, <1>4, <1>5, <1>6, <1>7, <1>8 DEF CrawlTxNext

\* handle-transaction stores what it takes, asks for it again, or leaves it to the
\* job that runs again; what a crash loses is written down.
LEMMA HandleCustody ==
    ASSUME TxTypeOK, HandleTxNext, UNCHANGED crawlTxOwnVars
    PROVE  Custody \subseteq Custody'
<1> DEFINE Good == Custody \subseteq Custody'
           OthersKept(w) == \A v \in TxWorkers \ {w} :
              txStep'[v] = txStep[v] /\ txJob'[v] = txJob[v] /\ hashSends'[v] = hashSends[v]
<1> USE DEF TxTypeOK, TxQueuesTypeOK
<1>0. CrawlHeld' = CrawlHeld /\ UNCHANGED <<droppedTxs, lostFetches, stalledHashes>>
  BY DEF CrawlHeld, crawlTxOwnVars
<1>1. ASSUME NEW w \in TxWorkers, AnnounceTx(w)
      PROVE  Good
  <2>1. Waiting(handleTxQueue) = {Head(handleTxQueue).data} \union Waiting(handleTxQueue')
    BY <1>1, TakeLemma DEF AnnounceTx
  <2>2. /\ OthersKept(w) /\ txStep[w] = "idle"
        /\ txStep'[w] = "announced" /\ txJob'[w] = Head(handleTxQueue)
        /\ UNCHANGED <<hashQueue, txOrphans, stalledTxs, storedTxs, hashSends, lostRetries>>
    BY <1>1 DEF AnnounceTx, HandleTxTypeOK
  <2>3. WorkOf(w) = {} /\ WorkOf(w)' = {Head(handleTxQueue).data} /\ AskedBy(w)' = AskedBy(w)
    BY <2>2 DEF WorkOf, AskedBy
  <2> QED
    BY <1>0, <2>1, <2>2, <2>3, HeldLemma DEF Custody, TxGone
<1>2. ASSUME NEW w \in TxWorkers, RejectTx(w)
      PROVE  Good
  <2>1. /\ Waiting(handleTxQueue) = {Head(handleTxQueue).data} \union Waiting(handleTxQueue')
        /\ Head(handleTxQueue).data \in Txs
    BY <1>2, TakeLemma DEF RejectTx
  <2>2. /\ OthersKept(w) /\ txStep[w] = "idle"
        /\ hashSends[w] \in Seq(Txs)
        /\ hashSends'[w] = Append(hashSends[w], Head(handleTxQueue).data)
        /\ UNCHANGED <<hashQueue, txOrphans, stalledTxs, storedTxs, lostRetries>>
    BY <1>2 DEF RejectTx, HandleTxTypeOK
  <2>3. WorkOf(w) = {} /\ AskedBy(w)' = AskedBy(w) \union {Head(handleTxQueue).data}
    BY <2>1, <2>2, SendOneLemma DEF WorkOf, AskedBy
  <2> QED
    BY <1>0, <2>1, <2>2, <2>3, HeldLemma DEF Custody, TxGone
<1>3. ASSUME NEW w \in TxWorkers, FindTx(w) \/ InsertTx(w)
      PROVE  Good
  <2>1. /\ OthersKept(w)
        /\ txJob'[w] = txJob[w] /\ storedTxs \subseteq storedTxs'
        /\ txStep'[w] = "insert" \/ txJob[w].data \in storedTxs'
        /\ UNCHANGED <<handleTxQueue, hashQueue, txOrphans, stalledTxs, hashSends, lostRetries>>
    BY <1>3 DEF FindTx, InsertTx, HandleTxTypeOK
  <2>2. WorkOf(w) \subseteq WorkOf(w)' \union storedTxs' /\ AskedBy(w)' = AskedBy(w)
    BY <2>1 DEF WorkOf, AskedBy
  <2> QED
    BY <1>0, <2>1, <2>2, HeldLemma DEF Custody, TxGone
<1>4. ASSUME NEW w \in TxWorkers, RetryTx(w)
      PROVE  Good
  <2>1. txStep[w] \in {"announced", "insert"} /\ txStep' = [txStep EXCEPT ![w] = "done"]
    BY <1>4 DEF RetryTx
  <2>2. txJob[w].data \in Txs
    BY <2>1 DEF HandleTxTypeOK, JobOf
  <2>3. /\ OthersKept(w)
        /\ hashSends[w] \in Seq(Txs)
        /\ hashSends'[w] = Append(hashSends[w], txJob[w].data)
        /\ UNCHANGED <<handleTxQueue, hashQueue, txOrphans, stalledTxs, storedTxs, lostRetries>>
    BY <1>4, <2>1 DEF RetryTx, HandleTxTypeOK
  <2>4. WorkOf(w) = {txJob[w].data} /\ AskedBy(w)' = AskedBy(w) \union {txJob[w].data}
    BY <2>1, <2>2, <2>3, SendOneLemma DEF WorkOf, AskedBy
  <2> QED
    BY <1>0, <2>3, <2>4, HeldLemma DEF Custody, TxGone
<1>5. ASSUME NEW w \in TxWorkers, CompleteTx(w)
      PROVE  Good
  <2>1. /\ OthersKept(w) /\ txStep[w] = "done"
        /\ UNCHANGED <<handleTxQueue, hashQueue, txOrphans, stalledTxs, storedTxs, hashSends,
                       lostRetries>>
    BY <1>5 DEF CompleteTx, HandleTxTypeOK
  <2>2. WorkOf(w) = {} /\ AskedBy(w)' = AskedBy(w)
    BY <2>1 DEF WorkOf, AskedBy
  <2> QED
    BY <1>0, <2>1, <2>2, HeldLemma DEF Custody, TxGone
<1>6. ASSUME NEW w \in TxWorkers, DownstreamJobLands(w)
      PROVE  Good
  BY <1>0, <1>6 DEF DownstreamJobLands, Custody, TxGone, HandleHeld, AtWork
<1>7. ASSUME NEW w \in TxWorkers, RetryLands(w)
      PROVE  Good
  <2>1. /\ OthersKept(w) /\ hashSends[w] \in Seq(Txs) /\ hashSends[w] # <<>>
        /\ hashSends'[w] = Tail(hashSends[w])
        /\ hashQueue' = Add(hashQueue, Head(hashSends[w]))
        /\ UNCHANGED <<handleTxQueue, txStep, txJob, txOrphans, stalledTxs, storedTxs, lostRetries>>
    BY <1>7 DEF RetryLands, HandleTxTypeOK
  <2>2. /\ Head(hashSends[w]) \in Txs
        /\ InFlight(hashSends[w]) = {Head(hashSends[w])} \union InFlight(Tail(hashSends[w]))
    BY <2>1, ArriveLemma
  <2>3. Waiting(Add(hashQueue, Head(hashSends[w]))) = Waiting(hashQueue) \union {Head(hashSends[w])}
    BY <2>2, AddLemma
  <2>4. AskedBy(w) = {Head(hashSends[w])} \union AskedBy(w)' /\ WorkOf(w)' = WorkOf(w)
    BY <2>1, <2>2 DEF AskedBy, WorkOf
  <2> QED
    BY <1>0, <2>1, <2>3, <2>4, HeldLemma DEF Custody, TxGone
<1>8. ASSUME NEW w \in TxWorkers, CrashTxHandler(w)
      PROVE  Good
  <2>1. /\ OthersKept(w)
        /\ lostRetries' = lostRetries \union (InFlight(hashSends[w]) \ ActiveTx(w))
        /\ UNCHANGED <<handleTxQueue, hashQueue, stalledTxs, storedTxs>>
    BY <1>8 DEF CrashTxHandler, HandleTxTypeOK
  <2>2. Waiting(txOrphans') = Waiting(txOrphans) \union ActiveTx(w)
    <3>1. CASE txStep[w] = "idle"
      BY <1>8, <3>1 DEF CrashTxHandler, ActiveTx
    <3>2. CASE txStep[w] # "idle"
      <4>1. txJob[w] \in JobOf(Txs) /\ txOrphans \in Seq(JobOf(Txs))
        BY <3>2 DEF HandleTxTypeOK
      <4>2. txOrphans' = Append(txOrphans, txJob[w]) /\ ActiveTx(w) = {txJob[w].data}
        BY <1>8, <3>2 DEF CrashTxHandler, ActiveTx
      <4> QED
        BY <4>1, <4>2, AppendLemma
    <3> QED
      BY <3>1, <3>2
  <2>3. WorkOf(w) \subseteq ActiveTx(w) /\ AskedBy(w) \subseteq lostRetries' \union ActiveTx(w)
    BY <2>1 DEF WorkOf, AskedBy, ActiveTx
  <2> QED
    BY <1>0, <2>1, <2>2, <2>3, HeldLemma DEF Custody, TxGone
<1>9. CASE RecoverTx
  <2>1. /\ Head(txOrphans) \in JobOf(Txs)
        /\ Waiting(txOrphans) = {Head(txOrphans).data} \union Waiting(txOrphans')
    BY <1>9, TakeLemma DEF RecoverTx, HandleTxTypeOK
  <2>2. /\ Waiting(handleTxQueue) \subseteq Waiting(handleTxQueue')
        /\ stalledTxs \subseteq stalledTxs'
        /\ Head(txOrphans).data \in Waiting(handleTxQueue') \union stalledTxs'
    <3>1. CASE Head(txOrphans).stalled
      BY <1>9, <3>1 DEF RecoverTx
    <3>2. CASE ~Head(txOrphans).stalled
      <4>1. Waiting(handleTxQueue') = Waiting(handleTxQueue) \union {Head(txOrphans).data}
        BY <1>9, <2>1, <3>2, RequeueLemma DEF RecoverTx
      <4> QED
        BY <1>9, <3>2, <4>1 DEF RecoverTx
    <3> QED
      BY <3>1, <3>2
  <2>3. UNCHANGED <<hashQueue, txStep, txJob, storedTxs, hashSends, lostRetries>>
    BY <1>9 DEF RecoverTx
  <2> QED
    BY <1>0, <2>1, <2>2, <2>3 DEF Custody, TxGone, HandleHeld, AtWork
<1> QED
  BY <1>1, <1>2, <1>3, <1>4, <1>5, <1>6, <1>7, <1>8, <1>9 DEF HandleTxNext

LEMMA CustodyStep ==
    TxTypeOK /\ [TxNext]_txVars
        => Custody \subseteq Custody' /\ startedTxs' \subseteq startedTxs \union Custody'
<1> SUFFICES ASSUME TxTypeOK, [TxNext]_txVars
             PROVE  Custody \subseteq Custody' /\ startedTxs' \subseteq startedTxs \union Custody'
  OBVIOUS
<1>1. CASE CrawlTxNext /\ UNCHANGED <<handleTxOwnVars, lists>>
  BY <1>1, CrawlCustody
<1>2. CASE HandleTxNext /\ UNCHANGED <<txListQueue, crawlTxOwnVars, lists>>
  BY <1>2, HandleCustody DEF crawlTxOwnVars
<1>3. CASE HandOverList \/ UNCHANGED txVars
  BY <1>3 DEF HandOverList, txVars, crawlTxOwnVars, handleTxOwnVars, Custody, CrawlHeld, HandleHeld,
              AtWork, TxGone
<1> QED
  BY <1>1, <1>2, <1>3 DEF TxNext

\* Whatever is in custody stays there: a transaction that was ever on its way,
\* stored or lost for a cause is so for ever (handle-transaction.service.ts:52-70).
THEOREM CustodyIsKept == TxSpec => [][Custody \subseteq Custody']_txVars
<1>1. TxTypeInv => TxTypeOK
  BY DEF TxTypeInv
<1> QED
  BY <1>1, CustodyStep, TxTypeInvariant, PTL DEF TxSpec

\* A transaction whose fetch was started is on its way, stored, or lost for a
\* cause: no crash, retry or failed write loses one silently.
THEOREM EveryTxAccounted == TxSpec => []TxAccounted
<1>1. TxInit => CustodyInv
  BY DEF TxInit, CrawlTxInit, CustodyInv
<1>2. TxTypeInv /\ CustodyInv /\ [TxNext]_txVars => CustodyInv'
  BY CustodyStep DEF TxTypeInv, CustodyInv
<1>3. CustodyInv => TxAccounted
  <2>1. AtWork \subseteq UNION {ActiveTx(w) : w \in TxWorkers}
    BY DEF AtWork, ActiveTx
  <2>2. CrawlHeld \union HandleHeld \union Waiting(handleTxQueue) \union Waiting(hashQueue)
            \subseteq TxPending
    BY <2>1 DEF CrawlHeld, HandleHeld, TxPending
  <2> QED
    BY <2>2 DEF CustodyInv, Custody, TxAccounted
<1> QED
  BY <1>1, <1>2, <1>3, TxTypeInvariant, PTL DEF TxSpec

-----------------------------------------------------------------------------
(* Downstream hears of what is stored.                                        *)

\* No step makes a transaction that deserializes unheard.
LEMMA HeardStep ==
    ASSUME TxTypeOK, [TxNext]_txVars, NEW t \in Txs \ Malformed, NEW q \in Downstream, Heard(t, q)
    PROVE  Heard(t, q)'
<1> USE DEF TxTypeOK, TxQueuesTypeOK
<1>1. CASE CrawlTxNext /\ UNCHANGED <<handleTxOwnVars, lists>>
  <2>1. Waiting(handleTxQueue) \subseteq Waiting(handleTxQueue')
    <3>1. CASE HandleJobLands
      <4>1. Head(handleSends) \in Txs
        BY <3>1, ArriveLemma DEF HandleJobLands, CrawlTxTypeOK
      <4>2. Waiting(Add(handleTxQueue, Head(handleSends)))
                = Waiting(handleTxQueue) \union {Head(handleSends)}
        BY <4>1, AddLemma
      <4> QED
        BY <3>1, <4>2 DEF HandleJobLands
    <3>2. CASE ~HandleJobLands
      <4>1. handleTxQueue' = handleTxQueue
        BY <1>1, <3>2
        DEF CrawlTxNext, StartFetches, FetchTx, FetchTxNull, TakeHash, FetchHash, FetchHashNull,
            CrashCrawlTx, RecoverHash
      <4> QED
        BY <4>1
    <3> QED
      BY <3>1, <3>2
  <2> QED
    BY <1>1, <2>1 DEF Heard, handleTxOwnVars
<1>2. CASE HandleTxNext
  <2>1. ASSUME NEW w \in TxWorkers, AnnounceTx(w) \/ RejectTx(w)
        PROVE  Heard(t, q)'
    <3>1. Waiting(handleTxQueue) = {Head(handleTxQueue).data} \union Waiting(handleTxQueue')
      BY <2>1, TakeLemma DEF AnnounceTx, RejectTx
    <3>2. /\ UNCHANGED <<downstream, lostJobs, txOrphans, stalledTxs>>
          /\ \A v \in TxWorkers : jobSends[v] \subseteq jobSends'[v]
      <4>1. CASE AnnounceTx(w)
        BY <4>1 DEF AnnounceTx, HandleTxTypeOK
      <4>2. CASE RejectTx(w)
        BY <4>2 DEF RejectTx
      <4> QED
        BY <2>1, <4>1, <4>2
    <3>3. t = Head(handleTxQueue).data => <<t, q>> \in jobSends'[w]
      BY <2>1 DEF AnnounceTx, RejectTx, HandleTxTypeOK
    <3> QED
      BY <3>1, <3>2, <3>3 DEF Heard
  <2>2. ASSUME NEW w \in TxWorkers, DownstreamJobLands(w)
        PROVE  Heard(t, q)'
    <3>1. /\ UNCHANGED <<handleTxQueue, lostJobs, txOrphans, stalledTxs>>
          /\ downstream \subseteq downstream'
          /\ \A v \in TxWorkers : jobSends[v] \subseteq jobSends'[v] \union downstream'
      BY <2>2 DEF DownstreamJobLands, HandleTxTypeOK
    <3> QED
      BY <3>1 DEF Heard
  <2>3. ASSUME NEW w \in TxWorkers, CrashTxHandler(w)
        PROVE  Heard(t, q)'
    <3>1. Waiting(txOrphans') = Waiting(txOrphans) \union ActiveTx(w)
      <4>1. CASE txStep[w] = "idle"
        BY <2>3, <4>1 DEF CrashTxHandler, ActiveTx
      <4>2. CASE txStep[w] # "idle"
        <5>1. txJob[w] \in JobOf(Txs) /\ txOrphans \in Seq(JobOf(Txs))
          BY <4>2 DEF HandleTxTypeOK
        <5>2. txOrphans' = Append(txOrphans, txJob[w]) /\ ActiveTx(w) = {txJob[w].data}
          BY <2>3, <4>2 DEF CrashTxHandler, ActiveTx
        <5> QED
          BY <5>1, <5>2, AppendLemma
      <4> QED
        BY <4>1, <4>2
    <3>2. /\ UNCHANGED <<handleTxQueue, downstream, stalledTxs>>
          /\ \A v \in TxWorkers \ {w} : jobSends'[v] = jobSends[v]
          /\ lostJobs \subseteq lostJobs'
          /\ jobSends[w] \subseteq lostJobs' \union (ActiveTx(w) \X Downstream)
      BY <2>3 DEF CrashTxHandler, HandleTxTypeOK
    <3>3. <<t, q>> \in jobSends[w] => <<t, q>> \in lostJobs' \/ t \in ActiveTx(w)
      BY <3>2
    <3> QED
      BY <3>1, <3>2, <3>3 DEF Heard
  <2>4. CASE RecoverTx
    <3>1. /\ Head(txOrphans) \in JobOf(Txs)
          /\ Waiting(txOrphans) = {Head(txOrphans).data} \union Waiting(txOrphans')
      BY <2>4, TakeLemma DEF RecoverTx, HandleTxTypeOK
    <3>2. /\ Waiting(handleTxQueue) \subseteq Waiting(handleTxQueue')
          /\ stalledTxs \subseteq stalledTxs'
          /\ Head(txOrphans).data \in Waiting(handleTxQueue') \union stalledTxs'
      <4>1. CASE Head(txOrphans).stalled
        BY <2>4, <4>1 DEF RecoverTx
      <4>2. CASE ~Head(txOrphans).stalled
        <5>1. Waiting(handleTxQueue') = Waiting(handleTxQueue) \union {Head(txOrphans).data}
          BY <2>4, <3>1, <4>2, RequeueLemma DEF RecoverTx
        <5> QED
          BY <2>4, <4>2, <5>1 DEF RecoverTx
      <4> QED
        BY <4>1, <4>2
    <3>3. UNCHANGED <<downstream, lostJobs, jobSends>>
      BY <2>4 DEF RecoverTx
    <3> QED
      BY <3>1, <3>2, <3>3 DEF Heard
  <2>5. CASE UNCHANGED <<handleTxQueue, txOrphans, stalledTxs, downstream, lostJobs, jobSends>>
    BY <2>5 DEF Heard
  <2> QED
    BY <1>2, <2>1, <2>2, <2>3, <2>4, <2>5
    DEF HandleTxNext, FindTx, InsertTx, RetryTx, CompleteTx, RetryLands
<1>3. CASE HandOverList \/ UNCHANGED txVars
  BY <1>3 DEF HandOverList, txVars, handleTxOwnVars, Heard
<1> QED
  BY <1>1, <1>2, <1>3 DEF TxNext

\* A worker that begins announces; only what a worker is at gets stored.
LEMMA NewWorkIsHeard ==
    ASSUME TxTypeOK, [TxNext]_txVars, NEW t \in (storedTxs \union AtWork)',
           t \notin storedTxs \union AtWork, NEW q \in Downstream
    PROVE  Heard(t, q)'
<1> DEFINE Same == storedTxs' \subseteq storedTxs \union AtWork /\ AtWork' \subseteq AtWork
<1> USE DEF TxTypeOK, TxQueuesTypeOK
<1>1. ASSUME NEW w \in TxWorkers, AnnounceTx(w)
      PROVE  Heard(t, q)'
  <2>1. /\ \A v \in TxWorkers \ {w} : txStep'[v] = txStep[v] /\ txJob'[v] = txJob[v]
        /\ txJob'[w] = Head(handleTxQueue) /\ storedTxs' = storedTxs
        /\ {Head(handleTxQueue).data} \X Downstream \subseteq jobSends'[w]
    BY <1>1 DEF AnnounceTx, HandleTxTypeOK
  <2>2. t = Head(handleTxQueue).data
    BY <2>1, WorkLemma DEF WorkOf
  <2> QED
    BY <2>1, <2>2 DEF Heard
<1>2. ASSUME NEW w \in TxWorkers,
             RejectTx(w) \/ RetryTx(w) \/ CompleteTx(w) \/ CrashTxHandler(w) \/ InsertTx(w)
      PROVE  Same
  <2>1. /\ \A v \in TxWorkers \ {w} : txStep'[v] = txStep[v] /\ txJob'[v] = txJob[v]
        /\ txStep'[w] \in {"idle", "done"}
        /\ storedTxs' \subseteq storedTxs \union WorkOf(w)
    BY <1>2 DEF RejectTx, RetryTx, CompleteTx, CrashTxHandler, InsertTx, HandleTxTypeOK, WorkOf
  <2>2. WorkOf(w)' = {}
    BY <2>1 DEF WorkOf
  <2> QED
    BY <2>1, <2>2, WorkLemma
<1>3. ASSUME NEW w \in TxWorkers, FindTx(w)
      PROVE  Same
  <2>1. /\ \A v \in TxWorkers \ {w} : txStep'[v] = txStep[v]
        /\ txStep[w] = "announced" /\ txJob' = txJob /\ storedTxs' = storedTxs
    BY <1>3 DEF FindTx, HandleTxTypeOK
  <2>2. WorkOf(w)' \subseteq WorkOf(w)
    BY <2>1 DEF WorkOf
  <2> QED
    BY <2>1, <2>2, WorkLemma
<1>4. CASE UNCHANGED <<txStep, txJob, storedTxs>>
  BY <1>4 DEF AtWork
<1>5. CASE HandleTxNext
  BY <1>1, <1>2, <1>3, <1>4, <1>5 DEF HandleTxNext, DownstreamJobLands, RetryLands, RecoverTx
<1>6. CASE ~HandleTxNext
  BY <1>4, <1>6 DEF TxNext, HandOverList, txVars, handleTxOwnVars
<1> QED
  BY <1>5, <1>6

LEMMA HeardInvStep == TxTypeInv /\ HeardInv /\ [TxNext]_txVars => HeardInv'
<1> SUFFICES ASSUME TxTypeInv, HeardInv, [TxNext]_txVars,
                    NEW t \in (storedTxs \union AtWork)', NEW q \in Downstream
             PROVE  Heard(t, q)'
  BY DEF HeardInv
<1>1. CASE t \in storedTxs \union AtWork
  <2>1. t \in Txs \ Malformed
    BY <1>1 DEF TxTypeInv, TxTypeOK, HandleTxTypeOK, WellFormedInv, AtWork, JobOf
  <2> QED
    BY <1>1, <2>1, HeardStep DEF HeardInv, TxTypeInv
<1>2. CASE t \notin storedTxs \union AtWork
  BY <1>2, NewWorkIsHeard DEF TxTypeInv
<1> QED
  BY <1>1, <1>2

\* Each downstream queue has the job of a stored transaction, or will have it, or
\* lost it with a process whose job was done.
THEOREM StoredTxsAreHeard == TxSpec => []StoredIsHeardDownstream
<1>1. TxInit => HeardInv
  BY DEF TxInit, HandleTxInit, HeardInv, AtWork
<1>2. HeardInv => StoredIsHeardDownstream
  BY DEF HeardInv, StoredIsHeardDownstream
<1> QED
  BY <1>1, <1>2, HeardInvStep, TxTypeInvariant, PTL DEF TxSpec
=============================================================================
