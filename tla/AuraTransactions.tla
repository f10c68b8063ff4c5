--------------------------- MODULE AuraTransactions ---------------------------
(* services/aura-network: here a block's transactions are fetched by its       *)
(* height, in one answer of tx_search, decoded, announced and stored together. *)
(* handle.block, crawl.transaction and handle.transaction have one consumer     *)
(* each, in one process; a job that fails is not run again, one that stalled    *)
(* is, once.                                                                    *)
EXTENDS Naturals, Sequences, FiniteSets, SequencesExt

CONSTANTS
    AuraBlocks,         \* blocks that crawl-block hands over, some perhaps twice
    InBlock,            \* InBlock[b]: the transactions of block b, in order
    PerPage,            \* transactions in an answer of tx_search
    Undecodable,        \* transactions that the registry cannot decode
    MaxHandOvers,       \* bound: jobs of handle.block for one block
    MaxAuraFaults,      \* bound: answers that are null or early, and failed saves
    MaxAuraCrashes      \* bound: deaths of the process

ASSUME AuraAssumption ==
    /\ DOMAIN InBlock = AuraBlocks /\ \A b \in AuraBlocks : InBlock[b] \in Seq(ToSet(InBlock[b]))
    /\ PerPage \in Nat \ {0}
    /\ {MaxHandOvers, MaxAuraFaults, MaxAuraCrashes} \subseteq Nat

VARIABLES
    blockJobs, auraCrawlJobs, auraTxJobs,  \* wait lists: <<[of, list, stalled]>>
    atBlock, atCrawl, atTx,  \* active jobs: <<>> or <<[job, step, todo]>>
    crawlSends, txSends,  \* createJobs on their way to Redis
    blockDb, txDb,      \* the collections
    failedJobs,         \* failed sets: {<<queue, block>>}
    handOvers,          \* history: jobs of handle.block, by block
    announced,          \* history: announcements of a block's list
    answers,            \* history: the lists a block was answered with
    lostSends,          \* history: blocks whose job died on its way
    auraFaults, auraCrashes

auraVars == <<blockJobs, auraCrawlJobs, auraTxJobs, atBlock, atCrawl, atTx, crawlSends, txSends, blockDb, txDb,
              failedJobs, handOvers, announced, answers, lostSends, auraFaults, auraCrashes>>

waits == <<blockJobs, auraCrawlJobs, auraTxJobs>>
auraSends == <<crawlSends, txSends>>
history == <<handOvers, announced, answers, lostSends>>
faultCounts == <<auraFaults, auraCrashes>>

AuraJob(b, list) == [of |-> b, list |-> list, stalled |-> FALSE]

AuraInit ==
    /\ blockJobs = <<>> /\ auraCrawlJobs = <<>> /\ auraTxJobs = <<>>
    /\ atBlock = <<>> /\ atCrawl = <<>> /\ atTx = <<>>
    /\ crawlSends = <<>> /\ txSends = <<>> /\ blockDb = {} /\ txDb = {} /\ failedJobs = {}
    /\ handOvers = [b \in AuraBlocks |-> 0]
    /\ announced = [b \in AuraBlocks |-> 0]
    /\ answers = [b \in AuraBlocks |-> {}]
    /\ lostSends = {} /\ auraFaults = 0 /\ auraCrashes = 0

HandOverBlock(b) ==
    /\ handOvers[b] < MaxHandOvers
    /\ handOvers' = [handOvers EXCEPT ![b] = @ + 1]
    /\ blockJobs' = Append(blockJobs, AuraJob(b, {}))
    /\ UNCHANGED <<auraCrawlJobs, auraTxJobs, atBlock, atCrawl, atTx, auraSends, blockDb, txDb, failedJobs,
                   announced, answers, lostSends, faultCounts>>

Fault == auraFaults < MaxAuraFaults /\ auraFaults' = auraFaults + 1

\* A createJob that was not awaited reaches Redis; every queue has a connection of its own.
SendLands ==
    /\ \/ /\ crawlSends # <<>> /\ crawlSends' = Tail(crawlSends)
          /\ auraCrawlJobs' = Append(auraCrawlJobs, Head(crawlSends))
          /\ UNCHANGED <<txSends, auraTxJobs>>
       \/ /\ txSends # <<>> /\ txSends' = Tail(txSends)
          /\ auraTxJobs' = Append(auraTxJobs, Head(txSends))
          /\ UNCHANGED <<crawlSends, auraCrawlJobs>>
    /\ UNCHANGED <<blockJobs, atBlock, atCrawl, atTx, blockDb, txDb, failedJobs, history, faultCounts>>

-----------------------------------------------------------------------------
\* handleBlock: find it, and create the job for its transactions whether it is there or not.
FindAuraBlock ==
    /\ atBlock = <<>> /\ blockJobs # <<>>
    /\ LET job == Head(blockJobs) IN
          /\ atBlock' = <<[job |-> job, step |-> IF job.of \in blockDb THEN "done" ELSE "insert", todo |-> {}]>>
          /\ crawlSends' = IF InBlock[job.of] = <<>> THEN crawlSends
                           ELSE Append(crawlSends, AuraJob(job.of, {}))
    /\ blockJobs' = Tail(blockJobs)
    /\ UNCHANGED <<txSends, auraCrawlJobs, auraTxJobs, atCrawl, atTx, blockDb, txDb, failedJobs, history, faultCounts>>

InsertAuraBlock ==
    /\ atBlock # <<>> /\ atBlock[1].step = "insert"
    /\ blockDb' = blockDb \union {atBlock[1].job.of}
    /\ atBlock' = <<[atBlock[1] EXCEPT !.step = "done"]>>
    /\ UNCHANGED <<waits, atCrawl, atTx, auraSends, txDb, failedJobs, history, faultCounts>>

\* The database fails: in find there is no job for the transactions yet, in insert it is out.
AuraBlockFails ==
    /\ Fault
    /\ \/ /\ atBlock = <<>> /\ blockJobs # <<>>
          /\ failedJobs' = failedJobs \union {<<"block", Head(blockJobs).of>>}
          /\ blockJobs' = Tail(blockJobs)
       \/ /\ atBlock # <<>> /\ atBlock[1].step = "insert"
          /\ failedJobs' = failedJobs \union {<<"block", atBlock[1].job.of>>}
          /\ UNCHANGED blockJobs
    /\ atBlock' = <<>>
    /\ UNCHANGED <<auraCrawlJobs, auraTxJobs, atCrawl, atTx, auraSends, blockDb, txDb, history, auraCrashes>>

CompleteAuraBlock ==
    /\ atBlock # <<>> /\ atBlock[1].step = "done"
    /\ atBlock' = <<>>
    /\ UNCHANGED <<waits, atCrawl, atTx, auraSends, blockDb, txDb, failedJobs, history, faultCounts>>

-----------------------------------------------------------------------------
StartAuraCrawl ==
    /\ atCrawl = <<>> /\ auraCrawlJobs # <<>>
    /\ atCrawl' = <<[job |-> Head(auraCrawlJobs), step |-> "fetch", todo |-> {}]>>
    /\ auraCrawlJobs' = Tail(auraCrawlJobs)
    /\ UNCHANGED <<blockJobs, auraTxJobs, atBlock, atTx, auraSends, blockDb, txDb, failedJobs, history, faultCounts>>

\* What tx_search has for a block: its first page.
FirstPage(b) == ToSet(SubSeq(InBlock[b], 1, IF Len(InBlock[b]) < PerPage THEN Len(InBlock[b]) ELSE PerPage))

\* crawlTransactionByBlockHeight: the answer becomes a job of handle.transaction, also
\* the empty one of a node that has not indexed the block yet.
FetchByHeight ==
    /\ atCrawl # <<>> /\ atCrawl[1].step = "fetch"
    /\ LET b == atCrawl[1].job.of IN
          \E list \in {FirstPage(b), {}} :
             /\ IF list = {} THEN Fault ELSE UNCHANGED auraFaults
             /\ txSends' = Append(txSends, AuraJob(b, list))
             /\ answers' = [answers EXCEPT ![b] = @ \union {list}]
    /\ atCrawl' = <<[atCrawl[1] EXCEPT !.step = "done"]>>
    /\ UNCHANGED <<waits, atBlock, atTx, crawlSends, blockDb, txDb, failedJobs, handOvers, announced, lostSends,
                   auraCrashes>>

\* Variant for the mutants: the test comes before the log.
FetchByHeightNullPass ==
    /\ atCrawl # <<>> /\ atCrawl[1].step = "fetch" /\ Fault
    /\ atCrawl' = <<>>
    /\ UNCHANGED <<waits, atBlock, atTx, auraSends, blockDb, txDb, failedJobs, history, auraCrashes>>

\* The answer is null: it is logged before it is tested, which throws.
FetchByHeightNull ==
    /\ atCrawl # <<>> /\ atCrawl[1].step = "fetch" /\ Fault
    /\ failedJobs' = failedJobs \union {<<"crawl", atCrawl[1].job.of>>}
    /\ atCrawl' = <<>>
    /\ UNCHANGED <<waits, atBlock, atTx, auraSends, blockDb, txDb, history, auraCrashes>>

CompleteAuraCrawl ==
    /\ atCrawl # <<>> /\ atCrawl[1].step = "done"
    /\ atCrawl' = <<>>
    /\ UNCHANGED <<waits, atBlock, atTx, auraSends, blockDb, txDb, failedJobs, history, faultCounts>>

-----------------------------------------------------------------------------
\* handleJob: one transaction that cannot be decoded fails the list.
RejectList ==
    /\ atTx = <<>> /\ auraTxJobs # <<>> /\ Head(auraTxJobs).list \intersect Undecodable # {}
    /\ failedJobs' = failedJobs \union {<<"handle", Head(auraTxJobs).of>>}
    /\ auraTxJobs' = Tail(auraTxJobs)
    /\ UNCHANGED <<blockJobs, auraCrawlJobs, atBlock, atCrawl, atTx, auraSends, blockDb, txDb, history, faultCounts>>

\* All are decoded: they are announced.
AnnounceList ==
    /\ atTx = <<>> /\ auraTxJobs # <<>> /\ Head(auraTxJobs).list \intersect Undecodable = {}
    /\ atTx' = <<[job |-> Head(auraTxJobs), step |-> "find", todo |-> {}]>>
    /\ announced' = [announced EXCEPT ![Head(auraTxJobs).of] = @ + 1]
    /\ auraTxJobs' = Tail(auraTxJobs)
    /\ UNCHANGED <<blockJobs, auraCrawlJobs, atBlock, atCrawl, auraSends, blockDb, txDb, failedJobs,
                   handOvers, answers, lostSends, faultCounts>>

\* handleListTransaction: those that are there are looked for; a failure ends the job.
FindList ==
    /\ atTx # <<>> /\ atTx[1].step = "find"
    /\ \/ /\ atTx' = <<[atTx[1] EXCEPT !.step = "save", !.todo = atTx[1].job.list \ txDb]>>
          /\ UNCHANGED auraFaults
       \/ Fault /\ atTx' = <<[atTx[1] EXCEPT !.step = "fail"]>>
    /\ UNCHANGED <<waits, atBlock, atCrawl, auraSends, blockDb, txDb, failedJobs, history, auraCrashes>>

\* insertMany saves them side by side.
SaveTx(t) ==
    /\ atTx # <<>> /\ t \in atTx[1].todo
    /\ atTx' = <<[atTx[1] EXCEPT !.todo = @ \ {t}]>>
    /\ txDb' = txDb \union {t}
    /\ UNCHANGED <<waits, atBlock, atCrawl, auraSends, blockDb, failedJobs, history, faultCounts>>

\* One save fails: the others are made, and the job fails.
SaveTxFails(t) ==
    /\ atTx # <<>> /\ t \in atTx[1].todo /\ Fault
    /\ atTx' = <<[atTx[1] EXCEPT !.todo = @ \ {t}, !.step = "fail"]>>
    /\ UNCHANGED <<waits, atBlock, atCrawl, auraSends, blockDb, txDb, failedJobs, history, auraCrashes>>

EndList ==
    /\ atTx # <<>> /\ atTx[1].step # "find" /\ atTx[1].todo = {}
    /\ failedJobs' = IF atTx[1].step = "save" THEN failedJobs
                     ELSE failedJobs \union {<<"handle", atTx[1].job.of>>}
    /\ atTx' = <<>>
    /\ UNCHANGED <<waits, atBlock, atCrawl, auraSends, blockDb, txDb, history, faultCounts>>

-----------------------------------------------------------------------------
\* The job of a process that died goes back in front of its queue, unless it did before.
Stalled(at) == IF at = <<>> \/ at[1].job.stalled THEN <<>> ELSE <<[at[1].job EXCEPT !.stalled = TRUE]>>
StalledTwice(q, at) == {<<q, at[i].job.of>> : i \in {i \in DOMAIN at : at[i].job.stalled}}

CrashAura ==
    /\ auraCrashes < MaxAuraCrashes
    /\ auraCrashes' = auraCrashes + 1
    /\ blockJobs' = Stalled(atBlock) \o blockJobs
    /\ auraCrawlJobs' = Stalled(atCrawl) \o auraCrawlJobs
    /\ auraTxJobs' = Stalled(atTx) \o auraTxJobs
    /\ atBlock' = <<>> /\ atCrawl' = <<>> /\ atTx' = <<>>
    /\ failedJobs' = failedJobs \union StalledTwice("block", atBlock) \union StalledTwice("crawl", atCrawl)
                                \union StalledTwice("handle", atTx)
    /\ lostSends' = lostSends \union {s.of : s \in ToSet(crawlSends \o txSends)}
    /\ crawlSends' = <<>> /\ txSends' = <<>>
    /\ UNCHANGED <<blockDb, txDb, handOvers, announced, answers, auraFaults>>

AuraStep ==
    \/ SendLands
    \/ FindAuraBlock \/ InsertAuraBlock \/ AuraBlockFails \/ CompleteAuraBlock
    \/ StartAuraCrawl \/ FetchByHeight \/ FetchByHeightNull \/ CompleteAuraCrawl
    \/ RejectList \/ AnnounceList \/ FindList \/ EndList
    \/ \E b \in AuraBlocks : \E t \in ToSet(InBlock[b]) : SaveTx(t) \/ SaveTxFails(t)

AuraNext == AuraStep \/ CrashAura \/ \E b \in AuraBlocks : HandOverBlock(b)

AuraSpec == AuraInit /\ [][AuraNext]_auraVars
AuraFairness == WF_auraVars(AuraStep)

-----------------------------------------------------------------------------
\* A job of crawl.transaction or handle.transaction is there for block b, or will be.
OnTheWay(b) ==
    \/ \E q \in {crawlSends, txSends, auraCrawlJobs, auraTxJobs} : \E s \in ToSet(q) : s.of = b
    \/ \E at \in {atCrawl, atTx} : at # <<>> /\ at[1].job.of = b /\ at[1].step # "done"

AuraTxs == UNION {ToSet(InBlock[b]) : b \in AuraBlocks}
AuraJobs == [of : AuraBlocks, list : SUBSET AuraTxs, stalled : BOOLEAN]
AuraWork(steps) == [job : AuraJobs, step : steps, todo : SUBSET AuraTxs]

\* A job is active at the step it can be at, and saves transactions of its list.
AuraTypeOK ==
    /\ {blockJobs, auraCrawlJobs, auraTxJobs, crawlSends, txSends} \subseteq Seq(AuraJobs)
    /\ atBlock \in Seq(AuraWork({"insert", "done"}))
    /\ atCrawl \in Seq(AuraWork({"fetch", "done"}))
    /\ atTx \in Seq(AuraWork({"find", "save", "fail"}))
    /\ atTx # <<>> => /\ atTx[1].job.list \intersect Undecodable = {}
                      /\ atTx[1].todo \subseteq atTx[1].job.list
    /\ blockDb \union lostSends \subseteq AuraBlocks /\ txDb \subseteq AuraTxs
    /\ failedJobs \subseteq {"block", "crawl", "handle"} \X AuraBlocks
    /\ answers \in [AuraBlocks -> SUBSET SUBSET AuraTxs]

\* Transaction t of block b is stored, on its way, or missing for a cause that left a trace: a
\* failed job, a createJob that died with the process, or an answer that did not have it.
Traced(b, t) ==
    \/ t \in txDb
    \/ OnTheWay(b)
    \/ b \in lostSends \/ \E q \in {"crawl", "handle"} : <<q, b>> \in failedJobs
    \/ \E list \in answers[b] : t \notin list

\* crawl-transaction.service.ts:103-124, handle-transaction.service.ts:81-206: so is each
\* transaction of a block in the collection.
AuraAccounted == \A b \in blockDb : \A t \in ToSet(InBlock[b]) : Traced(b, t)

\* Why it is so: a list is one that tx_search answered with, a job that saves has stored of its
\* list what it does not have to do, and a block is inserted when its transactions are traced.
ListsAreAnswers ==
    /\ \A q \in {txSends, auraTxJobs} : \A s \in ToSet(q) : s.list \in answers[s.of]
    /\ atTx # <<>> => atTx[1].job.list \in answers[atTx[1].job.of]
SavedOrToDo == atTx # <<>> /\ atTx[1].step = "save" => atTx[1].job.list \subseteq txDb \union atTx[1].todo
InsertedLast ==
    \A b \in AuraBlocks :
        atBlock # <<>> /\ atBlock[1].job.of = b => \A t \in ToSet(InBlock[b]) : Traced(b, t)

\* handle-block.service.ts:51-66: the list of a block is announced as often as its job
\* came, and by a crash at most three times more, once for each of the queues.
AnnouncedAtMost == \A b \in AuraBlocks : announced[b] <= handOvers[b] + 3 * auraCrashes

\* The transactions of a block in the collection are accounted for, and announced no more often
\* than the block came and the processes died (crawl-transaction.service.ts:103-124).
AuraTxsAccounted == AuraTypeOK /\ AuraAccounted /\ AnnouncedAtMost

\* handle-block.service.ts:51: a block that comes again has its transactions fetched
\* again, which makes up for an answer that was early or null.
SecondChance ==
    AuraFairness => \A b \in AuraBlocks :
        handOvers[b] = MaxHandOvers
            ~> \/ FirstPage(b) \subseteq txDb
               \/ FirstPage(b) \intersect Undecodable # {}
               \/ auraFaults >= MaxHandOvers \/ b \in lostSends \/ auraCrashes > 1
=============================================================================
