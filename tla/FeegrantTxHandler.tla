-------------------------- MODULE FeegrantTxHandler --------------------------
(* services/feegrant/feegrant-tx-handler.service.ts: the repeated job         *)
(* feegrant.tx-handle reads the transactions of the next heights, classifies  *)
(* them and hands them to feegrant.history-db.  Its cursor lives in Redis: a  *)
(* job starts with reading it (initEnv), and ends with a write that, like the *)
(* createJob call, is not awaited.                                            *)
EXTENDS FeegrantStore

CONSTANTS
    BlockPerBatch,  \* BLOCK_PER_BATCH
    MaxFgCrashes    \* bound: failed jobs and crashes of the handler

ASSUME TxHandlerAssumption == BlockPerBatch \in Nat \ {0} /\ MaxFgCrashes \in Nat

VARIABLES
    fgCursor,       \* REDIS_KEY_CURRENT_FEEGRANT_BLOCK, or NoCursor
    fgBlock,        \* this._currentBlock
    syncCatchUp,    \* this.syncCatchUp
    fgStep,         \* where the job is
    fgTo,           \* toBlock of the running job
    fgWrite,        \* value of the `set` in flight, or NoCursor
    historySends,   \* feegrant.history-db jobs not in Redis yet
    late,           \* history: transactions stored behind the cursor
    lostBatches,    \* history: transactions whose job died with a process
    fgCrashes       \* failed jobs and crashes so far

fgOwnVars == <<fgCursor, fgBlock, syncCatchUp, fgStep, fgTo, fgWrite, historySends,
               late, lostBatches, fgCrashes>>

fgVars == <<txDb, historyQueue, fgOwnVars>>

\* No value; -1 is one, that of a handler which found no transaction.
NoCursor == -2

HeightsOf(H) == {TxOf[h].height : h \in H}

\* The heights the handler has passed, or will have when its writes land.
Passed == Max({fgCursor, fgWrite, IF fgStep = "idle" THEN NoCursor ELSE fgBlock})

FgInit ==
    /\ txDb = {}
    /\ historyQueue = <<>>
    /\ fgCursor = NoCursor
    /\ fgBlock = 0
    /\ syncCatchUp = FALSE
    /\ fgStep = "idle"
    /\ fgTo = 0
    /\ fgWrite = NoCursor
    /\ historySends = <<>>
    /\ late = {}
    /\ lostBatches = {}
    /\ fgCrashes = 0

\* handle-transaction stores a transaction; several workers and retries make
\* that happen in any order of heights.
TxStored(h) ==
    /\ h \notin txDb
    /\ txDb' = txDb \union {h}
    /\ late' = IF TxOf[h].height <= Passed THEN late \union {h} ELSE late
    /\ UNCHANGED <<historyQueue, fgCursor, fgBlock, syncCatchUp, fgStep, fgTo, fgWrite,
                   historySends, lostBatches, fgCrashes>>

\* initEnv: the cursor in Redis or, without one, just below the oldest height.
\* The write of the previous job is on the same connection and comes first.
ReadCursor ==
    /\ fgStep = "idle"
    /\ fgWrite = NoCursor
    /\ fgBlock' = IF fgCursor # NoCursor THEN fgCursor
                  ELSE IF txDb = {} THEN -1 ELSE Min(HeightsOf(txDb)) - 1
    /\ fgStep' = "range"
    /\ UNCHANGED <<txDb, historyQueue, fgCursor, syncCatchUp, fgTo, fgWrite, historySends,
                   late, lostBatches, fgCrashes>>

\* getBlocksForProcessing: up to BLOCK_PER_BATCH heights, until the handler has
\* caught up once; all there are from then on.
ReadRange ==
    LET latest == IF txDb = {} THEN fgBlock ELSE Max(HeightsOf(txDb))
        to == Min({fgBlock + BlockPerBatch, latest})
    IN /\ fgStep = "range"
       /\ syncCatchUp' = (syncCatchUp \/ fgBlock >= to)
       /\ fgTo' = IF syncCatchUp' THEN latest ELSE to
       /\ fgStep' = "list"
       /\ UNCHANGED <<txDb, historyQueue, fgCursor, fgBlock, fgWrite, historySends,
                      late, lostBatches, fgCrashes>>

\* Variants for the mutants: the query leaves the last height out...
ReadTxsBelow ==
    /\ fgStep = "list"
    /\ LET found == {h \in txDb : fgBlock < TxOf[h].height /\ TxOf[h].height < fgTo}
       IN IF found = {} THEN UNCHANGED historySends
          ELSE \E list \in SetToSeqs(found) : historySends' = Append(historySends, list)
    /\ fgBlock' = fgTo
    /\ fgWrite' = fgTo
    /\ fgStep' = "idle"
    /\ UNCHANGED <<txDb, historyQueue, fgCursor, syncCatchUp, fgTo, late, lostBatches,
                   fgCrashes>>

\* ... and the cursor moves without a createJob call.
ReadTxsForNobody ==
    /\ fgStep = "list"
    /\ fgBlock' = fgTo
    /\ fgWrite' = fgTo
    /\ fgStep' = "idle"
    /\ UNCHANGED <<txDb, historyQueue, fgCursor, syncCatchUp, fgTo, historySends, late,
                   lostBatches, fgCrashes>>

\* The transactions come: hand over their actions and move the cursor, awaiting
\* neither.  (A job without an action changes nothing, and is left out.)
ReadTxs ==
    /\ fgStep = "list"
    /\ LET found == {h \in txDb : fgBlock < TxOf[h].height /\ TxOf[h].height <= fgTo}
       IN IF found = {} THEN UNCHANGED historySends
          ELSE \E list \in SetToSeqs(found) : historySends' = Append(historySends, list)
    /\ fgBlock' = fgTo
    /\ fgWrite' = fgTo
    /\ fgStep' = "idle"
    /\ UNCHANGED <<txDb, historyQueue, fgCursor, syncCatchUp, fgTo, late, lostBatches,
                   fgCrashes>>

\* The write of the cursor reaches Redis.
FgCursorLands ==
    /\ fgWrite # NoCursor
    /\ fgCursor' = fgWrite
    /\ fgWrite' = NoCursor
    /\ UNCHANGED <<txDb, historyQueue, fgBlock, syncCatchUp, fgStep, fgTo, historySends,
                   late, lostBatches, fgCrashes>>

\* The oldest createJob call reaches Redis.
HistoryJobLands ==
    /\ historySends # <<>>
    /\ historyQueue' = Add(historyQueue, Head(historySends))
    /\ historySends' = Tail(historySends)
    /\ UNCHANGED <<txDb, fgCursor, fgBlock, syncCatchUp, fgStep, fgTo, fgWrite, late,
                   lostBatches, fgCrashes>>

\* A query fails, and with it the job; the next one starts with initEnv again.
FgFails ==
    /\ fgStep # "idle"
    /\ fgCrashes < MaxFgCrashes
    /\ fgCrashes' = fgCrashes + 1
    /\ fgStep' = "idle"
    /\ UNCHANGED <<txDb, historyQueue, fgCursor, fgBlock, syncCatchUp, fgTo, fgWrite,
                   historySends, late, lostBatches>>

\* The process dies with what it had in flight; the repeated job runs again.
CrashFgHandler ==
    /\ fgCrashes < MaxFgCrashes
    /\ fgCrashes' = fgCrashes + 1
    /\ lostBatches' = lostBatches \union
           UNION {ToSet(historySends[i]) : i \in DOMAIN historySends}
    /\ historySends' = <<>>
    /\ fgWrite' = NoCursor
    /\ fgBlock' = 0
    /\ syncCatchUp' = FALSE
    /\ fgTo' = 0
    /\ fgStep' = "idle"
    /\ UNCHANGED <<txDb, historyQueue, fgCursor, late>>

FgNext ==
    \/ \E h \in Hashes : TxStored(h)
    \/ ReadCursor
    \/ ReadRange
    \/ ReadTxs
    \/ FgCursorLands
    \/ HistoryJobLands
    \/ FgFails
    \/ CrashFgHandler

FgFairness ==
    /\ WF_fgVars(ReadCursor)
    /\ WF_fgVars(ReadRange)
    /\ WF_fgVars(ReadTxs)
    /\ WF_fgVars(FgCursorLands)
    /\ WF_fgVars(HistoryJobLands)
=============================================================================
