----------------------------- MODULE ArchiveTxs ------------------------------
(* services/job: `move.tx` moves the transactions of archived blocks          *)
(* (job-move-tx-older.service.ts), `listtx.insert` stores the copies          *)
(* (transaction-aggregate.service.ts).  Again no handler is awaited, and here *)
(* an empty batch is one that the driver rejects.                             *)
EXTENDS ArchiveBlocks

CONSTANTS
    ArchiveTxIds,       \* transactions
    HeightOf,           \* HeightOf[t]: the block of a transaction
    LateTxs,            \* those the retries of handle-transaction store late
    MaxTxMoverCrashes   \* bound: crashes of the process of move.tx

ASSUME ArchiveTxsAssumption ==
    /\ HeightOf \in [ArchiveTxIds -> Heights]
    /\ LateTxs \subseteq ArchiveTxIds
    /\ MaxTxMoverCrashes \in Nat

VARIABLES
    liveTxs,            \* the transaction collection
    lateTxs,            \* late transactions that are still to come
    moving,             \* runs of the callback of move.tx, one a height
    txInsertSends,      \* listtx.insert jobs not in Redis yet
    txInsertQueue,      \* wait list of listtx.insert
    txInserting,        \* batches whose bulkWrite is awaited
    txArchive,          \* transaction_aggregate
    lostTxCopies,       \* history: transactions whose copy died with a process
    unmovedHeights,     \* history: heights whose callback died with its process
    txMoverCrashes      \* crashes so far

txMoverVars == <<liveTxs, lateTxs, moving, txInsertSends, unmovedHeights, txMoverCrashes>>
txArchiverVars == <<txInserting, txArchive>>

TxCopies ==
    (UNION InFlight(txInsertSends)) \union (UNION Waiting(txInsertQueue))
        \union (UNION InFlight(txInserting))

ArchiveTxsInit ==
    /\ liveTxs = ArchiveTxIds \ LateTxs
    /\ lateTxs = LateTxs
    /\ moving = <<>>
    /\ txInsertSends = <<>> /\ txInsertQueue = <<>> /\ txInserting = <<>>
    /\ txArchive = {}
    /\ lostTxCopies = {} /\ unmovedHeights = {}
    /\ txMoverCrashes = 0

\* handle-transaction stores a transaction of a block that may be gone by then.
LateTxArrives(t) ==
    /\ t \in lateTxs
    /\ lateTxs' = lateTxs \ {t}
    /\ liveTxs' = liveTxs \union {t}
    /\ UNCHANGED <<blockArchiveVars, moving, txInsertSends, txInsertQueue, lostTxCopies,
                   unmovedHeights, txMoverCrashes, txArchiverVars>>

\* A job starts, and is complete: a query for each of its heights is under way.
StartMoveTx ==
    /\ moveTxQueue # <<>>
    /\ moving' = moving \o [i \in 1 .. Cardinality(Head(moveTxQueue).data) |->
                               [height |-> SetToSeq(Head(moveTxQueue).data)[i],
                                copied |-> FALSE, batch |-> {}]]
    /\ moveTxQueue' = Tail(moveTxQueue)
    /\ UNCHANGED <<now, blocks, insertQueue, lostCopies, moverVars, archiverVars, liveTxs, lateTxs,
                   txInsertSends, txInsertQueue, lostTxCopies, unmovedHeights, txMoverCrashes,
                   txArchiverVars>>

\* The query answers: the transactions of the height, if any, are sent to
\* listtx.insert, and their deletion is asked for.
CopyTxs(i) ==
    LET found == {t \in liveTxs : HeightOf[t] = moving[i].height}
    IN /\ ~moving[i].copied
       /\ txInsertSends' = Append(txInsertSends, found)
       /\ moving' = [moving EXCEPT ![i].copied = TRUE, ![i].batch = found]
       /\ UNCHANGED <<blockArchiveVars, liveTxs, lateTxs, txInsertQueue, lostTxCopies, unmovedHeights,
                      txMoverCrashes, txArchiverVars>>

\* Variant for the mutants: everything of the height is deleted, copied or not.
DeleteTxsOfHeight(i) ==
    /\ moving[i].copied
    /\ moving[i].batch # {}
    /\ liveTxs' = {t \in liveTxs : HeightOf[t] # moving[i].height}
    /\ moving' = RemoveAt(moving, i)
    /\ UNCHANGED <<blockArchiveVars, lateTxs, txInsertSends, txInsertQueue, lostTxCopies,
                   unmovedHeights, txMoverCrashes, txArchiverVars>>

\* The transactions that were copied are deleted by _id.
DeleteTxs(i) ==
    /\ moving[i].copied
    /\ moving[i].batch # {}
    /\ liveTxs' = liveTxs \ moving[i].batch
    /\ moving' = RemoveAt(moving, i)
    /\ UNCHANGED <<blockArchiveVars, lateTxs, txInsertSends, txInsertQueue, lostTxCopies,
                   unmovedHeights, txMoverCrashes, txArchiverVars>>

TxJobLandsInArchive ==
    /\ txInsertSends # <<>>
    /\ txInsertQueue' = Add(txInsertQueue, Head(txInsertSends))
    /\ txInsertSends' = Tail(txInsertSends)
    /\ UNCHANGED <<blockArchiveVars, liveTxs, lateTxs, moving, lostTxCopies, unmovedHeights,
                   txMoverCrashes, txArchiverVars>>

\* What the end of the process of move.tx leaves behind.
TxMoverDies ==
    /\ lostTxCopies' = lostTxCopies \union UNION InFlight(txInsertSends)
    /\ unmovedHeights' = unmovedHeights \union {moving[i].height : i \in DOMAIN moving}
    /\ txInsertSends' = <<>>
    /\ moving' = <<>>
    /\ UNCHANGED <<blockArchiveVars, lateTxs, txInsertQueue, txArchiverVars>>

\* A height without transactions: the bulkWrite of nothing is rejected, and
\* nobody handles it.
DeleteNothing(i) ==
    /\ moving[i].copied
    /\ moving[i].batch = {}
    /\ TxMoverDies
    /\ UNCHANGED <<liveTxs, txMoverCrashes>>

\* The process dies, or its database fails; deletes under way may be done.
CrashTxMover ==
    /\ moving # <<>> \/ txInsertSends # <<>>
    /\ txMoverCrashes < MaxTxMoverCrashes
    /\ txMoverCrashes' = txMoverCrashes + 1
    /\ TxMoverDies
    /\ \E done \in SUBSET {moving[i].batch : i \in DOMAIN moving} : liveTxs' = liveTxs \ UNION done

TxMoverNext ==
    \/ \E t \in ArchiveTxIds : LateTxArrives(t)
    \/ StartMoveTx
    \/ \E i \in DOMAIN moving : CopyTxs(i) \/ DeleteTxs(i) \/ DeleteNothing(i)
    \/ TxJobLandsInArchive
    \/ CrashTxMover

-----------------------------------------------------------------------------
\* A job of listtx.insert starts, and is complete.
StartTxInsert ==
    /\ txInsertQueue # <<>>
    /\ txInserting' = Append(txInserting, Head(txInsertQueue).data)
    /\ txInsertQueue' = Tail(txInsertQueue)
    /\ UNCHANGED <<blockArchiveVars, txMoverVars, txArchive, lostTxCopies>>

\* Its bulkWrite stores the batch.
InsertTxCopies(i) ==
    LET batch == txInserting[i]
    IN /\ batch # {}
       /\ batch \intersect txArchive = {}
       /\ txArchive' = txArchive \union batch
       /\ txInserting' = RemoveAt(txInserting, i)
       /\ UNCHANGED <<blockArchiveVars, txMoverVars, txInsertQueue, lostTxCopies>>

\* It is rejected, being empty or having a transaction that is archived already;
\* what comes before that one is stored, and the process ends.
RefuseTxCopies(i) ==
    LET batch == txInserting[i]
    IN /\ batch = {} \/ batch \intersect txArchive # {}
       /\ \E before \in SUBSET (batch \ txArchive) :
             /\ txArchive' = txArchive \union before
             /\ lostTxCopies' = lostTxCopies \union ((UNION InFlight(txInserting)) \ before)
       /\ txInserting' = <<>>
       /\ UNCHANGED <<blockArchiveVars, txMoverVars, txInsertQueue>>

TxArchiverNext ==
    \/ StartTxInsert
    \/ \E i \in DOMAIN txInserting : InsertTxCopies(i) \/ RefuseTxCopies(i)

-----------------------------------------------------------------------------
(* The four archive services together: move.block hands heights to move.tx,   *)
(* and each of them hands copies to a service that inserts them.              *)

archiveTxVars == <<txMoverVars, txInsertQueue, lostTxCopies, txArchiverVars>>

archiveVars == <<blockArchiveVars, archiveTxVars>>

ArchiveInit == ArchiveBlocksInit /\ ArchiveTxsInit

ArchiveNext ==
    \/ BlocksNext /\ UNCHANGED archiveTxVars
    \/ TxMoverNext
    \/ TxArchiverNext

ArchiveSpec == ArchiveInit /\ [][ArchiveNext]_archiveVars

\* The clock and the cron go on; every process takes its jobs, is answered by
\* its database and delivers its sends.
ArchiveFairness ==
    /\ WF_archiveVars(NewDay /\ UNCHANGED archiveTxVars)
    /\ WF_archiveVars(CronMoveBlock /\ UNCHANGED archiveTxVars)
    /\ \A m \in Movers :
          WF_archiveVars((CopyOldest(m) \/ DeleteOldest(m)) /\ UNCHANGED archiveTxVars)
    /\ WF_archiveVars(InsertJobLands /\ UNCHANGED archiveTxVars)
    /\ WF_archiveVars(MoveTxJobLands /\ UNCHANGED archiveTxVars)
    /\ WF_archiveVars(ArchiverNext /\ UNCHANGED archiveTxVars)
    /\ WF_archiveVars(StartMoveTx)
    /\ WF_archiveVars(\E i \in DOMAIN moving : CopyTxs(i) \/ DeleteTxs(i) \/ DeleteNothing(i))
    /\ WF_archiveVars(TxJobLandsInArchive)
    /\ WF_archiveVars(TxArchiverNext)

-----------------------------------------------------------------------------
\* Batches are sets of heights or transactions, and no copy is of a block the
\* chain does not have.
ArchiveTypeOK ==
    /\ BlocksTypeOK
    /\ \A i \in DOMAIN moving : moving[i].height \in Heights /\ moving[i].batch \subseteq ArchiveTxIds
    /\ TxCopies \union liveTxs \union txArchive \subseteq ArchiveTxIds

\* The same of transactions (job-move-tx-older.service.ts:46-71): a transaction
\* that comes while its height is moved is not deleted uncopied.
NoTxVanishes == ArchiveTxIds \subseteq lateTxs \union liveTxs \union txArchive \union TxCopies \union lostTxCopies

\* The transactions of a block are moved after it: while the block is in its
\* collection nothing of it is archived or on its way
\* (job-move-block-older.service.ts:84-99).
BlockGoesFirst ==
    \A t \in ArchiveTxIds : t \in TxCopies \union txArchive => HeightOf[t] \notin blocks

\* The archive of blocks and transactions, with the sends and inserts that nobody awaits and
\* the deaths of either process: nothing is deleted that is not copied or excused, and blocks
\* go before their transactions
\* (job-move-block-older.service.ts:38-118, job-move-tx-older.service.ts:39-73).
ArchiveIsWhole ==
    /\ ArchiveTypeOK
    /\ NoBlockVanishes
    /\ AloneLosesNothing
    /\ NoTxVanishes
    /\ BlockGoesFirst

\* An old block leaves its collection in the end: a full batch asks for the next
\* one, and the cron for the rest.
EveryOldBlockLeaves == ArchiveFairness => \A h \in Heights : IsOld(h) ~> h \notin blocks

\* The transactions of a block that has left follow it, unless its move.tx job or
\* the callback for its height died, or they were stored late.
TxsFollowTheirBlock ==
    ArchiveFairness =>
        \A t \in ArchiveTxIds :
            HeightOf[t] \notin blocks /\ t \in liveTxs
                ~> \/ t \notin liveTxs
                   \/ HeightOf[t] \in lostMoveTxs \union unmovedHeights
                   \/ t \in LateTxs
=============================================================================
