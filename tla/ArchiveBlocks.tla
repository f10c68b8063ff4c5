---------------------------- MODULE ArchiveBlocks ----------------------------
(* services/job: `move.block` copies old blocks to the archive and deletes    *)
(* them (job-move-block-older.service.ts); `listblock.insert` stores the      *)
(* copies (block-aggregate.service.ts).  Neither process function awaits its  *)
(* handler: a job is complete when its handler starts, handlers overlap       *)
(* whatever the concurrency of the queue, and a rejection that nobody handles *)
(* ends the process.                                                          *)
EXTENDS BullQueue, FiniteSetsExt, SequencesExt

CONSTANTS
    Movers,             \* handlers of move.block that may run at a time
    MaxHeight,          \* bound: the chain
    MoveLimit,          \* blocks a handler looks at (10)
    RangeDay,           \* RANGE_DAY_MOVE_BLOCK
    MaxDay,             \* bound: the clock
    MaxMoverCrashes,    \* bound: crashes of the moving process
    MaxArchiverCrashes  \* bound: crashes of the archiving process

ASSUME ArchiveAssumption ==
    /\ {MaxHeight, RangeDay, MaxDay, MaxMoverCrashes, MaxArchiverCrashes} \subseteq Nat
    /\ MoveLimit \in Nat \ {0}
    /\ IsFiniteSet(Movers)

Heights == 1 .. MaxHeight

VARIABLES
    now,                \* the day
    blocks,             \* heights in the block collection; block h is of day h
    moveJobs,           \* waiting jobs of move.block: they carry nothing
    mover,              \* mover[m]: blocks whose delete m awaits, and whether all
                        \* the blocks it looked at were old
    insertSends,        \* listblock.insert jobs not in Redis yet
    insertQueue,        \* wait list of listblock.insert
    inserting,          \* batches whose bulkWrite is awaited
    archive,            \* block_aggregate: records of height and time
    moveTxSends,        \* move.tx jobs not in Redis yet
    moveTxQueue,        \* wait list of move.tx: lists of heights
    lostCopies,         \* history: blocks whose copy died with a process
    refusedCopies,      \* history: blocks of a batch behind a duplicate
    lostMoveTxs,        \* history: blocks whose move.tx job died in flight
    moverCrashes, archiverCrashes  \* crashes so far

archiverVars == <<inserting, archive, refusedCopies, archiverCrashes>>
moverVars == <<moveJobs, mover, insertSends, moveTxSends, lostMoveTxs, moverCrashes>>

IdleMover == [batch |-> {}, again |-> FALSE]

\* Blocks with a copy on its way to the archive.
Copies ==
    (UNION InFlight(insertSends)) \union (UNION Waiting(insertQueue)) \union (UNION InFlight(inserting))

Archived == {r.height : r \in archive}

ArchiveBlocksInit ==
    /\ now = 0
    /\ blocks = Heights
    /\ moveJobs = 0
    /\ mover = [m \in Movers |-> IdleMover]
    /\ insertSends = <<>> /\ insertQueue = <<>> /\ inserting = <<>>
    /\ archive = {}
    /\ moveTxSends = <<>> /\ moveTxQueue = <<>>
    /\ lostCopies = {} /\ refusedCopies = {} /\ lostMoveTxs = {}
    /\ moverCrashes = 0 /\ archiverCrashes = 0

\* A day passes.
NewDay ==
    /\ now < MaxDay
    /\ now' = now + 1
    /\ UNCHANGED <<blocks, insertQueue, moveTxQueue, lostCopies, moverVars, archiverVars>>

\* CRON_JOB_MOVE_BLOCK adds a job; a repeated job waits at most once.
CronMoveBlock ==
    /\ moveJobs = 0
    /\ moveJobs' = 1
    /\ UNCHANGED <<now, blocks, mover, insertSends, insertQueue, moveTxSends, moveTxQueue,
                   lostCopies, lostMoveTxs, moverCrashes, archiverVars>>

\* The MoveLimit lowest blocks of a set of heights.
Oldest(hs) == {h \in hs : Cardinality({g \in hs : g < h}) < MoveLimit}

IsOld(h) == h + RangeDay <= now

\* A job starts, its handler reads the oldest blocks, sends a copy of those that
\* are old enough to listblock.insert, and asks for their deletion.
CopyOldest(m) ==
    LET oldest == Oldest(blocks)
        old    == {h \in oldest : IsOld(h)}
    IN /\ mover[m] = IdleMover
       /\ moveJobs > 0
       /\ moveJobs' = moveJobs - 1
       /\ IF old = {}
          THEN UNCHANGED <<mover, insertSends>>
          ELSE /\ mover' = [mover EXCEPT ![m] = [batch |-> old, again |-> old = oldest]]
               /\ insertSends' = Append(insertSends, old)
       /\ UNCHANGED <<now, blocks, insertQueue, moveTxSends, moveTxQueue, lostCopies,
                      lostMoveTxs, moverCrashes, archiverVars>>

\* Variant for the mutants: no job for the transactions.
DeleteWithoutTxs(m) ==
    /\ mover[m] # IdleMover
    /\ blocks' = blocks \ mover[m].batch
    /\ mover' = [mover EXCEPT ![m] = IdleMover]
    /\ UNCHANGED <<now, moveJobs, insertSends, insertQueue, moveTxSends, moveTxQueue,
                   lostCopies, lostMoveTxs, moverCrashes, archiverVars>>

\* The blocks are deleted.  Then a job moves their transactions, and another
\* follows if all the blocks this one looked at were old.
DeleteOldest(m) ==
    /\ mover[m] # IdleMover
    /\ blocks' = blocks \ mover[m].batch
    /\ moveTxSends' = Append(moveTxSends, mover[m].batch)
    /\ moveJobs' = IF mover[m].again THEN moveJobs + 1 ELSE moveJobs
    /\ mover' = [mover EXCEPT ![m] = IdleMover]
    /\ UNCHANGED <<now, insertSends, insertQueue, moveTxQueue, lostCopies, lostMoveTxs,
                   moverCrashes, archiverVars>>

\* The sends reach Redis in order.
InsertJobLands ==
    /\ insertSends # <<>>
    /\ insertQueue' = Add(insertQueue, Head(insertSends))
    /\ insertSends' = Tail(insertSends)
    /\ UNCHANGED <<now, blocks, moveJobs, mover, moveTxSends, moveTxQueue, lostCopies,
                   lostMoveTxs, moverCrashes, archiverVars>>

MoveTxJobLands ==
    /\ moveTxSends # <<>>
    /\ moveTxQueue' = Add(moveTxQueue, Head(moveTxSends))
    /\ moveTxSends' = Tail(moveTxSends)
    /\ UNCHANGED <<now, blocks, moveJobs, mover, insertSends, insertQueue, lostCopies,
                   lostMoveTxs, moverCrashes, archiverVars>>

\* The moving process dies, or a call of its database fails, which nobody handles.
CrashMover ==
    /\ moverCrashes < MaxMoverCrashes
    /\ moverCrashes' = moverCrashes + 1
    /\ lostCopies' = lostCopies \union UNION InFlight(insertSends)
    /\ insertSends' = <<>>
    /\ moveTxSends' = <<>>
    \* A delete that was under way may be carried out all the same.
    /\ \E done \in SUBSET {mover[m].batch : m \in Movers} :
          /\ blocks' = blocks \ UNION done
          /\ lostMoveTxs' = lostMoveTxs \union (UNION InFlight(moveTxSends))
                                       \union (blocks \intersect UNION done)
    /\ mover' = [m \in Movers |-> IdleMover]
    /\ UNCHANGED <<now, moveJobs, insertQueue, moveTxQueue, archiverVars>>

MoverNext ==
    \/ CronMoveBlock
    \/ \E m \in Movers : CopyOldest(m) \/ DeleteOldest(m)
    \/ InsertJobLands
    \/ MoveTxJobLands
    \/ CrashMover

-----------------------------------------------------------------------------
\* A job of listblock.insert starts: it is complete, its bulkWrite is not.
StartInsert ==
    /\ insertQueue # <<>>
    /\ inserting' = Append(inserting, Head(insertQueue).data)
    /\ insertQueue' = Tail(insertQueue)
    /\ UNCHANGED <<now, blocks, moveTxQueue, lostCopies, moverVars, archive, refusedCopies,
                   archiverCrashes>>

\* setDate moves the date of the block itself (job-move-block-older.service.ts:50),
\* which is what is copied.
CopyOf(h) == [height |-> h, time |-> h + RangeDay]

\* Variant for the mutants: of a batch only the last block is stored.
InsertLastCopy(i) ==
    LET batch == inserting[i]
    IN /\ batch \intersect Archived = {}
       /\ archive' = archive \union {CopyOf(Max(batch))}
       /\ inserting' = RemoveAt(inserting, i)
       /\ UNCHANGED <<now, blocks, insertQueue, moveTxQueue, lostCopies, moverVars, refusedCopies,
                      archiverCrashes>>

\* The bulkWrite stores a batch; the bulkWrites that are awaited end in any order.
InsertCopies(i) ==
    LET batch == inserting[i]
    IN /\ batch \intersect Archived = {}
       /\ archive' = archive \union {CopyOf(h) : h \in batch}
       /\ inserting' = RemoveAt(inserting, i)
       /\ UNCHANGED <<now, blocks, insertQueue, moveTxQueue, lostCopies, moverVars, refusedCopies,
                      archiverCrashes>>

\* The unique index of the hash refuses a block.  The blocks before it are
\* stored, those behind it are not, and the rejection ends the process with the
\* other batches it works on.
RefuseCopies(i) ==
    LET batch     == inserting[i]
        duplicate == Min(batch \intersect Archived)
    IN /\ batch \intersect Archived # {}
       /\ archive' = archive \union {CopyOf(h) : h \in {g \in batch : g < duplicate}}
       /\ refusedCopies' = refusedCopies \union {h \in batch : h > duplicate}
       /\ lostCopies' = lostCopies \union UNION InFlight(RemoveAt(inserting, i))
       /\ inserting' = <<>>
       /\ UNCHANGED <<now, blocks, insertQueue, moveTxQueue, moverVars, archiverCrashes>>

\* The archiving process dies, or its database fails: the batches are not stored.
CrashArchiver ==
    /\ archiverCrashes < MaxArchiverCrashes
    /\ inserting # <<>>
    /\ archiverCrashes' = archiverCrashes + 1
    /\ lostCopies' = lostCopies \union UNION InFlight(inserting)
    /\ inserting' = <<>>
    /\ UNCHANGED <<now, blocks, insertQueue, moveTxQueue, moverVars, archive, refusedCopies>>

ArchiverNext ==
    \/ StartInsert
    \/ \E i \in DOMAIN inserting : InsertCopies(i) \/ RefuseCopies(i)
    \/ CrashArchiver

blockArchiveVars == <<now, blocks, insertQueue, moveTxQueue, lostCopies, moverVars, archiverVars>>

BlocksNext == NewDay \/ MoverNext \/ ArchiverNext

BlocksSpec == ArchiveBlocksInit /\ [][BlocksNext]_blockArchiveVars

-----------------------------------------------------------------------------
\* Days, and batches of heights of the chain.
BlocksTypeOK ==
    /\ now \in 0 .. MaxDay
    /\ blocks \subseteq Heights
    /\ moveJobs \in Nat
    /\ mover \in [Movers -> [batch : SUBSET Heights, again : BOOLEAN]]
    /\ {insertSends, inserting, moveTxSends} \subseteq Seq(SUBSET Heights)
    /\ {insertQueue, moveTxQueue} \subseteq Seq(JobOf(SUBSET Heights))
    /\ archive \subseteq [height : Heights, time : Nat]
    /\ lostCopies \union refusedCopies \union lostMoveTxs \subseteq Heights

\* A block that is deleted (job-move-block-older.service.ts:72-83) is archived, or
\* its copy is on its way, or was lost with a process or behind a duplicate.
NoBlockVanishes ==
    Heights \subseteq blocks \union Archived \union Copies \union lostCopies \union refusedCopies

\* The blocks whose delete a handler awaits were sent off before: why none vanishes.
SentBeforeDeleted ==
    \A m \in Movers : mover[m].batch \subseteq Archived \union Copies \union lostCopies \union refusedCopies

\* Without overlapping handlers and without crashes no batch is refused, and no
\* block is lost: a handler that runs alone copies a block once.
AloneLosesNothing ==
    Cardinality(Movers) = 1 /\ moverCrashes = 0 /\ archiverCrashes = 0
        => refusedCopies = {} /\ lostCopies = {}

-----------------------------------------------------------------------------
(* The abstract move: a block is copied before it goes, and what has gone with *)
(* no copy left does not come back.                                            *)

Place ==
    [h \in Heights |->
        CASE h \in Archived -> "archived"
          [] h \notin Archived /\ h \in Copies -> "copied"
          [] h \notin Archived \union Copies /\ h \in blocks -> "stored"
          [] OTHER -> "gone"]

Move == INSTANCE Relocation WITH
    Item <- Heights,
    place <- Place,
    excused <- lostCopies \union refusedCopies

ImplementsMove == Move!RelocationSpec
=============================================================================
