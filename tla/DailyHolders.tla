---------------------------- MODULE DailyHolders ----------------------------
(* services/crawl-statistics/crawl-daily-cw20-holder: the holders of each CW20 *)
(* contract now, and as of the last midnight.  A chain of jobs walks over the  *)
(* records by their place and moves the new number to the old; meanwhile the   *)
(* jobs of update.contract-holders count the holders and write the new one.    *)
EXTENDS Integers, Sequences, FiniteSets, SequencesExt

CONSTANTS
    Cw20Contracts,
    Counters,           \* jobs of update.contract-holders at a time, of all workers
    HolderPage,         \* records of a page, 100 in the code
    MaxHolders,         \* bound: holders of a contract
    MaxChanges,         \* bound: changes of their number
    MaxDays,            \* bound: midnights
    MaxWalkFailures     \* bound: jobs of the chain that die or fail

ASSUME HoldersAssumption ==
    /\ {HolderPage, Counters} \subseteq Nat \ {0}
    /\ {MaxHolders, MaxChanges, MaxDays, MaxWalkFailures} \subseteq Nat

VARIABLES
    count,              \* cw20-holder: the holders of a contract
    changes,
    toCount,            \* contract -> its waiting jobs of update.contract-holders
    counting,           \* those that run: <<[c, n, at]>>, with the count and the record they read
    rows,               \* the collection: [c, old, new, change]
    holderWalk,         \* the chain: <<[offset, page, left]>>, the rows it read and those to write
    walkFailures,
    days,
    blurredHolders,     \* history: contracts two of whose jobs ran at once
    past                \* history: of each row its old number at midnight, its new ones since, and
                        \* whether it was moved once or (2) more often

holderVars == <<count, changes, toCount, counting, rows, holderWalk, walkFailures, days, blurredHolders, past>>

HoldersInit ==
    /\ count = [c \in Cw20Contracts |-> 0] /\ changes = 0
    /\ toCount = [c \in Cw20Contracts |-> 0] /\ counting = <<>>
    /\ rows = <<>> /\ holderWalk = <<>> /\ walkFailures = 0 /\ days = 0
    /\ blurredHolders = {} /\ past = <<>>

\* CW20.enrich has written the assets and asks for a count.
UpdateRequested(c, n) ==
    /\ changes < MaxChanges
    /\ changes' = changes + 1
    /\ count' = [count EXCEPT ![c] = n]
    /\ toCount' = [toCount EXCEPT ![c] = @ + 1]
    /\ UNCHANGED <<counting, rows, holderWalk, walkFailures, days, blurredHolders, past>>

-----------------------------------------------------------------------------
\* The record of a contract, or 0.
RecordOf(c) == SelectInSeq(rows, LAMBDA r : r.c = c)

\* The count and the record, read at once.
CountContract(c) ==
    /\ toCount[c] > 0 /\ Len(counting) < Counters
    /\ toCount' = [toCount EXCEPT ![c] = @ - 1]
    /\ counting' = Append(counting, [c |-> c, n |-> count[c], at |-> RecordOf(c)])
    /\ blurredHolders' = IF \E i \in DOMAIN counting : counting[i].c = c THEN blurredHolders \union {c} ELSE blurredHolders
    /\ UNCHANGED <<count, changes, rows, holderWalk, walkFailures, days, past>>

\* The number of a record that is there; the rest of it stays.
SetNew(k) == rows' = [rows EXCEPT ![k.at].new = k.n]

\* A record that another job has inserted since is refused, and nobody hears of it.
InsertRecord(k) ==
    IF RecordOf(k.c) # 0 THEN UNCHANGED <<rows, past>>
    ELSE /\ rows' = Append(rows, [c |-> k.c, old |-> 0, new |-> k.n, change |-> 0])
         /\ past' = Append(past, [old |-> 0, new |-> {k.n}, moved |-> 0, there |-> FALSE])

UpdateContractHolders(i) ==
    LET k == counting[i] IN
    /\ counting' = RemoveAt(counting, i)
    /\ IF k.at = 0 THEN InsertRecord(k)
       ELSE SetNew(k) /\ past' = [past EXCEPT ![k.at].new = @ \union {k.n}]
    /\ UNCHANGED <<count, changes, toCount, holderWalk, walkFailures, days, blurredHolders>>

-----------------------------------------------------------------------------
\* The chain begins at midnight; the one of the day before is over.
HoldersMidnight ==
    /\ days < MaxDays /\ holderWalk = <<>>
    /\ days' = days + 1
    /\ holderWalk' = <<[offset |-> 0, page |-> <<>>, left |-> {}]>>
    /\ past' = [i \in DOMAIN rows |->
                  [old |-> rows[i].old, new |-> {rows[i].new}, moved |-> 0, there |-> TRUE]]
    /\ UNCHANGED <<count, changes, toCount, counting, rows, walkFailures, blurredHolders>>

\* Variant for the mutants: the offset is taken for the number of records to skip.
PlacesFrom(offset) == {i \in DOMAIN rows : offset < i /\ i <= offset + HolderPage}

\* The places of a page.
Places(offset) == {i \in DOMAIN rows : offset * HolderPage < i /\ i <= (offset + 1) * HolderPage}

\* The page is read; with an empty one the chain ends.
ReadRows ==
    /\ holderWalk # <<>> /\ holderWalk[1].left = {}
    /\ LET left == Places(holderWalk[1].offset)
       IN holderWalk' = IF left = {} THEN <<>> ELSE <<[holderWalk[1] EXCEPT !.page = rows, !.left = left]>>
    /\ UNCHANGED <<count, changes, toCount, counting, rows, walkFailures, days, blurredHolders, past>>

\* The change since the day before, in percent, rounded down.
ChangePercent(old, new) == IF old # 0 THEN ((new - old) * 100) \div old ELSE 0

\* With the last record of the page the job of the next one is created.
NextOffset(left) ==
    holderWalk' = <<[holderWalk[1] EXCEPT !.left = left, !.offset = IF left = {} THEN @ + 1 ELSE @]>>

\* A record is written with what was read of it; the writes of a page come in any order.
MoveRow(i) ==
    LET r == holderWalk[1].page[i] IN
    /\ rows' = [rows EXCEPT ![i].old = r.new, ![i].change = ChangePercent(r.old, r.new)]
    /\ past' = [past EXCEPT ![i].moved = IF @ < 2 THEN @ + 1 ELSE 2]
    /\ NextOffset(holderWalk[1].left \ {i})
    /\ UNCHANGED <<count, changes, toCount, counting, walkFailures, days, blurredHolders>>

\* A write fails, and with it the job: it has one attempt, and the rest is not moved.
FailRow ==
    /\ holderWalk # <<>> /\ holderWalk[1].left # {} /\ walkFailures < MaxWalkFailures
    /\ walkFailures' = walkFailures + 1
    /\ holderWalk' = <<>>
    /\ UNCHANGED <<count, changes, toCount, counting, rows, days, blurredHolders, past>>

\* The process dies: the job of the chain runs again.
CrashWalk ==
    /\ holderWalk # <<>> /\ walkFailures < MaxWalkFailures
    /\ walkFailures' = walkFailures + 1
    /\ holderWalk' = <<[holderWalk[1] EXCEPT !.left = {}]>>
    /\ UNCHANGED <<count, changes, toCount, counting, rows, days, blurredHolders, past>>

HoldersJobNext ==
    \/ \E c \in Cw20Contracts : CountContract(c)
    \/ \E i \in DOMAIN counting : UpdateContractHolders(i)
    \/ ReadRows
    \/ holderWalk # <<>> /\ \E i \in holderWalk[1].left : MoveRow(i)

HoldersNext ==
    \/ \E c \in Cw20Contracts, n \in 0 .. MaxHolders : UpdateRequested(c, n)
    \/ HoldersJobNext \/ HoldersMidnight \/ FailRow \/ CrashWalk

HoldersSpec == HoldersInit /\ [][HoldersNext]_holderVars

-----------------------------------------------------------------------------
\* daily-cw20-holder.model: a contract has one record.
HoldersTypeOK ==
    /\ \A i, j \in DOMAIN rows : i # j => rows[i].c # rows[j].c
    /\ Len(past) = Len(rows) /\ Len(counting) <= Counters
    /\ \A i \in DOMAIN rows : {rows[i].old, rows[i].new} \subseteq 0 .. MaxHolders

\* crawl-daily-cw20-holder.service.ts:105-136: with no job left a record has the last
\* number, unless two jobs of the contract ran at once.
HoldersAreCurrent ==
    (counting = <<>> /\ \A c \in Cw20Contracts : toCount[c] = 0) =>
        \A i \in DOMAIN rows : rows[i].c \in blurredHolders \/ rows[i].new = count[rows[i].c]

\* crawl-daily-cw20-holder.service.ts:64-103: whatever is counted meanwhile, a record
\* moved once has as its old number one of the day, and the change to it from that of
\* the day before.
OldIsOfTheDay ==
    \A i \in DOMAIN rows : past[i].moved = 1 =>
        /\ rows[i].old \in past[i].new
        /\ rows[i].change = ChangePercent(past[i].old, rows[i].old)

\* crawl-daily-cw20-holder.service.ts:64-103: a walk that no job of fails moves each
\* record of midnight once, though records are inserted while it runs.
EachRowMovedOnce ==
    (walkFailures = 0 /\ holderWalk = <<>> /\ days > 0) =>
        \A i \in DOMAIN rows : past[i].moved = 1 \/ (~past[i].there /\ past[i].moved = 0)

\* The holders of a day, while contracts are counted and records inserted: the walk of midnight
\* moves each record once, and its old number is of the day
\* (crawl-daily-cw20-holder.service.ts:46-136).
HoldersByDay ==
    /\ HoldersTypeOK
    /\ HoldersAreCurrent
    /\ OldIsOfTheDay
    /\ EachRowMovedOnce
=============================================================================
