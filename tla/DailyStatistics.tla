--------------------------- MODULE DailyStatistics ---------------------------
(* The statistics of a day, services/crawl-statistics.  At midnight two chains *)
(* of jobs begin, crawl-daily-tx and crawl-account-stats: each job reads the   *)
(* next page of the transactions of the day before and creates the next job,   *)
(* which carries the sums so far.  A job that finds no more writes: one record *)
(* of the day, or an entry of the day for each account.                        *)
EXTENDS Naturals, Sequences, FiniteSets, FiniteSetsExt, SequencesExt

CONSTANTS
    StatKinds,          \* the chains: "tx" and "account", which have nothing in common
    Accounts,
    Window,             \* days an account keeps, 7 in the code
    StatPage,           \* transactions of a page, 100 in the code
    MaxStatDay,         \* bound: days
    MaxTxs,             \* bound: transactions
    MaxStatCrashes      \* bound: deaths of the process

ASSUME StatisticsAssumption ==
    /\ StatKinds \subseteq {"tx", "account"}
    /\ {Window, StatPage} \subseteq Nat \ {0}
    /\ {MaxStatDay, MaxTxs, MaxStatCrashes} \subseteq Nat

VARIABLES
    today,
    dayTxs,             \* the transactions, in the order of _id: [day, from]
    statChain,          \* the jobs of the chains: [kind, after, sums, of, run, pc, seen], with the
                        \* _id they follow, what they have summed up, (history) the day they are about
                        \* and the crash they come from; pc is "wait", "next", "created", "end" or
                        \* "done", and seen the page that was read or the accounts still to be written
    dayRecords,         \* daily_tx_statistics: the transactions of a day and its addresses, unique by day
    perDay,             \* account_statistics: the entries of an account: [day, sum]
    read,               \* the accounts as the last job of the account chain read them
    ended,              \* history: days a chain has read to the end
    lateDays,           \* history: days with a transaction stored after a chain had ended
    mixed,              \* history: days of a chain that went on after midnight, or ran again
    statCrashes

statVars == <<today, dayTxs, statChain, dayRecords, perDay, read, ended, lateDays, mixed, statCrashes>>

NoSums == [a \in Accounts |-> 0]

NewChain(k, d) == [kind |-> k, after |-> 0, sums |-> NoSums, of |-> d, run |-> 0, pc |-> "wait",
                  seen |-> {}]

StatInit ==
    /\ today = 0 /\ dayTxs = <<>> /\ statChain = {}
    /\ dayRecords = [d \in {} |-> 0] /\ perDay = [a \in Accounts |-> <<>>]
    /\ read = [a \in Accounts |-> <<>>]
    /\ ended = {} /\ lateDays = {} /\ mixed = {} /\ statCrashes = 0

\* The jobs are repeated at midnight.
Midnight ==
    /\ today < MaxStatDay
    /\ today' = today + 1
    /\ statChain' = statChain \union {NewChain(k, today) : k \in StatKinds}
    /\ mixed' = mixed \union UNION {{j.of, today} : j \in statChain}
    /\ UNCHANGED <<dayTxs, dayRecords, perDay, read, ended, lateDays, statCrashes>>

\* A transaction of today is stored, or one of the day before.
StoreTx(a, d) ==
    /\ Len(dayTxs) < MaxTxs
    /\ d \in {today, today - 1} \intersect Nat
    /\ dayTxs' = Append(dayTxs, [day |-> d, from |-> a])
    /\ lateDays' = IF d \in ended THEN lateDays \union {d} ELSE lateDays
    /\ UNCHANGED <<today, statChain, dayRecords, perDay, read, ended, mixed, statCrashes>>

-----------------------------------------------------------------------------
\* Variant for the mutants: without the end of the day.
PageOpen(j) ==
    LET ids == {i \in DOMAIN dayTxs : i > j.after /\ dayTxs[i].day >= today - 1}
    IN {i \in ids : Cardinality({k \in ids : k < i}) < StatPage}

\* act-find of transaction-stats: the transactions of yesterday, as of now, that
\* follow the last one.
Page(j) ==
    LET ids == {i \in DOMAIN dayTxs : i > j.after /\ dayTxs[i].day = today - 1}
    IN {i \in ids : Cardinality({k \in ids : k < i}) < StatPage}

ReadPage(j) ==
    /\ j.pc = "wait"
    /\ statChain' = (statChain \ {j}) \union
           {[j EXCEPT !.pc = IF Page(j) = {} THEN "end" ELSE "next",
                      !.seen = IF Page(j) # {} THEN Page(j) ELSE IF j.kind = "account" THEN Accounts ELSE {}]}
    /\ read' = IF Page(j) = {} /\ j.kind = "account" THEN perDay ELSE read
    /\ ended' = IF Page(j) = {} THEN ended \union {j.of} ELSE ended
    /\ UNCHANGED <<today, dayTxs, dayRecords, perDay, lateDays, mixed, statCrashes>>

\* crawl-account-stats: the sums of each account, with those of a page.
SumPage(j) == [a \in Accounts |-> j.sums[a] + Cardinality({i \in j.seen : dayTxs[i].from = a})]

\* crawl-daily-tx: the count and the active addresses, here both in the sums.
CountPage(j) == SumPage(j)

\* The next job is created; what is left of this one is its end.
CreateNextPage(j) ==
    /\ j.pc = "next"
    /\ statChain' = (statChain \ {j}) \union
           {[j EXCEPT !.pc = "created"],
            [j EXCEPT !.pc = "wait", !.after = Max(j.seen), !.sums = IF j.kind = "tx" THEN CountPage(j) ELSE SumPage(j), !.seen = {}]}
    /\ UNCHANGED <<today, dayTxs, dayRecords, perDay, read, ended, lateDays, mixed, statCrashes>>

\* crawl-daily-tx: the record of yesterday, unless there is one.
InsertDay(j) ==
    /\ j.pc = "end" /\ j.kind = "tx"
    /\ statChain' = (statChain \ {j}) \union {[j EXCEPT !.pc = "done"]}
    /\ LET day == today - 1
           rec == [dayTxs |-> SumFunction(j.sums),
                   active |-> {a \in Accounts : j.sums[a] > 0}]
       IN dayRecords' = [d \in DOMAIN dayRecords \union {day} |->
                         IF d \in DOMAIN dayRecords THEN dayRecords[d] ELSE rec]
    /\ UNCHANGED <<today, dayTxs, perDay, read, ended, lateDays, mixed, statCrashes>>

\* An entry of an account, without the oldest when there are as many as it keeps.
PushDay(days, e) == IF Len(days) = Window THEN Append(Tail(days), e) ELSE Append(days, e)

\* An account that has entries and sent something: one more.
ActiveAccount(j, a) == PushDay(read[a], [day |-> today - 1, sum |-> j.sums[a]])

\* One that sent something and has none.
NewAccount(j, a) == <<[day |-> today - 1, sum |-> j.sums[a]]>>

\* One that sent nothing: an entry of 0, if it has others.
QuietAccount(a) == IF read[a] = <<>> THEN <<>> ELSE PushDay(read[a], [day |-> today - 1, sum |-> 0])

\* crawl-account-stats: each account is a write of its own.
WriteAccount(j, a) ==
    /\ j.pc = "end" /\ j.kind = "account" /\ a \in j.seen
    /\ statChain' = (statChain \ {j}) \union {[j EXCEPT !.seen = @ \ {a}, !.pc = IF j.seen = {a} THEN "done" ELSE "end"]}
    /\ perDay' = [perDay EXCEPT ![a] = IF j.sums[a] = 0 THEN QuietAccount(a)
                                      ELSE IF read[a] = <<>> THEN NewAccount(j, a) ELSE ActiveAccount(j, a)]
    /\ UNCHANGED <<today, dayTxs, dayRecords, read, ended, lateDays, mixed, statCrashes>>

EndChain(j) ==
    /\ j.pc \in {"created", "done"}
    /\ statChain' = statChain \ {j}
    /\ UNCHANGED <<today, dayTxs, dayRecords, perDay, read, ended, lateDays, mixed, statCrashes>>

\* The process dies: the jobs that ran run again, what they wrote or not.
CrashStatistics ==
    /\ statCrashes < MaxStatCrashes
    /\ \E j \in statChain : j.pc # "wait"
    /\ statCrashes' = statCrashes + 1
    /\ statChain' = {IF j.pc = "wait" THEN j ELSE [j EXCEPT !.pc = "wait", !.seen = {}, !.run = statCrashes + 1]
                   : j \in statChain}
    /\ mixed' = mixed \union {j.of : j \in {i \in statChain : i.kind = "account" /\ i.pc \notin {"wait", "next"}}}
    /\ UNCHANGED <<today, dayTxs, dayRecords, perDay, read, ended, lateDays>>

JobNext(j) ==
    \/ ReadPage(j) \/ CreateNextPage(j) \/ InsertDay(j) \/ EndChain(j)
    \/ \E a \in Accounts : WriteAccount(j, a)

StatChainNext == \E j \in statChain : JobNext(j)

StatNext ==
    \/ Midnight \/ StatChainNext \/ CrashStatistics
    \/ \E a \in Accounts, d \in 0 .. MaxStatDay : StoreTx(a, d)

StatSpec == StatInit /\ [][StatNext]_statVars

StatFairness == WF_statVars(StatChainNext)

-----------------------------------------------------------------------------
\* Accounts keep no more than the window, and no day twice in one run of a chain.
StatTypeOK ==
    /\ \A a \in Accounts : Len(perDay[a]) <= Window
    /\ \A j \in statChain : j.after \in 0 .. Len(dayTxs) /\ (j.pc = "next" => j.seen # {})
    /\ \A d \in DOMAIN dayRecords : d < today

StatTxsOf(a, d) == Cardinality({i \in DOMAIN dayTxs : dayTxs[i].day = d /\ dayTxs[i].from = a})

\* crawl-daily-tx.service.ts:68-165: the record of a day has each of its transactions
\* once, over all pages and runs; unless the chain went on after midnight, when it
\* reads another day with the cursor and the sums of the first.
RecordIsOfDay ==
    \A d \in DOMAIN dayRecords \ (lateDays \union mixed) :
        dayRecords[d] = [dayTxs |-> SumFunction([a \in Accounts |-> StatTxsOf(a, d)]),
                      active |-> {a \in Accounts : StatTxsOf(a, d) > 0}]

\* crawl-account-stats.service.ts:184-470: once the day is done an account has an entry
\* for each of the last days, in order, with what it sent; unless a last job ran
\* again, whose writes are appended once more.
EntriesAreOfDays ==
    /\ "account" \in StatKinds /\ lateDays = {} /\ mixed = {}
    /\ \A j \in statChain : j.kind # "account"
    => \A a \in Accounts :
          LET n == Len(perDay[a])
          IN /\ \A i \in 1 .. n : perDay[a][i] = [day |-> today - 1 - n + i,
                                                  sum |-> StatTxsOf(a, today - 1 - n + i)]
             /\ n < Window => \A d \in 0 .. (today - 1) : StatTxsOf(a, d) > 0 => d >= today - n

\* The statistics of a day, whatever is stored while its chain of jobs runs, and with deaths in
\* it: each transaction is counted once, in its day
\* (crawl-daily-tx.service.ts:39-167, crawl-account-stats.service.ts:77-512).
StatisticsByDay == StatTypeOK /\ RecordIsOfDay /\ EntriesAreOfDays

\* A day that is over gets its record, unless its chain went on after midnight.
EachDayRecorded ==
    StatFairness => \A d \in 0 .. MaxStatDay : [](today > d => <>(d \in DOMAIN dayRecords \union mixed))
=============================================================================
