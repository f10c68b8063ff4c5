----------------------------- MODULE CountProofs -----------------------------
(* Theorems about what is summed up: the transactions of a day and of its      *)
(* accounts, and the rewards that accounts have claimed, for every number of   *)
(* days, accounts, jobs and workers.                                           *)
EXTENDS DailyStatistics, ClaimedRewards, BullQueueProofs, SequenceTheorems, FiniteSetTheorems, TLAPS

\* The least number of a set.
LEMMA MinLemma ==
    ASSUME NEW S, S \subseteq Nat, S # {}
    PROVE  Min(S) \in S /\ \A x \in S : Min(S) <= x
<1>1. \E x \in S : \A y \in S : x <= y
  BY LeastLemma
<1> QED
  BY <1>1 DEF Min

-----------------------------------------------------------------------------
(* The statistics of a day (DailyStatistics).                                  *)

DayEntry == [day : Nat, sum : Nat]
DayTx == [day : Nat, from : Accounts]
DayPc == {"wait", "next", "created", "end", "done"}
DayJob == [kind : StatKinds, after : Nat, sums : [Accounts -> Nat], of : Nat, run : Nat, pc : DayPc,
           seen : SUBSET (Nat \union Accounts)]

StatTypes ==
    /\ today \in Nat /\ statCrashes \in Nat /\ dayTxs \in Seq(DayTx) /\ statChain \in SUBSET DayJob
    /\ \A j \in statChain :
          /\ j.after <= Len(dayTxs) /\ j.of < today
          /\ j.pc = "next" => j.seen # {} /\ j.seen \subseteq 1 .. Len(dayTxs)
    /\ \A d \in DOMAIN dayRecords : d \in Nat /\ d < today
    /\ perDay \in [Accounts -> Seq(DayEntry)] /\ read \in [Accounts -> Seq(DayEntry)]
    /\ \A a \in Accounts : Len(perDay[a]) <= Window /\ Len(read[a]) <= Window

\* A job that does not run in the day after its own mixes two days.
OnItsDay == \A j \in statChain : j.of = today - 1 \/ {j.of, today - 1} \subseteq mixed

\* What address a has sent in day d, of the transactions up to the n-th.
SentUpTo(a, d, n) == {i \in 1 .. n : dayTxs[i].day = d /\ dayTxs[i].from = a}

\* A job has summed up what it is past, its page leaves nothing out, and nothing is left at its end.
JobIsRight(j) ==
    /\ \A a \in Accounts : j.sums[a] = Cardinality(SentUpTo(a, j.of, j.after))
    /\ j.pc = "next" =>
          \A k \in j.seen :
             /\ j.after < k /\ dayTxs[k].day = j.of
             /\ \A i \in DOMAIN dayTxs : j.after < i /\ i < k /\ dayTxs[i].day = j.of => i \in j.seen
    /\ j.pc \in {"end", "done"} =>
          /\ j.of \in ended
          /\ j.of \in lateDays \/ \A i \in DOMAIN dayTxs : dayTxs[i].day = j.of => i <= j.after

SumsAreRight == \A j \in statChain : j.of \notin mixed => JobIsRight(j)

\* The record of a day, and the records: of days that were read to the end.
DayRecordOf(d) ==
    [dayTxs |-> SumFunction([a \in Accounts |-> StatTxsOf(a, d)]), active |-> {a \in Accounts : StatTxsOf(a, d) > 0}]

RecordsAreRight ==
    \A d \in DOMAIN dayRecords \ mixed : d \in ended /\ (d \in lateDays \/ dayRecords[d] = DayRecordOf(d))

\* Entries s are of the days before day t, one a day, with what sent says of it.
Until(s, t, sent) ==
    /\ \A i \in 1 .. Len(s) : s[i] = [day |-> t - 1 - Len(s) + i, sum |-> sent[t - 1 - Len(s) + i]]
    /\ Len(s) < Window => \A d \in 0 .. (t - 1) : sent[d] > 0 => d >= t - Len(s)

SentOn(a) == [d \in Nat |-> StatTxsOf(a, d)]

\* The job that goes on with the accounts.
LiveJobs == {j \in statChain : j.kind = "account" /\ j.pc \in {"wait", "next", "end"}}

\* The entries of an account, while job j goes on.
GoesOn(j, a) ==
    /\ j.pc = "end" => Until(read[a], today - 1, SentOn(a))
    /\ Until(perDay[a], IF j.pc = "end" /\ a \notin j.seen THEN today ELSE today - 1, SentOn(a))

Undisturbed == "account" \in StatKinds /\ lateDays = {} /\ mixed = {}

EntriesGoOn ==
    Undisturbed =>
        /\ \A i, j \in LiveJobs : i = j
        /\ \A j \in LiveJobs, a \in Accounts : GoesOn(j, a)
        /\ LiveJobs = {} => /\ \A a \in Accounts : Until(perDay[a], today, SentOn(a))
                            /\ today > 0 => today - 1 \in ended

StatInv == StatTypes /\ OnItsDay /\ SumsAreRight /\ RecordsAreRight /\ EntriesGoOn

\* The last of some of the first n ids.
LEMMA LastIdLemma ==
    ASSUME NEW n \in Nat, NEW S, S \subseteq 1 .. n, S # {}
    PROVE  Max(S) \in S /\ \A x \in S : x <= Max(S)
<1> DEFINE T == {n - x : x \in S}
<1>1. T \subseteq Nat /\ T # {}
  <2>1. \A x \in S : n - x \in Nat
    OBVIOUS
  <2> QED
    BY <2>1
<1>2. Min(T) \in T /\ \A y \in T : Min(T) <= y
  BY <1>1, MinLemma
<1>3. PICK m \in S : Min(T) = n - m
  BY <1>2
<1>4. ASSUME NEW x \in S PROVE m >= x
  <2>1. n - x \in T
    OBVIOUS
  <2>2. n - m <= n - x
    BY <1>2, <1>3, <2>1
  <2> QED
    BY <2>2
<1>5. Max(S) \in S /\ \A x \in S : Max(S) >= x
  BY <1>4 DEF Max
<1>6. ASSUME NEW x \in S PROVE x <= Max(S)
  <2>1. Max(S) \in 1 .. n /\ x \in 1 .. n /\ Max(S) >= x
    BY <1>5
  <2> QED
    BY <2>1
<1> QED
  BY <1>5, <1>6

\* The page of a job is the next part of the day before.
LEMMA NextPageLemma ==
    ASSUME StatTypes, NEW j \in statChain
    PROVE  /\ Page(j) \subseteq 1 .. Len(dayTxs)
           /\ \A k \in Page(j) :
                 /\ j.after < k /\ dayTxs[k].day = today - 1
                 /\ \A i \in DOMAIN dayTxs : j.after < i /\ i < k /\ dayTxs[i].day = today - 1 => i \in Page(j)
           /\ Page(j) = {} => \A i \in DOMAIN dayTxs : dayTxs[i].day = today - 1 => i <= j.after
<1> DEFINE ids == {i \in DOMAIN dayTxs : i > j.after /\ dayTxs[i].day = today - 1}
           before(i) == {k \in ids : k < i}
<1>1. DOMAIN dayTxs = 1 .. Len(dayTxs) /\ Len(dayTxs) \in Nat /\ j.after \in Nat
  BY DEF StatTypes, DayJob
<1>2. ids \subseteq 1 .. Len(dayTxs) /\ IsFiniteSet(ids)
  <2>1. ids \in SUBSET (1 .. Len(dayTxs))
    BY <1>1
  <2>2. IsFiniteSet(1 .. Len(dayTxs))
    BY <1>1, FS_Interval
  <2> HIDE DEF ids
  <2> QED
    BY <2>1, <2>2, FS_Subset
<1>3. Page(j) = {i \in ids : Cardinality(before(i)) < StatPage}
  BY DEF Page
<1>4. \A i \in ids : IsFiniteSet(before(i)) /\ Cardinality(before(i)) \in Nat
  BY <1>2, FS_Subset, FS_CardinalityType
<1>5. StatPage \in Nat \ {0}
  BY StatisticsAssumption
<1>6. ASSUME NEW k \in Page(j), NEW i \in ids, i < k
      PROVE  i \in Page(j)
  <2>1. before(i) \subseteq before(k)
    BY <1>1, <1>2, <1>3, <1>6
  <2>2. Cardinality(before(i)) <= Cardinality(before(k))
    BY <1>3, <1>4, <2>1, FS_Subset
  <2>3. k \in ids /\ Cardinality(before(k)) < StatPage
    BY <1>3, <1>6
  <2>4. Cardinality(before(i)) \in Nat /\ Cardinality(before(k)) \in Nat
    BY <1>4, <2>3
  <2> HIDE DEF before
  <2>5. Cardinality(before(i)) < StatPage
    BY <1>5, <2>2, <2>3, <2>4
  <2> QED
    BY <1>3, <2>5
<1>7. ASSUME Page(j) = {}
      PROVE  ids = {}
  <2> SUFFICES ASSUME ids # {} PROVE FALSE
    OBVIOUS
  <2>1. ids \subseteq Nat
    BY <1>2
  <2> HIDE DEF ids
  <2>2. Min(ids) \in ids /\ \A x \in ids : Min(ids) <= x
    BY <2>1, MinLemma
  <2>3. before(Min(ids)) = {}
    <3>1. ASSUME NEW x \in ids PROVE ~(x < Min(ids))
      <4>1. Min(ids) \in Nat /\ x \in Nat /\ Min(ids) <= x
        BY <2>1, <2>2
      <4> QED
        BY <4>1
    <3> QED
      BY <3>1
  <2>4. Cardinality(before(Min(ids))) < StatPage
    BY <1>5, <2>3, FS_EmptySet
  <2> QED
    BY <1>3, <1>7, <2>2, <2>4
<1>8. /\ Page(j) \subseteq 1 .. Len(dayTxs)
      /\ \A k \in Page(j) : j.after < k /\ dayTxs[k].day = today - 1
  BY <1>1, <1>2, <1>3
<1>9. ASSUME NEW k \in Page(j), NEW i \in DOMAIN dayTxs, j.after < i, i < k, dayTxs[i].day = today - 1
      PROVE  i \in Page(j)
  <2>1. i \in ids
    BY <1>1, <1>9
  <2> QED
    BY <1>6, <1>9, <2>1
<1>10. ASSUME Page(j) = {}, NEW i \in DOMAIN dayTxs, dayTxs[i].day = today - 1
       PROVE  i <= j.after
  <2>1. ~(i > j.after)
    BY <1>7, <1>10
  <2> QED
    BY <1>1, <2>1
<1> QED
  BY <1>8, <1>9, <1>10

\* An entry more: the oldest goes when there are as many as are kept.
LEMMA PushDayLemma ==
    ASSUME NEW s \in Seq(DayEntry), Len(s) <= Window, NEW e \in DayEntry
    PROVE  /\ PushDay(s, e) \in Seq(DayEntry) /\ Len(PushDay(s, e)) <= Window
           /\ Len(PushDay(s, e)) = IF Len(s) = Window THEN Window ELSE Len(s) + 1
           /\ PushDay(s, e)[Len(PushDay(s, e))] = e
           /\ \A i \in 1 .. Len(PushDay(s, e)) - 1 :
                 PushDay(s, e)[i] = s[IF Len(s) = Window THEN i + 1 ELSE i]
<1>0. Window \in Nat \ {0} /\ Len(s) \in Nat
  BY StatisticsAssumption
<1>1. CASE Len(s) = Window
  <2> DEFINE t == Tail(s)
  <2>1. s # <<>>
    BY <1>0, <1>1
  <2>2. t \in Seq(DayEntry) /\ Len(t) = Window - 1 /\ \A i \in 1 .. Window - 1 : t[i] = s[i + 1]
    BY <1>0, <1>1, <2>1
  <2>3. PushDay(s, e) = Append(t, e)
    BY <1>1 DEF PushDay
  <2> HIDE DEF t
  <2>4. /\ Append(t, e) \in Seq(DayEntry) /\ Len(Append(t, e)) = Window
        /\ Append(t, e)[Window] = e /\ \A i \in 1 .. Window - 1 : Append(t, e)[i] = t[i]
    BY <1>0, <2>2
  <2> QED
    BY <1>0, <1>1, <2>2, <2>3, <2>4
<1>2. CASE Len(s) # Window
  <2>1. PushDay(s, e) = Append(s, e)
    BY <1>2 DEF PushDay
  <2>2. /\ Append(s, e) \in Seq(DayEntry) /\ Len(Append(s, e)) = Len(s) + 1
        /\ Append(s, e)[Len(s) + 1] = e /\ \A i \in 1 .. Len(s) : Append(s, e)[i] = s[i]
    OBVIOUS
  <2> QED
    BY <1>0, <1>2, <2>1, <2>2
<1> QED
  BY <1>1, <1>2

\* Entries up to a day and one of that day are entries up to the next.
LEMMA PushUpToLemma ==
    ASSUME NEW s \in Seq(DayEntry), Len(s) <= Window, NEW t \in Nat, NEW sent \in [Nat -> Nat],
           Until(s, t, sent)
    PROVE  Until(PushDay(s, [day |-> t, sum |-> sent[t]]), t + 1, sent)
<1> DEFINE e == [day |-> t, sum |-> sent[t]]
           new == PushDay(s, e)
           n == Len(s)
           m == Len(new)
<1>0. Window \in Nat \ {0} /\ n \in Nat /\ e \in DayEntry
  BY StatisticsAssumption DEF DayEntry
<1>1. /\ new \in Seq(DayEntry) /\ m = (IF n = Window THEN Window ELSE n + 1)
      /\ new[m] = e
      /\ \A i \in 1 .. m - 1 : new[i] = s[IF n = Window THEN i + 1 ELSE i]
  BY <1>0, PushDayLemma
<1>2. /\ \A i \in 1 .. n : s[i] = [day |-> t - 1 - n + i, sum |-> sent[t - 1 - n + i]]
      /\ n < Window => \A d \in 0 .. (t - 1) : sent[d] > 0 => d >= t - n
  BY DEF Until
<1> HIDE DEF new, n, m
<1>3. ASSUME NEW i \in 1 .. m
      PROVE  new[i] = [day |-> (t + 1) - 1 - m + i, sum |-> sent[(t + 1) - 1 - m + i]]
  <2>1. CASE i = m
    <3>1. (t + 1) - 1 - m + i = t
      BY <1>0, <1>1, <2>1
    <3> QED
      BY <1>1, <2>1, <3>1
  <2>2. CASE i # m /\ n = Window
    <3>0. m = n /\ m \in Nat /\ i \in Nat
      BY <1>0, <1>1, <2>2
    <3>1. i + 1 \in 1 .. n /\ t - 1 - n + (i + 1) = (t + 1) - 1 - m + i /\ i \in 1 .. m - 1
      BY <2>2, <3>0
    <3>2. new[i] = s[i + 1]
      BY <1>1, <2>2, <3>1
    <3> QED
      BY <1>2, <3>1, <3>2
  <2>3. CASE i # m /\ n # Window
    <3>0. m = n + 1 /\ n \in Nat /\ i \in Nat
      BY <1>0, <1>1, <2>3
    <3>1. i \in 1 .. n /\ t - 1 - n + i = (t + 1) - 1 - m + i /\ i \in 1 .. m - 1
      BY <2>3, <3>0
    <3>2. new[i] = s[i]
      BY <1>1, <2>3, <3>1
    <3> QED
      BY <1>2, <3>1, <3>2
  <2> QED
    BY <2>1, <2>2, <2>3
<1>4. ASSUME m < Window, NEW d \in 0 .. ((t + 1) - 1), sent[d] > 0
      PROVE  d >= (t + 1) - m
  <2>1. n < Window /\ m = n + 1
    <3>1. CASE n = Window
      BY <1>0, <1>1, <1>4, <3>1
    <3>2. CASE n # Window
      <4>1. m = n + 1
        BY <1>1, <3>2
      <4> QED
        BY <1>0, <1>4, <4>1
    <3> QED
      BY <3>1, <3>2
  <2>2. CASE d = t
    BY <1>0, <2>1, <2>2
  <2>3. CASE d # t
    <3>1. d \in 0 .. (t - 1)
      BY <2>3
    <3>2. d >= t - n
      BY <1>2, <1>4, <2>1, <3>1
    <3> QED
      BY <1>0, <2>1, <3>1, <3>2
  <2> QED
    BY <2>2, <2>3
<1>5. Until(new, t + 1, sent)
  <2>1. m = Len(new)
    BY DEF m
  <2>2. \A i \in 1 .. Len(new) :
            new[i] = [day |-> (t + 1) - 1 - Len(new) + i, sum |-> sent[(t + 1) - 1 - Len(new) + i]]
    BY <1>3, <2>1
  <2>3. Len(new) < Window => \A d \in 0 .. ((t + 1) - 1) : sent[d] > 0 => d >= (t + 1) - Len(new)
    BY <1>4, <2>1
  <2> QED
    BY <2>2, <2>3 DEF Until
<1> QED
  BY <1>5 DEF new, e

\* An account without entries that sent nothing has none; the first that sent something is one.
LEMMA FirstUpToLemma ==
    ASSUME NEW t \in Nat, NEW sent \in [Nat -> Nat], Until(<<>>, t, sent)
    PROVE  /\ sent[t] = 0 => Until(<<>>, t + 1, sent)
           /\ Until(<<[day |-> t, sum |-> sent[t]]>>, t + 1, sent)
<1> DEFINE none == <<>>
           one == <<[day |-> t, sum |-> sent[t]]>>
<1>0. Window \in Nat \ {0}
  BY StatisticsAssumption
<1>1. \A d \in 0 .. (t - 1) : ~(sent[d] > 0)
  <2>1. Len(<<>>) = 0
    OBVIOUS
  <2>2. \A d \in 0 .. (t - 1) : sent[d] > 0 => d >= t - 0
    BY <1>0, <2>1 DEF Until
  <2> QED
    BY <2>2
<1>2. ASSUME sent[t] = 0 PROVE Until(none, t + 1, sent)
  <2>1. Len(none) = 0
    OBVIOUS
  <2>2. \A d \in 0 .. ((t + 1) - 1) : ~(sent[d] > 0)
    BY <1>1, <1>2
  <2> HIDE DEF none
  <2> QED
    BY <2>1, <2>2 DEF Until
<1>3. Until(one, t + 1, sent)
  <2>1. Len(one) = 1 /\ one[1] = [day |-> t, sum |-> sent[t]]
    OBVIOUS
  <2> HIDE DEF one
  <2>2. \A i \in 1 .. Len(one) :
            one[i] = [day |-> (t + 1) - 1 - Len(one) + i, sum |-> sent[(t + 1) - 1 - Len(one) + i]]
    <3>1. \A i \in 1 .. Len(one) : i = 1 /\ (t + 1) - 1 - Len(one) + i = t
      BY <2>1
    <3> QED
      BY <2>1, <3>1
  <2>3. \A d \in 0 .. ((t + 1) - 1) : sent[d] > 0 => d >= (t + 1) - Len(one)
    BY <1>1, <2>1
  <2> QED
    BY <2>2, <2>3 DEF Until
<1> QED
  BY <1>2, <1>3

\* Only the days before count.
LEMMA SameUpToLemma ==
    ASSUME NEW s \in Seq(DayEntry), NEW t \in Nat, NEW f, NEW g, \A d \in Nat : d < t => f[d] = g[d], Until(s, t, f)
    PROVE  Until(s, t, g)
<1> DEFINE n == Len(s)
<1>0. n \in Nat
  OBVIOUS
<1>1. ASSUME NEW i \in 1 .. n
      PROVE  s[i] = [day |-> t - 1 - n + i, sum |-> g[t - 1 - n + i]]
  <2>1. s[i] = [day |-> t - 1 - n + i, sum |-> f[t - 1 - n + i]] /\ s[i] \in DayEntry
    BY DEF Until
  <2>2. t - 1 - n + i \in Nat
    BY <2>1 DEF DayEntry
  <2>3. t - 1 - n + i < t
    BY <1>0
  <2> QED
    BY <2>1, <2>2, <2>3
<1>2. ASSUME n < Window, NEW d \in 0 .. (t - 1), g[d] > 0
      PROVE  d >= t - n
  <2>1. d \in Nat /\ d < t
    OBVIOUS
  <2> QED
    BY <1>2, <2>1 DEF Until
<1> QED
  BY <1>1, <1>2 DEF Until

LEMMA InitStatInv == StatInit => StatInv
<1> SUFFICES ASSUME StatInit PROVE StatInv
  OBVIOUS
<1>0. Window \in Nat \ {0}
  BY StatisticsAssumption
<1>1. StatTypes
  <2>1. \A D : <<>> \in Seq(D) /\ Len(<<>>) = 0
    BY EmptyLemma
  <2> QED
    BY <1>0, <2>1 DEF StatInit, StatTypes
<1>2. OnItsDay /\ SumsAreRight /\ RecordsAreRight
  BY DEF StatInit, OnItsDay, SumsAreRight, RecordsAreRight
<1>3. EntriesGoOn
  <2>1. LiveJobs = {}
    BY DEF StatInit, LiveJobs
  <2>2. ASSUME NEW a \in Accounts PROVE Until(perDay[a], today, SentOn(a))
    <3>1. perDay[a] = <<>> /\ today = 0
      BY DEF StatInit
    <3>2. Len(<<>>) = 0 /\ 0 .. (0 - 1) = {} /\ 1 .. 0 = {}
      OBVIOUS
    <3>3. Until(<<>>, 0, SentOn(a))
      BY <3>2 DEF Until
    <3> QED
      BY <3>1, <3>3
  <2> QED
    BY <2>1, <2>2 DEF EntriesGoOn, StatInit
<1> QED
  BY <1>1, <1>2, <1>3 DEF StatInv

\* What no step takes back.
LEMMA StatGrowsLemma ==
    ASSUME [StatNext]_statVars
    PROVE  ended \subseteq ended' /\ lateDays \subseteq lateDays' /\ mixed \subseteq mixed'
BY DEF StatNext, StatChainNext, JobNext, Midnight, StoreTx, ReadPage, CreateNextPage, InsertDay, WriteAccount,
       EndChain, CrashStatistics, statVars

\* Each step takes one job on, or is one of midnight, of the store or of a death.
LEMMA StatStepLemma ==
    ASSUME [StatNext]_statVars
    PROVE  \/ Midnight \/ CrashStatistics \/ UNCHANGED statVars
           \/ \E a \in Accounts : \E d \in 0 .. MaxStatDay : StoreTx(a, d)
           \/ \E j \in statChain : ReadPage(j) \/ CreateNextPage(j) \/ InsertDay(j) \/ EndChain(j)
           \/ \E j \in statChain : \E a \in Accounts : WriteAccount(j, a)
BY DEF StatNext, StatChainNext, JobNext

\* A page is summed up: its last is where the next begins.
LEMMA SumTypeLemma ==
    ASSUME StatTypes, NEW j \in statChain, j.pc = "next"
    PROVE  /\ SumPage(j) \in [Accounts -> Nat]
           /\ Max(j.seen) \in j.seen /\ Max(j.seen) \in Nat /\ Max(j.seen) <= Len(dayTxs)
           /\ \A k \in j.seen : k <= Max(j.seen)
<1>0. j \in DayJob /\ Len(dayTxs) \in Nat
  BY DEF StatTypes
<1>1. j.seen # {} /\ j.seen \subseteq 1 .. Len(dayTxs)
  BY DEF StatTypes
<1>2. Max(j.seen) \in j.seen /\ \A k \in j.seen : k <= Max(j.seen)
  BY <1>0, <1>1, LastIdLemma
<1>3. Max(j.seen) \in Nat /\ Max(j.seen) <= Len(dayTxs)
  BY <1>0, <1>1, <1>2
<1>4. ASSUME NEW a \in Accounts
      PROVE  j.sums[a] + Cardinality({i \in j.seen : dayTxs[i].from = a}) \in Nat
  <2>1. IsFiniteSet(1 .. Len(dayTxs)) /\ {i \in j.seen : dayTxs[i].from = a} \in SUBSET (1 .. Len(dayTxs))
    BY <1>0, <1>1, FS_Interval
  <2>2. Cardinality({i \in j.seen : dayTxs[i].from = a}) \in Nat
    BY <2>1, FS_Subset, FS_CardinalityType
  <2>3. j.sums[a] \in Nat
    BY <1>0 DEF DayJob
  <2> QED
    BY <2>2, <2>3
<1> QED
  BY <1>2, <1>3, <1>4 DEF SumPage

\* What each step that takes a job on makes of the jobs: those that are new have the day, the
\* kind, the cursor and the sums of the old one, or are one page further.
LEMMA ReadPageLemma ==
    ASSUME StatTypes, NEW j \in statChain, ReadPage(j)
    PROVE  \E new \in DayJob :
              /\ statChain' = (statChain \ {j}) \union {new}
              /\ j.pc = "wait" /\ new.pc = (IF Page(j) = {} THEN "end" ELSE "next")
              /\ new.seen = IF Page(j) # {} THEN Page(j) ELSE IF j.kind = "account" THEN Accounts ELSE {}
              /\ new.kind = j.kind /\ new.after = j.after /\ new.sums = j.sums /\ new.of = j.of
<1> DEFINE pc == IF Page(j) = {} THEN "end" ELSE "next"
           seen == IF Page(j) # {} THEN Page(j) ELSE IF j.kind = "account" THEN Accounts ELSE {}
<1>1. pc \in DayPc /\ seen \in SUBSET (Nat \union Accounts)
  <2>1. Page(j) \subseteq 1 .. Len(dayTxs) /\ Len(dayTxs) \in Nat
    BY NextPageLemma DEF StatTypes
  <2> QED
    BY <2>1 DEF DayPc
<1>2. j.pc = "wait" /\ statChain' = (statChain \ {j}) \union {[j EXCEPT !.pc = pc, !.seen = seen]}
  BY DEF ReadPage
<1> HIDE DEF pc, seen
<1> DEFINE new == [j EXCEPT !.pc = pc, !.seen = seen]
<1>3. /\ new \in DayJob /\ new.pc = pc /\ new.seen = seen
      /\ new.kind = j.kind /\ new.after = j.after /\ new.sums = j.sums /\ new.of = j.of
  <2>1. j \in DayJob
    BY DEF StatTypes
  <2> QED
    BY <1>1, <2>1 DEF DayJob
<1> HIDE DEF new
<1>4. statChain' = (statChain \ {j}) \union {new}
  BY <1>2 DEF new
<1> QED
  BY <1>2, <1>3, <1>4 DEF pc, seen

LEMMA CreateNextLemma ==
    ASSUME StatTypes, NEW j \in statChain, CreateNextPage(j)
    PROVE  \E old, new \in DayJob :
              /\ statChain' = (statChain \ {j}) \union {old, new}
              /\ j.pc = "next" /\ old.pc = "created"
              /\ old.kind = j.kind /\ old.after = j.after /\ old.sums = j.sums /\ old.of = j.of
              /\ new.pc = "wait" /\ new.kind = j.kind /\ new.after = Max(j.seen) /\ new.sums = SumPage(j)
              /\ new.of = j.of /\ new.seen = {}
              /\ new.after \in j.seen /\ new.after <= Len(dayTxs) /\ \A k \in j.seen : k <= new.after
<1> DEFINE old == [j EXCEPT !.pc = "created", !.seen = j.seen]
           new == [j EXCEPT !.pc = "wait", !.after = Max(j.seen), !.sums = SumPage(j), !.seen = {}]
<1>1. j.pc = "next" /\ j \in DayJob
  BY DEF CreateNextPage, StatTypes
<1>2. [j EXCEPT !.pc = "created"] = old
  BY <1>1 DEF DayJob
<1>3. statChain' = (statChain \ {j}) \union {old, new}
  BY <1>2 DEF CreateNextPage, CountPage
<1>4. "created" \in DayPc /\ j.seen \in SUBSET (Nat \union Accounts)
  BY <1>1 DEF DayJob, DayPc
<1>5. /\ old \in DayJob /\ old.pc = "created"
      /\ old.kind = j.kind /\ old.after = j.after /\ old.sums = j.sums /\ old.of = j.of
  BY <1>1, <1>4 DEF DayJob
<1>6. /\ new \in DayJob /\ new.pc = "wait" /\ new.seen = {}
      /\ new.kind = j.kind /\ new.after = Max(j.seen) /\ new.sums = SumPage(j) /\ new.of = j.of
      /\ new.after \in j.seen /\ new.after <= Len(dayTxs) /\ \A k \in j.seen : k <= new.after
  <2> DEFINE m == Max(j.seen)
             sums == SumPage(j)
  <2>1. sums \in [Accounts -> Nat] /\ m \in j.seen /\ m \in Nat /\ m <= Len(dayTxs) /\ \A k \in j.seen : k <= m
    BY <1>1, SumTypeLemma
  <2> HIDE DEF m, sums
  <2>2. [j EXCEPT !.pc = "wait", !.after = m, !.sums = sums, !.seen = {}] \in DayJob
    BY <1>1, <2>1 DEF DayJob, DayPc
  <2>3. new = [j EXCEPT !.pc = "wait", !.after = m, !.sums = sums, !.seen = {}]
    BY DEF m, sums
  <2>4. /\ new.pc = "wait" /\ new.seen = {} /\ new.kind = j.kind /\ new.after = m
        /\ new.sums = sums /\ new.of = j.of
    <3> HIDE DEF new
    <3> QED
      BY <1>1, <2>3 DEF DayJob
  <2> HIDE DEF new
  <2> QED
    BY <2>1, <2>2, <2>3, <2>4 DEF m, sums
<1> HIDE DEF old, new
<1> QED
  BY <1>1, <1>3, <1>5, <1>6

LEMMA WriteAccountLemma ==
    ASSUME StatTypes, NEW j \in statChain, NEW a \in Accounts, WriteAccount(j, a)
    PROVE  \E new \in DayJob :
              /\ statChain' = (statChain \ {j}) \union {new}
              /\ j.pc = "end" /\ j.kind = "account" /\ a \in j.seen
              /\ new.pc = (IF j.seen = {a} THEN "done" ELSE "end") /\ new.seen = j.seen \ {a}
              /\ new.kind = j.kind /\ new.after = j.after /\ new.sums = j.sums /\ new.of = j.of
<1> DEFINE pc == IF j.seen = {a} THEN "done" ELSE "end"
           seen == j.seen \ {a}
           new == [j EXCEPT !.pc = pc, !.seen = seen]
<1>0. j \in DayJob
  BY DEF StatTypes
<1>1. pc \in DayPc /\ seen \in SUBSET (Nat \union Accounts)
  BY <1>0 DEF DayJob, DayPc
<1>2. [j EXCEPT !.seen = @ \ {a}, !.pc = pc] = new
  BY <1>0 DEF DayJob
<1>3. j.pc = "end" /\ j.kind = "account" /\ a \in j.seen /\ statChain' = (statChain \ {j}) \union {new}
  BY <1>2 DEF WriteAccount
<1>4. /\ new \in DayJob /\ new.pc = pc /\ new.seen = seen
      /\ new.kind = j.kind /\ new.after = j.after /\ new.sums = j.sums /\ new.of = j.of
  BY <1>0, <1>1 DEF DayJob
<1> HIDE DEF new
<1> QED
  BY <1>3, <1>4

LEMMA InsertDayLemma ==
    ASSUME StatTypes, NEW j \in statChain, InsertDay(j)
    PROVE  \E new \in DayJob :
              /\ statChain' = (statChain \ {j}) \union {new}
              /\ j.pc = "end" /\ j.kind = "tx" /\ new.pc = "done"
              /\ new.kind = j.kind /\ new.after = j.after /\ new.sums = j.sums /\ new.of = j.of
<1> DEFINE new == [j EXCEPT !.pc = "done", !.seen = j.seen]
<1>0. j \in DayJob
  BY DEF StatTypes
<1>1. "done" \in DayPc /\ j.seen \in SUBSET (Nat \union Accounts)
  BY <1>0 DEF DayJob, DayPc
<1>2. [j EXCEPT !.pc = "done"] = new
  BY <1>0 DEF DayJob
<1>3. j.pc = "end" /\ j.kind = "tx" /\ statChain' = (statChain \ {j}) \union {new}
  BY <1>2 DEF InsertDay
<1>4. /\ new \in DayJob /\ new.pc = "done"
      /\ new.kind = j.kind /\ new.after = j.after /\ new.sums = j.sums /\ new.of = j.of
  BY <1>0, <1>1 DEF DayJob
<1> HIDE DEF new
<1> QED
  BY <1>3, <1>4

\* A death: each job waits, with what it carries.
LEMMA CrashStatLemma ==
    ASSUME StatTypes, CrashStatistics, NEW i \in statChain'
    PROVE  i \in DayJob /\ \E j \in statChain :
              /\ i.pc = "wait" /\ i.kind = j.kind /\ i.after = j.after /\ i.sums = j.sums /\ i.of = j.of
              /\ i = IF j.pc = "wait" THEN j
                     ELSE [j EXCEPT !.pc = "wait", !.seen = {}, !.run = statCrashes + 1]
<1>1. PICK j \in statChain : i = IF j.pc = "wait" THEN j
                                 ELSE [j EXCEPT !.pc = "wait", !.seen = {}, !.run = statCrashes + 1]
  BY DEF CrashStatistics
<1>2. j \in DayJob /\ statCrashes + 1 \in Nat
  BY DEF StatTypes
<1>3. CASE j.pc = "wait"
  BY <1>1, <1>2, <1>3
<1>4. CASE j.pc # "wait"
  <2> DEFINE new == [j EXCEPT !.pc = "wait", !.seen = {}, !.run = statCrashes + 1]
  <2>1. /\ new \in DayJob /\ new.pc = "wait" /\ new.kind = j.kind /\ new.after = j.after
        /\ new.sums = j.sums /\ new.of = j.of
    BY <1>2 DEF DayJob, DayPc
  <2>2. i = new
    BY <1>1, <1>4
  <2> HIDE DEF new
  <2> QED
    BY <1>1, <2>1, <2>2
<1> QED
  BY <1>3, <1>4

\* The entry that is written for account a, at the end of job j.
LEMMA DayWrittenLemma ==
    ASSUME StatTypes, NEW j \in statChain, NEW a \in Accounts, WriteAccount(j, a)
    PROVE  LET e == [day |-> today - 1, sum |-> j.sums[a]]
           IN /\ perDay'[a] = IF read[a] = <<>> THEN IF j.sums[a] = 0 THEN <<>> ELSE <<e>>
                              ELSE PushDay(read[a], e)
              /\ \A b \in Accounts \ {a} : perDay'[b] = perDay[b]
              /\ perDay' \in [Accounts -> Seq(DayEntry)] /\ Len(perDay'[a]) <= Window
              /\ e \in DayEntry
<1> DEFINE e == [day |-> today - 1, sum |-> j.sums[a]]
           new == IF j.sums[a] = 0 THEN QuietAccount(a)
                  ELSE IF read[a] = <<>> THEN NewAccount(j, a) ELSE ActiveAccount(j, a)
<1>0. Window \in Nat \ {0}
  BY StatisticsAssumption
<1>1. e \in DayEntry
  <2>1. j \in DayJob /\ today \in Nat /\ j.of < today
    BY DEF StatTypes
  <2>2. today - 1 \in Nat /\ j.sums[a] \in Nat
    BY <2>1 DEF DayJob
  <2> QED
    BY <2>2 DEF DayEntry
<1>2. new = IF read[a] = <<>> THEN IF j.sums[a] = 0 THEN <<>> ELSE <<e>> ELSE PushDay(read[a], e)
  <2>1. CASE j.sums[a] = 0
    BY <2>1 DEF QuietAccount
  <2>2. CASE j.sums[a] # 0
    BY <2>2 DEF NewAccount, ActiveAccount
  <2> QED
    BY <2>1, <2>2
<1>3. perDay' = [perDay EXCEPT ![a] = new]
  BY DEF WriteAccount
<1> HIDE DEF new, e
<1>4. new \in Seq(DayEntry) /\ Len(new) <= Window
  <2>1. read[a] \in Seq(DayEntry) /\ Len(read[a]) <= Window
    BY DEF StatTypes
  <2>2. CASE read[a] # <<>>
    BY <1>1, <1>2, <2>1, <2>2, PushDayLemma
  <2>3. CASE read[a] = <<>>
    <3>1. /\ <<>> \in Seq(DayEntry) /\ Len(<<>>) = 0
          /\ <<e>> \in Seq(DayEntry) /\ Len(<<e>>) = 1
      BY <1>1, EmptyLemma
    <3> QED
      BY <1>0, <1>2, <2>3, <3>1
  <2> QED
    BY <2>2, <2>3
<1>5. /\ perDay'[a] = new /\ \A b \in Accounts \ {a} : perDay'[b] = perDay[b]
      /\ perDay' \in [Accounts -> Seq(DayEntry)]
  BY <1>3, <1>4 DEF StatTypes
<1>6. perDay'[a] = IF read[a] = <<>> THEN IF j.sums[a] = 0 THEN <<>> ELSE <<e>> ELSE PushDay(read[a], e)
  BY <1>2, <1>5
<1> QED
  BY <1>1, <1>4, <1>5, <1>6 DEF e

\* The jobs are jobs.
LEMMA StatTypesStep ==
    ASSUME StatTypes, [StatNext]_statVars
    PROVE  StatTypes'
<1> DEFINE IsJob(i) == /\ i \in DayJob /\ i.after <= Len(dayTxs) /\ i.of < today
                       /\ i.pc = "next" => i.seen # {} /\ i.seen \subseteq 1 .. Len(dayTxs)
           PerDayTypes == perDay' \in [Accounts -> Seq(DayEntry)] /\ \A a \in Accounts : Len(perDay'[a]) <= Window
<1>0. /\ \A i \in statChain : IsJob(i)
      /\ today \in Nat /\ statCrashes \in Nat /\ dayTxs \in Seq(DayTx) /\ Len(dayTxs) \in Nat
      /\ perDay \in [Accounts -> Seq(DayEntry)] /\ read \in [Accounts -> Seq(DayEntry)]
      /\ \A a \in Accounts : Len(perDay[a]) <= Window /\ Len(read[a]) <= Window
      /\ \A d \in DOMAIN dayRecords : d \in Nat /\ d < today
  BY DEF StatTypes
<1>1. ASSUME UNCHANGED <<today, dayTxs, statCrashes>>, read' = read \/ read' = perDay, PerDayTypes,
             \A d \in DOMAIN dayRecords' : d \in Nat /\ d < today, \A i \in statChain' : IsJob(i)
      PROVE  StatTypes'
  <2>1. \A a \in Accounts : Len(perDay'[a]) <= Window /\ Len(read'[a]) <= Window
    BY <1>0, <1>1
  <2>2. read' \in [Accounts -> Seq(DayEntry)]
    BY <1>0, <1>1
  <2>3. statChain' \in SUBSET DayJob
    BY <1>1
  <2> QED
    BY <1>0, <1>1, <2>1, <2>2, <2>3 DEF StatTypes
<1>2. ASSUME UNCHANGED perDay PROVE PerDayTypes
  BY <1>0, <1>2
<1>3. CASE Midnight
  <2>1. /\ today' = today + 1 /\ UNCHANGED <<dayTxs, dayRecords, perDay, read, statCrashes>>
        /\ statChain' = statChain \union {NewChain(k, today) : k \in StatKinds}
    BY <1>3 DEF Midnight
  <2>2. ASSUME NEW k \in StatKinds
        PROVE  /\ NewChain(k, today) \in DayJob /\ NewChain(k, today).after = 0
               /\ NewChain(k, today).of = today /\ NewChain(k, today).pc = "wait"
    BY <1>0 DEF NewChain, DayJob, DayPc, NoSums
  <2>3. ASSUME NEW i \in statChain'
        PROVE  /\ i \in DayJob /\ i.after <= Len(dayTxs) /\ i.of < today + 1
               /\ i.pc = "next" => i.seen # {} /\ i.seen \subseteq 1 .. Len(dayTxs)
    <3>1. CASE i \in statChain
      <4>1. IsJob(i) /\ i.of \in Nat
        BY <1>0, <3>1 DEF DayJob
      <4> QED
        BY <1>0, <4>1
    <3>2. CASE i \notin statChain
      <4>1. PICK k \in StatKinds : i = NewChain(k, today)
        BY <2>1, <3>2
      <4> QED
        BY <1>0, <2>2, <4>1
    <3> QED
      BY <3>1, <3>2
  <2>4. \A d \in DOMAIN dayRecords : d \in Nat /\ d < today + 1
    BY <1>0
  <2> HIDE DEF IsJob, PerDayTypes
  <2>5. statChain' \in SUBSET DayJob
    BY <2>3
  <2> QED
    BY <1>0, <2>1, <2>3, <2>4, <2>5 DEF StatTypes
<1>4. ASSUME NEW a \in Accounts, NEW d \in 0 .. MaxStatDay, StoreTx(a, d)
      PROVE  StatTypes'
  <2>1. /\ d \in Nat /\ dayTxs' = Append(dayTxs, [day |-> d, from |-> a])
        /\ UNCHANGED <<today, statChain, dayRecords, perDay, read, statCrashes>>
    BY <1>4 DEF StoreTx
  <2>2. dayTxs' \in Seq(DayTx) /\ Len(dayTxs') = Len(dayTxs) + 1
    BY <1>0, <2>1 DEF DayTx
  <2>3. ASSUME NEW i \in statChain
        PROVE  /\ i.after <= Len(dayTxs') /\ i.of < today
               /\ i.pc = "next" => i.seen # {} /\ i.seen \subseteq 1 .. Len(dayTxs')
    <3>1. IsJob(i) /\ i.after \in Nat
      BY <1>0 DEF DayJob
    <3>2. 1 .. Len(dayTxs) \subseteq 1 .. Len(dayTxs')
      BY <1>0, <2>2
    <3>3. i.after <= Len(dayTxs')
      BY <1>0, <2>2, <3>1
    <3> QED
      BY <3>1, <3>2, <3>3
  <2> QED
    BY <1>0, <2>1, <2>2, <2>3 DEF StatTypes
<1>5. CASE CrashStatistics
  <2>1. /\ UNCHANGED <<today, dayTxs, dayRecords, perDay, read>> /\ statCrashes' = statCrashes + 1
    BY <1>5 DEF CrashStatistics
  <2>2. ASSUME NEW i \in statChain'
        PROVE  IsJob(i)
    <3>1. i \in DayJob /\ \E j \in statChain : i.pc = "wait" /\ i.after = j.after /\ i.of = j.of
      BY <1>5, CrashStatLemma
    <3> QED
      BY <1>0, <3>1
  <2>3. statChain' \in SUBSET DayJob
    BY <2>2
  <2> QED
    BY <1>0, <2>1, <2>2, <2>3 DEF StatTypes
<1>6. ASSUME NEW j \in statChain, ReadPage(j)
      PROVE  StatTypes'
  <2>1. /\ UNCHANGED <<today, dayTxs, dayRecords, perDay, statCrashes>>
        /\ read' = read \/ read' = perDay
    BY <1>6 DEF ReadPage
  <2>2. PICK new \in DayJob :
            /\ statChain' = (statChain \ {j}) \union {new}
            /\ new.pc = (IF Page(j) = {} THEN "end" ELSE "next")
            /\ new.seen = IF Page(j) # {} THEN Page(j) ELSE IF j.kind = "account" THEN Accounts ELSE {}
            /\ new.after = j.after /\ new.of = j.of
    BY <1>6, ReadPageLemma
  <2>3. IsJob(new)
    <3>1. Page(j) \subseteq 1 .. Len(dayTxs)
      BY NextPageLemma
    <3> QED
      BY <1>0, <2>2, <3>1
  <2>4. \A i \in statChain' : IsJob(i)
    BY <1>0, <2>2, <2>3
  <2> HIDE DEF IsJob, PerDayTypes
  <2> QED
    BY <1>0, <1>1, <1>2, <2>1, <2>4
<1>7. ASSUME NEW j \in statChain, CreateNextPage(j)
      PROVE  StatTypes'
  <2>1. UNCHANGED <<today, dayTxs, dayRecords, perDay, read, statCrashes>>
    BY <1>7 DEF CreateNextPage
  <2>2. PICK old \in DayJob, new \in DayJob :
            /\ statChain' = (statChain \ {j}) \union {old, new}
            /\ old.pc = "created" /\ old.after = j.after /\ old.of = j.of
            /\ new.pc = "wait" /\ new.after <= Len(dayTxs) /\ new.of = j.of
    BY <1>7, CreateNextLemma
  <2>3. IsJob(old) /\ IsJob(new)
    BY <1>0, <2>2
  <2>4. \A i \in statChain' : IsJob(i)
    BY <1>0, <2>2, <2>3
  <2> HIDE DEF IsJob, PerDayTypes
  <2> QED
    BY <1>0, <1>1, <1>2, <2>1, <2>4
<1>8. ASSUME NEW j \in statChain, InsertDay(j)
      PROVE  StatTypes'
  <2>1. /\ UNCHANGED <<today, dayTxs, perDay, read, statCrashes>>
        /\ DOMAIN dayRecords' = DOMAIN dayRecords \union {today - 1}
    BY <1>8 DEF InsertDay
  <2>2. today - 1 \in Nat /\ today - 1 < today
    <3>1. j.of \in Nat /\ j.of < today
      BY <1>0 DEF DayJob
    <3> QED
      BY <1>0, <3>1
  <2>3. PICK new \in DayJob :
            /\ statChain' = (statChain \ {j}) \union {new}
            /\ new.pc = "done" /\ new.after = j.after /\ new.of = j.of
    BY <1>8, InsertDayLemma
  <2>4. IsJob(new)
    BY <1>0, <2>3
  <2>5. \A i \in statChain' : IsJob(i)
    BY <1>0, <2>3, <2>4
  <2> HIDE DEF IsJob, PerDayTypes
  <2>6. \A d \in DOMAIN dayRecords' : d \in Nat /\ d < today
    BY <1>0, <2>1, <2>2
  <2> QED
    BY <1>1, <1>2, <2>1, <2>5, <2>6
<1>9. ASSUME NEW j \in statChain, EndChain(j)
      PROVE  StatTypes'
  <2>1. statChain' \subseteq statChain /\ UNCHANGED <<today, dayTxs, dayRecords, perDay, read, statCrashes>>
    BY <1>9 DEF EndChain
  <2>2. \A i \in statChain' : IsJob(i)
    BY <1>0, <2>1
  <2> HIDE DEF IsJob, PerDayTypes
  <2> QED
    BY <1>0, <1>1, <1>2, <2>1, <2>2
<1>10. ASSUME NEW j \in statChain, NEW a \in Accounts, WriteAccount(j, a)
       PROVE  StatTypes'
  <2>1. UNCHANGED <<today, dayTxs, dayRecords, read, statCrashes>>
    BY <1>10 DEF WriteAccount
  <2>2. PICK new \in DayJob :
            /\ statChain' = (statChain \ {j}) \union {new}
            /\ new.pc = (IF j.seen = {a} THEN "done" ELSE "end") /\ new.after = j.after /\ new.of = j.of
    BY <1>10, WriteAccountLemma
  <2>3. IsJob(new)
    BY <1>0, <2>2
  <2>4. \A i \in statChain' : IsJob(i)
    BY <1>0, <2>2, <2>3
  <2>5. /\ \A b \in Accounts \ {a} : perDay'[b] = perDay[b]
        /\ perDay' \in [Accounts -> Seq(DayEntry)] /\ Len(perDay'[a]) <= Window
    BY <1>10, DayWrittenLemma
  <2>6. PerDayTypes
    BY <1>0, <2>5
  <2> HIDE DEF IsJob, PerDayTypes
  <2> QED
    BY <1>0, <1>1, <2>1, <2>4, <2>6
<1>11. CASE UNCHANGED statVars
  BY <1>11 DEF StatTypes, statVars
<1> QED
  BY <1>3, <1>4, <1>5, <1>6, <1>7, <1>8, <1>9, <1>10, <1>11, StatStepLemma

\* A job stays right while it reads nothing.
LEMMA KeepRightLemma ==
    ASSUME UNCHANGED dayTxs, ended \subseteq ended', lateDays \subseteq lateDays',
           NEW j, JobIsRight(j), NEW i, i.of = j.of, i.after = j.after, i.sums = j.sums,
           i.pc = "next" => j.pc = "next" /\ i.seen = j.seen,
           i.pc \in {"end", "done"} => j.pc \in {"end", "done"}
    PROVE  JobIsRight(i)'
<1>1. \A a \in Accounts : i.sums[a] = Cardinality(SentUpTo(a, i.of, i.after)')
  BY DEF JobIsRight, SentUpTo
<1>2. i.pc = "next" =>
          \A k \in i.seen :
             /\ i.after < k /\ dayTxs'[k].day = i.of
             /\ \A x \in DOMAIN dayTxs' : i.after < x /\ x < k /\ dayTxs'[x].day = i.of => x \in i.seen
  BY DEF JobIsRight
<1>3. i.pc \in {"end", "done"} =>
          /\ i.of \in ended'
          /\ i.of \in lateDays' \/ \A x \in DOMAIN dayTxs' : dayTxs'[x].day = i.of => x <= i.after
  BY DEF JobIsRight
<1> QED
  BY <1>1, <1>2, <1>3 DEF JobIsRight

\* The sums of a page are those of all that the next job is past.
LEMMA SumPageLemma ==
    ASSUME StatTypes, NEW j \in statChain, j.pc = "next", JobIsRight(j), NEW a \in Accounts
    PROVE  SumPage(j)[a] = Cardinality(SentUpTo(a, j.of, Max(j.seen)))
<1> DEFINE m == Max(j.seen)
           old == SentUpTo(a, j.of, j.after)
           page == {i \in j.seen : dayTxs[i].from = a}
           all == SentUpTo(a, j.of, m)
<1>0. /\ j \in DayJob /\ Len(dayTxs) \in Nat /\ DOMAIN dayTxs = 1 .. Len(dayTxs)
      /\ j.seen \subseteq 1 .. Len(dayTxs) /\ j.after \in Nat /\ j.after <= Len(dayTxs)
  BY DEF StatTypes, DayJob
<1>1. m \in j.seen /\ m \in Nat /\ m <= Len(dayTxs) /\ \A k \in j.seen : k <= m
  BY SumTypeLemma
<1>2. \A k \in j.seen : /\ j.after < k /\ dayTxs[k].day = j.of
                        /\ \A i \in DOMAIN dayTxs : j.after < i /\ i < k /\ dayTxs[i].day = j.of => i \in j.seen
  BY DEF JobIsRight
<1> HIDE DEF m
<1>3. all = old \union page
  <2>1. ASSUME NEW i \in all PROVE i \in old \union page
    <3>1. i \in 1 .. m /\ dayTxs[i].day = j.of /\ dayTxs[i].from = a
      BY DEF SentUpTo
    <3>2. CASE i <= j.after
      BY <1>0, <1>1, <3>1, <3>2 DEF SentUpTo
    <3>3. CASE ~(i <= j.after)
      <4>1. i \in DOMAIN dayTxs /\ j.after < i /\ (i = m \/ i < m)
        BY <1>0, <1>1, <3>1, <3>3
      <4>2. i \in j.seen
        BY <1>1, <1>2, <3>1, <4>1
      <4> QED
        BY <3>1, <4>2
    <3> QED
      BY <3>2, <3>3
  <2>2. ASSUME NEW i \in old PROVE i \in all
    <3>1. i \in 1 .. j.after /\ dayTxs[i].day = j.of /\ dayTxs[i].from = a /\ j.after < m
      BY <1>1, <1>2 DEF SentUpTo
    <3>2. i \in 1 .. m
      BY <1>0, <1>1, <3>1
    <3> QED
      BY <3>1, <3>2 DEF SentUpTo
  <2>3. ASSUME NEW i \in page PROVE i \in all
    <3>1. i \in 1 .. m /\ dayTxs[i].day = j.of
      BY <1>0, <1>1, <1>2
    <3> QED
      BY <3>1 DEF SentUpTo
  <2> HIDE DEF old, page, all
  <2> QED
    BY <2>1, <2>2, <2>3
<1>4. old \intersect page = {}
  <2> SUFFICES ASSUME NEW i \in old, i \in page PROVE FALSE
    OBVIOUS
  <2>1. i \in 1 .. j.after /\ j.after < i
    BY <1>2 DEF SentUpTo
  <2> QED
    BY <1>0, <2>1
<1>5. IsFiniteSet(old) /\ IsFiniteSet(page)
  <2>1. old \in SUBSET (1 .. j.after) /\ page \in SUBSET (1 .. Len(dayTxs))
    BY <1>0 DEF SentUpTo
  <2>2. IsFiniteSet(1 .. j.after) /\ IsFiniteSet(1 .. Len(dayTxs))
    BY <1>0, FS_Interval
  <2> HIDE DEF old, page
  <2> QED
    BY <2>1, <2>2, FS_Subset
<1>6. SumPage(j)[a] = Cardinality(old) + Cardinality(page)
  BY DEF SumPage, JobIsRight
<1> HIDE DEF old, page
<1>7. Cardinality(old \union page) = Cardinality(old) + Cardinality(page)
  <2>1. Cardinality(old \union page) = Cardinality(old) + Cardinality(page) - Cardinality(old \intersect page)
    BY <1>5, FS_Union
  <2>2. Cardinality(old) \in Nat /\ Cardinality(page) \in Nat /\ Cardinality(old \intersect page) = 0
    BY <1>4, <1>5, FS_CardinalityType, FS_EmptySet
  <2> QED
    BY <2>1, <2>2
<1> QED
  BY <1>3, <1>6, <1>7 DEF m

\* A job runs in the day after its own, or midnight has mixed the two.
LEMMA OnItsDayStep ==
    ASSUME StatTypes, OnItsDay, [StatNext]_statVars
    PROVE  OnItsDay'
<1>0. mixed \subseteq mixed' /\ today \in Nat
  BY StatGrowsLemma DEF StatTypes
<1>1. ASSUME today' = today, \A i \in statChain' : \E j \in statChain : i.of = j.of
      PROVE  OnItsDay'
  BY <1>0, <1>1 DEF OnItsDay
<1>2. CASE Midnight
  <2>1. /\ today' = today + 1 /\ statChain' = statChain \union {NewChain(k, today) : k \in StatKinds}
        /\ \A j \in statChain : {j.of, today} \subseteq mixed'
    BY <1>2 DEF Midnight
  <2>2. today' - 1 = today /\ \A k \in StatKinds : NewChain(k, today).of = today
    BY <1>0, <2>1 DEF NewChain
  <2>3. ASSUME NEW i \in statChain'
        PROVE  i.of = today \/ {i.of, today} \subseteq mixed'
    BY <2>1, <2>2
  <2> QED
    BY <2>2, <2>3 DEF OnItsDay
<1>3. ASSUME NEW a \in Accounts, NEW d \in 0 .. MaxStatDay, StoreTx(a, d) PROVE OnItsDay'
  BY <1>1, <1>3 DEF StoreTx
<1>4. CASE CrashStatistics
  <2>1. today' = today
    BY <1>4 DEF CrashStatistics
  <2>2. \A i \in statChain' : \E j \in statChain : i.of = j.of
    BY <1>4, CrashStatLemma
  <2> QED
    BY <1>1, <2>1, <2>2
<1>5. ASSUME NEW j \in statChain, ReadPage(j) \/ CreateNextPage(j) \/ InsertDay(j) \/ EndChain(j)
      PROVE  OnItsDay'
  <2>1. today' = today
    BY <1>5 DEF ReadPage, CreateNextPage, InsertDay, EndChain
  <2>2. CASE ReadPage(j)
    BY <1>1, <2>1, <2>2, ReadPageLemma
  <2>3. CASE CreateNextPage(j)
    <3>1. PICK old \in DayJob, new \in DayJob :
              statChain' = (statChain \ {j}) \union {old, new} /\ old.of = j.of /\ new.of = j.of
      BY <2>3, CreateNextLemma
    <3> QED
      BY <1>1, <2>1, <3>1
  <2>4. CASE InsertDay(j)
    BY <1>1, <2>1, <2>4, InsertDayLemma
  <2>5. CASE EndChain(j)
    BY <1>1, <2>1, <2>5 DEF EndChain
  <2> QED
    BY <1>5, <2>2, <2>3, <2>4, <2>5
<1>6. ASSUME NEW j \in statChain, NEW a \in Accounts, WriteAccount(j, a) PROVE OnItsDay'
  <2>1. today' = today
    BY <1>6 DEF WriteAccount
  <2> QED
    BY <1>1, <1>6, <2>1, WriteAccountLemma
<1>7. CASE UNCHANGED statVars
  BY <1>7 DEF OnItsDay, statVars
<1> QED
  BY <1>2, <1>3, <1>4, <1>5, <1>6, <1>7, StatStepLemma

\* What a job has summed up stays right.
LEMMA SumsStep ==
    ASSUME StatTypes, OnItsDay, SumsAreRight, [StatNext]_statVars
    PROVE  SumsAreRight'
<1>0. /\ ended \subseteq ended' /\ lateDays \subseteq lateDays' /\ mixed \subseteq mixed'
      /\ dayTxs \in Seq(DayTx) /\ Len(dayTxs) \in Nat /\ DOMAIN dayTxs = 1 .. Len(dayTxs)
      /\ \A j \in statChain : j \in DayJob /\ j.after \in Nat /\ j.after <= Len(dayTxs)
  BY StatGrowsLemma DEF StatTypes, DayJob
<1>1. \A j \in statChain : j.of \notin mixed' => JobIsRight(j)
  BY <1>0 DEF SumsAreRight
<1>2. ASSUME UNCHANGED dayTxs, NEW j \in statChain, j.of \notin mixed' PROVE JobIsRight(j)'
  BY <1>0, <1>1, <1>2, KeepRightLemma
<1>3. CASE Midnight
  <2>1. /\ UNCHANGED dayTxs /\ statChain' = statChain \union {NewChain(k, today) : k \in StatKinds}
    BY <1>3 DEF Midnight
  <2>2. ASSUME NEW k \in StatKinds, NEW i, i = NewChain(k, today)
        PROVE  JobIsRight(i)'
    <3>1. i.after = 0 /\ i.pc = "wait" /\ \A a \in Accounts : i.sums[a] = 0
      BY <2>2 DEF NewChain, NoSums
    <3>2. \A a \in Accounts : SentUpTo(a, i.of, 0)' = {}
      BY DEF SentUpTo
    <3>3. \A a \in Accounts : i.sums[a] = Cardinality(SentUpTo(a, i.of, i.after)')
      BY <3>1, <3>2, FS_EmptySet
    <3> QED
      BY <3>1, <3>3 DEF JobIsRight
  <2>3. ASSUME NEW i \in statChain', i.of \notin mixed' PROVE JobIsRight(i)'
    BY <1>2, <2>1, <2>2, <2>3
  <2> QED
    BY <2>3 DEF SumsAreRight
<1>4. ASSUME NEW a \in Accounts, NEW d \in 0 .. MaxStatDay, StoreTx(a, d)
      PROVE  SumsAreRight'
  <2>1. /\ dayTxs' = Append(dayTxs, [day |-> d, from |-> a]) /\ UNCHANGED statChain
        /\ lateDays' = (IF d \in ended THEN lateDays \union {d} ELSE lateDays) /\ ended' = ended
    BY <1>4 DEF StoreTx
  <2>2. /\ DOMAIN dayTxs' = 1 .. Len(dayTxs) + 1
        /\ \A i \in 1 .. Len(dayTxs) : dayTxs'[i] = dayTxs[i]
        /\ dayTxs'[Len(dayTxs) + 1].day = d
    <3>1. [day |-> d, from |-> a] \in DayTx
      BY DEF DayTx
    <3> QED
      BY <1>0, <2>1, <3>1
  <2>3. ASSUME NEW i \in statChain, i.of \notin mixed' PROVE JobIsRight(i)'
    <3>0. JobIsRight(i) /\ i.after \in Nat /\ i.after <= Len(dayTxs)
      BY <1>0, <1>1, <2>3
    <3>1. ASSUME NEW b \in Accounts PROVE i.sums[b] = Cardinality(SentUpTo(b, i.of, i.after)')
      <4>1. \A x \in 1 .. i.after : dayTxs'[x] = dayTxs[x]
        BY <1>0, <2>2, <3>0
      <4>2. SentUpTo(b, i.of, i.after)' = SentUpTo(b, i.of, i.after)
        BY <4>1 DEF SentUpTo
      <4> QED
        BY <3>0, <4>2 DEF JobIsRight
    <3>2. ASSUME i.pc = "next", NEW k \in i.seen
          PROVE  /\ i.after < k /\ dayTxs'[k].day = i.of
                 /\ \A x \in DOMAIN dayTxs' : i.after < x /\ x < k /\ dayTxs'[x].day = i.of => x \in i.seen
      <4>1. i.seen \subseteq 1 .. Len(dayTxs)
        BY <3>2 DEF StatTypes
      <4>2. i.after < k /\ dayTxs[k].day = i.of
        BY <3>0, <3>2 DEF JobIsRight
      <4>3. ASSUME NEW x \in DOMAIN dayTxs', i.after < x, x < k, dayTxs'[x].day = i.of
            PROVE  x \in i.seen
        <5>1. x \in 1 .. Len(dayTxs)
          BY <1>0, <2>2, <4>1, <4>3
        <5> QED
          BY <1>0, <2>2, <3>0, <3>2, <4>3, <5>1 DEF JobIsRight
      <4> QED
        BY <2>2, <4>1, <4>2, <4>3
    <3>3. ASSUME i.pc \in {"end", "done"}
          PROVE  /\ i.of \in ended'
                 /\ i.of \in lateDays' \/ \A x \in DOMAIN dayTxs' : dayTxs'[x].day = i.of => x <= i.after
      <4>1. /\ i.of \in ended
            /\ i.of \in lateDays \/ \A x \in DOMAIN dayTxs : dayTxs[x].day = i.of => x <= i.after
        BY <3>0, <3>3 DEF JobIsRight
      <4>2. CASE i.of = d
        BY <1>0, <2>1, <4>1, <4>2
      <4>3. CASE i.of # d /\ i.of \notin lateDays'
        <5>1. ASSUME NEW x \in DOMAIN dayTxs', dayTxs'[x].day = i.of PROVE x <= i.after
          <6>1. x \in 1 .. Len(dayTxs)
            BY <1>0, <2>2, <4>3, <5>1
          <6> QED
            BY <1>0, <2>2, <4>1, <4>3, <5>1, <6>1
        <5> QED
          BY <1>0, <4>1, <5>1
      <4> QED
        BY <1>0, <4>1, <4>2, <4>3
    <3> QED
      BY <3>1, <3>2, <3>3 DEF JobIsRight
  <2> QED
    BY <2>1, <2>3 DEF SumsAreRight
<1>5. CASE CrashStatistics
  <2>1. UNCHANGED dayTxs
    BY <1>5 DEF CrashStatistics
  <2>2. ASSUME NEW i \in statChain', i.of \notin mixed' PROVE JobIsRight(i)'
    <3>1. PICK j \in statChain : i.pc = "wait" /\ i.after = j.after /\ i.sums = j.sums /\ i.of = j.of
      BY <1>5, CrashStatLemma
    <3>2. JobIsRight(j)
      BY <1>1, <2>2, <3>1
    <3> QED
      BY <1>0, <2>1, <3>1, <3>2, KeepRightLemma
  <2> QED
    BY <2>2 DEF SumsAreRight
<1>6. ASSUME NEW j \in statChain, ReadPage(j)
      PROVE  SumsAreRight'
  <2>1. /\ UNCHANGED <<dayTxs, lateDays, mixed>>
        /\ Page(j) = {} => j.of \in ended'
    BY <1>6 DEF ReadPage
  <2>2. PICK new \in DayJob :
            /\ statChain' = (statChain \ {j}) \union {new}
            /\ new.pc = (IF Page(j) = {} THEN "end" ELSE "next")
            /\ new.seen = IF Page(j) # {} THEN Page(j) ELSE IF j.kind = "account" THEN Accounts ELSE {}
            /\ new.after = j.after /\ new.sums = j.sums /\ new.of = j.of
    BY <1>6, ReadPageLemma
  <2>3. ASSUME j.of \notin mixed' PROVE JobIsRight(new)'
    <3>1. JobIsRight(j) /\ j.of = today - 1
      BY <1>1, <2>1, <2>3 DEF OnItsDay
    <3>2. \A a \in Accounts : new.sums[a] = Cardinality(SentUpTo(a, new.of, new.after)')
      BY <2>1, <2>2, <3>1 DEF JobIsRight, SentUpTo
    <3>3. ASSUME new.pc = "next"
          PROVE  \A k \in new.seen :
                    /\ new.after < k /\ dayTxs'[k].day = new.of
                    /\ \A x \in DOMAIN dayTxs' : new.after < x /\ x < k /\ dayTxs'[x].day = new.of => x \in new.seen
      <4>1. Page(j) # {} /\ new.seen = Page(j)
        BY <2>2, <3>3
      <4>2. \A k \in Page(j) :
               /\ j.after < k /\ dayTxs[k].day = today - 1
               /\ \A x \in DOMAIN dayTxs : j.after < x /\ x < k /\ dayTxs[x].day = today - 1 => x \in Page(j)
        BY NextPageLemma
      <4> QED
        BY <2>1, <2>2, <3>1, <4>1, <4>2
    <3>4. ASSUME new.pc \in {"end", "done"}
          PROVE  /\ new.of \in ended'
                 /\ \A x \in DOMAIN dayTxs' : dayTxs'[x].day = new.of => x <= new.after
      <4>1. Page(j) = {}
        BY <2>2, <3>4
      <4>2. \A x \in DOMAIN dayTxs : dayTxs[x].day = today - 1 => x <= j.after
        BY <4>1, NextPageLemma
      <4> QED
        BY <2>1, <2>2, <3>1, <4>1, <4>2
    <3> QED
      BY <3>2, <3>3, <3>4 DEF JobIsRight
  <2>4. ASSUME NEW i \in statChain', i.of \notin mixed' PROVE JobIsRight(i)'
    BY <1>2, <2>1, <2>2, <2>3, <2>4
  <2> QED
    BY <2>4 DEF SumsAreRight
<1>7. ASSUME NEW j \in statChain, CreateNextPage(j)
      PROVE  SumsAreRight'
  <2>1. UNCHANGED dayTxs
    BY <1>7 DEF CreateNextPage
  <2>2. PICK old \in DayJob, new \in DayJob :
            /\ statChain' = (statChain \ {j}) \union {old, new}
            /\ j.pc = "next" /\ old.pc = "created"
            /\ old.after = j.after /\ old.sums = j.sums /\ old.of = j.of
            /\ new.pc = "wait" /\ new.after = Max(j.seen) /\ new.sums = SumPage(j) /\ new.of = j.of
    BY <1>7, CreateNextLemma
  <2>3. ASSUME j.of \notin mixed' PROVE JobIsRight(old)' /\ JobIsRight(new)'
    <3>1. JobIsRight(j)
      BY <1>1, <2>3
    <3>2. JobIsRight(old)'
      BY <1>0, <2>1, <2>2, <3>1, KeepRightLemma
    <3>3. ASSUME NEW a \in Accounts PROVE new.sums[a] = Cardinality(SentUpTo(a, new.of, new.after)')
      <4>1. SumPage(j)[a] = Cardinality(SentUpTo(a, j.of, Max(j.seen)))
        BY <2>2, <3>1, SumPageLemma
      <4>2. SentUpTo(a, new.of, new.after)' = SentUpTo(a, new.of, new.after)
        BY <2>1 DEF SentUpTo
      <4> QED
        BY <2>2, <4>1, <4>2
    <3>4. JobIsRight(new)'
      BY <2>2, <3>3 DEF JobIsRight
    <3> QED
      BY <3>2, <3>4
  <2>4. ASSUME NEW i \in statChain', i.of \notin mixed' PROVE JobIsRight(i)'
    BY <1>2, <2>1, <2>2, <2>3, <2>4
  <2> QED
    BY <2>4 DEF SumsAreRight
<1>8. ASSUME NEW j \in statChain, NEW new \in DayJob, statChain' = (statChain \ {j}) \union {new},
             UNCHANGED dayTxs, j.pc = "end", new.pc \in {"end", "done"},
             new.after = j.after, new.sums = j.sums, new.of = j.of
      PROVE  SumsAreRight'
  <2>1. ASSUME new.of \notin mixed' PROVE JobIsRight(new)'
    <3>1. JobIsRight(j)
      BY <1>1, <1>8, <2>1
    <3> QED
      BY <1>0, <1>8, <3>1, KeepRightLemma
  <2>2. ASSUME NEW i \in statChain', i.of \notin mixed' PROVE JobIsRight(i)'
    BY <1>2, <1>8, <2>1, <2>2
  <2> QED
    BY <2>2 DEF SumsAreRight
<1>9. ASSUME NEW j \in statChain, InsertDay(j)
      PROVE  SumsAreRight'
  <2>1. UNCHANGED dayTxs
    BY <1>9 DEF InsertDay
  <2>2. PICK new \in DayJob :
            /\ statChain' = (statChain \ {j}) \union {new}
            /\ j.pc = "end" /\ new.pc = "done"
            /\ new.after = j.after /\ new.sums = j.sums /\ new.of = j.of
    BY <1>9, InsertDayLemma
  <2> QED
    BY <1>8, <2>1, <2>2
<1>10. ASSUME NEW j \in statChain, EndChain(j)
       PROVE  SumsAreRight'
  BY <1>2, <1>10 DEF EndChain, SumsAreRight
<1>11. ASSUME NEW j \in statChain, NEW a \in Accounts, WriteAccount(j, a)
       PROVE  SumsAreRight'
  <2>1. UNCHANGED dayTxs
    BY <1>11 DEF WriteAccount
  <2>2. PICK new \in DayJob :
            /\ statChain' = (statChain \ {j}) \union {new}
            /\ j.pc = "end" /\ new.pc = (IF j.seen = {a} THEN "done" ELSE "end")
            /\ new.after = j.after /\ new.sums = j.sums /\ new.of = j.of
    BY <1>11, WriteAccountLemma
  <2> QED
    BY <1>8, <2>1, <2>2
<1>12. CASE UNCHANGED statVars
  <2>1. UNCHANGED <<dayTxs, statChain, mixed>>
    BY <1>12 DEF statVars
  <2> QED
    BY <1>2, <2>1 DEF SumsAreRight
<1> QED
  BY <1>3, <1>4, <1>5, <1>6, <1>7, <1>9, <1>10, <1>11, <1>12, StatStepLemma

\* At its end a job has all that was sent in its day.
LEMMA SentLemma ==
    ASSUME StatTypes, OnItsDay, SumsAreRight, NEW j \in statChain, j.pc \in {"end", "done"},
           j.of \notin lateDays, j.of \notin mixed
    PROVE  /\ j.of = today - 1 /\ j.of \in ended /\ j.of \in Nat
           /\ \A a \in Accounts : j.sums[a] = StatTxsOf(a, j.of)
           /\ j.sums = [a \in Accounts |-> StatTxsOf(a, j.of)]
<1>1. j.of = today - 1 /\ JobIsRight(j)
  BY DEF OnItsDay, SumsAreRight
<1>2. /\ j \in DayJob /\ j.after \in Nat /\ j.after <= Len(dayTxs) /\ Len(dayTxs) \in Nat
      /\ DOMAIN dayTxs = 1 .. Len(dayTxs) /\ j.of \in Nat
  BY DEF StatTypes, DayJob
<1>3. j.of \in ended /\ \A i \in DOMAIN dayTxs : dayTxs[i].day = j.of => i <= j.after
  BY <1>1 DEF JobIsRight
<1>4. ASSUME NEW a \in Accounts PROVE j.sums[a] = StatTxsOf(a, j.of)
  <2>1. 1 .. j.after \subseteq DOMAIN dayTxs
    BY <1>2
  <2>2. \A i \in DOMAIN dayTxs : dayTxs[i].day = j.of => i \in 1 .. j.after
    BY <1>2, <1>3
  <2>3. SentUpTo(a, j.of, j.after) = {i \in DOMAIN dayTxs : dayTxs[i].day = j.of /\ dayTxs[i].from = a}
    BY <2>1, <2>2 DEF SentUpTo
  <2> QED
    BY <1>1, <2>3 DEF JobIsRight, StatTxsOf
<1>5. j.sums = [a \in Accounts |-> StatTxsOf(a, j.of)]
  <2>1. j.sums \in [Accounts -> Nat]
    BY <1>2 DEF DayJob
  <2> QED
    BY <1>4, <2>1
<1> QED
  BY <1>1, <1>2, <1>3, <1>4, <1>5

\* What was sent in a day is what it was, as long as nothing of it is stored.
LEMMA SameDayLemma ==
    ASSUME StatTypes, NEW a \in Accounts, NEW d \in Nat, StoreTx(a, d),
           NEW b \in Accounts, NEW x, x # d
    PROVE  StatTxsOf(b, x)' = StatTxsOf(b, x)
<1>1. /\ dayTxs \in Seq(DayTx) /\ [day |-> d, from |-> a] \in DayTx
      /\ dayTxs' = Append(dayTxs, [day |-> d, from |-> a])
  BY DEF StatTypes, StoreTx, DayTx
<1>2. /\ DOMAIN dayTxs = 1 .. Len(dayTxs) /\ DOMAIN dayTxs' = 1 .. Len(dayTxs) + 1 /\ Len(dayTxs) \in Nat
      /\ \A i \in 1 .. Len(dayTxs) : dayTxs'[i] = dayTxs[i]
      /\ dayTxs'[Len(dayTxs) + 1].day = d
  BY <1>1
<1>3. {i \in DOMAIN dayTxs' : dayTxs'[i].day = x /\ dayTxs'[i].from = b}
      = {i \in DOMAIN dayTxs : dayTxs[i].day = x /\ dayTxs[i].from = b}
  <2>1. \A i \in DOMAIN dayTxs' : i \in DOMAIN dayTxs \/ i = Len(dayTxs) + 1
    BY <1>2
  <2>2. \A i \in DOMAIN dayTxs : i \in DOMAIN dayTxs'
    BY <1>2
  <2> QED
    BY <1>2, <2>1, <2>2
<1> QED
  BY <1>3 DEF StatTxsOf

\* A record is of a day that was read to the end.
LEMMA RecordsStep ==
    ASSUME StatTypes, OnItsDay, SumsAreRight, RecordsAreRight, [StatNext]_statVars
    PROVE  RecordsAreRight'
<1>0. ended \subseteq ended' /\ lateDays \subseteq lateDays' /\ mixed \subseteq mixed'
  BY StatGrowsLemma
<1>1. ASSUME UNCHANGED <<dayTxs, dayRecords>>
      PROVE  RecordsAreRight'
  <2>1. \A d : DayRecordOf(d)' = DayRecordOf(d)
    BY <1>1 DEF DayRecordOf, StatTxsOf
  <2> QED
    BY <1>0, <1>1, <2>1 DEF RecordsAreRight
<1>2. ASSUME NEW a \in Accounts, NEW d \in 0 .. MaxStatDay, StoreTx(a, d)
      PROVE  RecordsAreRight'
  <2>0. d \in Nat
    OBVIOUS
  <2>1. /\ dayRecords' = dayRecords /\ mixed' = mixed /\ ended' = ended
        /\ lateDays' = IF d \in ended THEN lateDays \union {d} ELSE lateDays
    BY <1>2 DEF StoreTx
  <2>2. ASSUME NEW x \in DOMAIN dayRecords \ mixed
        PROVE  x \in ended /\ (x \in lateDays' \/ dayRecords[x] = DayRecordOf(x)')
    <3>1. x \in ended /\ (x \in lateDays \/ dayRecords[x] = DayRecordOf(x))
      BY DEF RecordsAreRight
    <3>2. CASE x = d
      BY <2>1, <3>1, <3>2
    <3>3. CASE x # d
      <4>1. \A b \in Accounts : StatTxsOf(b, x)' = StatTxsOf(b, x)
        BY <1>2, <2>0, <3>3, SameDayLemma
      <4>2. DayRecordOf(x)' = DayRecordOf(x)
        BY <4>1 DEF DayRecordOf
      <4> QED
        BY <1>0, <3>1, <4>2
    <3> QED
      BY <3>2, <3>3
  <2> QED
    BY <2>1, <2>2 DEF RecordsAreRight
<1>3. ASSUME NEW j \in statChain, InsertDay(j)
      PROVE  RecordsAreRight'
  <2> DEFINE rec == [dayTxs |-> SumFunction(j.sums), active |-> {a \in Accounts : j.sums[a] > 0}]
  <2>1. /\ UNCHANGED <<today, dayTxs, ended, lateDays, mixed>> /\ j.pc = "end"
        /\ dayRecords' = [d \in DOMAIN dayRecords \union {today - 1} |->
                          IF d \in DOMAIN dayRecords THEN dayRecords[d] ELSE rec]
    BY <1>3 DEF InsertDay
  <2> HIDE DEF rec
  <2>2. ASSUME NEW x \in DOMAIN dayRecords' \ mixed
        PROVE  x \in ended /\ (x \in lateDays \/ dayRecords'[x] = DayRecordOf(x))
    <3>1. CASE x \in DOMAIN dayRecords
      BY <2>1, <2>2, <3>1 DEF RecordsAreRight
    <3>2. CASE x \notin DOMAIN dayRecords
      <4>1. x = today - 1 /\ dayRecords'[x] = rec
        BY <2>1, <2>2, <3>2
      <4>2. j.of = x /\ j.of \notin mixed /\ j.of \in ended
        BY <2>1, <2>2, <4>1 DEF OnItsDay, SumsAreRight, JobIsRight
      <4>3. CASE x \notin lateDays
        <5>1. j.sums = [a \in Accounts |-> StatTxsOf(a, x)] /\ \A a \in Accounts : j.sums[a] = StatTxsOf(a, x)
          BY <2>1, <4>2, <4>3, SentLemma
        <5>2. {a \in Accounts : j.sums[a] > 0} = {a \in Accounts : StatTxsOf(a, x) > 0}
          BY <5>1
        <5>3. rec = DayRecordOf(x)
          BY <5>1, <5>2 DEF DayRecordOf, rec
        <5> QED
          BY <4>1, <4>2, <5>3
      <4> QED
        BY <4>2, <4>3
    <3> QED
      BY <3>1, <3>2
  <2>3. \A x : DayRecordOf(x)' = DayRecordOf(x)
    BY <2>1 DEF DayRecordOf, StatTxsOf
  <2> QED
    BY <2>1, <2>2, <2>3 DEF RecordsAreRight
<1>4. CASE Midnight \/ CrashStatistics \/ UNCHANGED statVars
  BY <1>1, <1>4 DEF Midnight, CrashStatistics, statVars
<1>5. ASSUME NEW j \in statChain, ReadPage(j) \/ CreateNextPage(j) \/ EndChain(j)
      PROVE  RecordsAreRight'
  BY <1>1, <1>5 DEF ReadPage, CreateNextPage, EndChain
<1>6. ASSUME NEW j \in statChain, NEW a \in Accounts, WriteAccount(j, a)
      PROVE  RecordsAreRight'
  BY <1>1, <1>6 DEF WriteAccount
<1> QED
  BY <1>2, <1>3, <1>4, <1>5, <1>6, StatStepLemma

\* The jobs that go on, when one job becomes another.
LEMMA LiveJobsLemma ==
    ASSUME NEW j \in statChain, NEW new, statChain' = (statChain \ {j}) \union {new}, new.kind = j.kind
    PROVE  LiveJobs' = IF new.kind = "account" /\ new.pc \in {"wait", "next", "end"}
                       THEN (LiveJobs \ {j}) \union {new} ELSE LiveJobs \ {j}
BY DEF LiveJobs

\* The entries of the accounts are those of the days that are over, or of all but the last one.
LEMMA EntriesStep ==
    ASSUME StatTypes, OnItsDay, SumsAreRight, EntriesGoOn, [StatNext]_statVars
    PROVE  EntriesGoOn'
<1> SUFFICES ASSUME Undisturbed'
             PROVE  /\ \A i, j \in LiveJobs' : i = j
                    /\ \A j \in LiveJobs', a \in Accounts : GoesOn(j, a)'
                    /\ LiveJobs' = {} => /\ \A a \in Accounts : Until(perDay'[a], today', SentOn(a)')
                                         /\ today' > 0 => today' - 1 \in ended'
  BY DEF EntriesGoOn, Until
<1> DEFINE New == /\ \A i, j \in LiveJobs' : i = j
                  /\ \A j \in LiveJobs', a \in Accounts : GoesOn(j, a)'
                  /\ LiveJobs' = {} => /\ \A a \in Accounts : Until(perDay'[a], today', SentOn(a)')
                                       /\ today' > 0 => today' - 1 \in ended'
<1> SUFFICES New
  OBVIOUS
<1>0. /\ ended \subseteq ended' /\ today \in Nat
      /\ lateDays = {} /\ mixed = {} /\ lateDays' = {} /\ mixed' = {} /\ "account" \in StatKinds
      /\ perDay \in [Accounts -> Seq(DayEntry)] /\ read \in [Accounts -> Seq(DayEntry)]
  <2>1. lateDays \subseteq lateDays' /\ mixed \subseteq mixed' /\ ended \subseteq ended'
    BY StatGrowsLemma
  <2> QED
    BY <2>1 DEF Undisturbed, StatTypes
<1>1. /\ \A i, j \in LiveJobs : i = j
      /\ \A j \in LiveJobs, a \in Accounts : GoesOn(j, a)
      /\ LiveJobs = {} => /\ \A a \in Accounts : Until(perDay[a], today, SentOn(a))
                          /\ today > 0 => today - 1 \in ended
  BY <1>0 DEF EntriesGoOn, Undisturbed
<1>2. \A j \in statChain : j.of = today - 1
  BY <1>0 DEF OnItsDay
<1>3. ASSUME UNCHANGED dayTxs PROVE \A a \in Accounts : SentOn(a)' = SentOn(a)
  BY <1>3 DEF SentOn, StatTxsOf
<1>4. ASSUME UNCHANGED <<dayTxs, today, perDay, read>>, LiveJobs' = LiveJobs
      PROVE  New
  <2>1. \A j \in LiveJobs, a \in Accounts : GoesOn(j, a)' = GoesOn(j, a)
    BY <1>3, <1>4 DEF GoesOn, Until
  <2>2. \A a \in Accounts : Until(perDay'[a], today', SentOn(a)') = Until(perDay[a], today, SentOn(a))
    BY <1>3, <1>4
  <2> QED
    BY <1>0, <1>1, <1>4, <2>1, <2>2
<1>5. CASE Midnight
  <2>1. /\ today' = today + 1 /\ UNCHANGED <<dayTxs, perDay>>
        /\ statChain' = statChain \union {NewChain(k, today) : k \in StatKinds}
        /\ \A j \in statChain : j.of \in mixed'
    BY <1>5 DEF Midnight
  <2>2. statChain = {} /\ LiveJobs = {}
    BY <1>0, <2>1 DEF LiveJobs
  <2>3. LiveJobs' = {NewChain("account", today)}
    BY <1>0, <2>1, <2>2 DEF LiveJobs, NewChain
  <2>4. ASSUME NEW i, i = NewChain("account", today), NEW a \in Accounts
        PROVE  GoesOn(i, a)'
    <3>1. i.pc = "wait" /\ today' - 1 = today
      BY <1>0, <2>1, <2>4 DEF NewChain
    <3>2. Until(perDay'[a], today' - 1, SentOn(a)')
      BY <1>1, <1>3, <2>1, <2>2, <3>1
    <3> QED
      BY <3>1, <3>2 DEF GoesOn, Until
  <2> QED
    BY <2>3, <2>4
<1>6. ASSUME NEW a \in Accounts, NEW d \in 0 .. MaxStatDay, StoreTx(a, d)
      PROVE  New
  <2>0. d \in Nat
    OBVIOUS
  <2>1. /\ UNCHANGED <<today, statChain, perDay, read, ended>> /\ d \in {today, today - 1} /\ d \notin ended
    BY <1>0, <1>6 DEF StoreTx
  <2>2. \A b \in Accounts : \A x \in Nat : x # d => SentOn(b)'[x] = SentOn(b)[x]
    BY <1>6, <2>0, SameDayLemma DEF SentOn
  <2>3. ASSUME NEW b \in Accounts, NEW s \in Seq(DayEntry), NEW t \in Nat, t <= d, Until(s, t, SentOn(b))
        PROVE  Until(s, t, SentOn(b)')
    <3>1. \A x \in Nat : x < t => SentOn(b)[x] = SentOn(b)'[x]
      BY <2>0, <2>2, <2>3
    <3> HIDE DEF New
    <3> QED
      BY <2>3, <3>1, SameUpToLemma
  <2>4. LiveJobs' = LiveJobs
    BY <2>1 DEF LiveJobs
  <2>5. ASSUME NEW j \in LiveJobs, NEW b \in Accounts PROVE GoesOn(j, b)'
    <3>0. j \in statChain /\ j.of = today - 1 /\ today - 1 \in Nat /\ GoesOn(j, b)
      BY <1>1, <1>2, <2>5 DEF LiveJobs, StatTypes, DayJob
    <3>1. today - 1 <= d
      BY <1>0, <2>1
    <3>2. j.pc = "end" => d = today
      BY <1>0, <2>1, <3>0 DEF SumsAreRight, JobIsRight
    <3>3. j.pc = "end" => Until(read[b], today - 1, SentOn(b)')
      BY <1>0, <2>3, <3>0, <3>1 DEF GoesOn
    <3> DEFINE t == IF j.pc = "end" /\ b \notin j.seen THEN today ELSE today - 1
    <3>4. Until(perDay[b], t, SentOn(b)) /\ t \in Nat /\ t <= d
      BY <1>0, <3>0, <3>1, <3>2 DEF GoesOn
    <3> HIDE DEF t
    <3>5. Until(perDay[b], t, SentOn(b)')
      BY <1>0, <2>3, <3>4
    <3> QED
      BY <2>1, <3>3, <3>5 DEF GoesOn, Until, t
  <2>6. ASSUME LiveJobs = {}, NEW b \in Accounts PROVE Until(perDay[b], today, SentOn(b)')
    <3>1. d = today
      <4>1. CASE d = today - 1
        <5>1. today > 0
          BY <1>0, <2>0, <4>1
        <5> QED
          BY <1>1, <2>1, <2>6, <4>1, <5>1
      <4> QED
        BY <2>1, <4>1
    <3> QED
      BY <1>0, <1>1, <2>3, <2>6, <3>1
  <2> QED
    BY <1>1, <2>1, <2>4, <2>5, <2>6
<1>7. CASE CrashStatistics
  <2>0. /\ UNCHANGED <<today, dayTxs, perDay, ended>>
        /\ mixed' = mixed \union {j.of : j \in {i \in statChain : i.kind = "account" /\ i.pc \notin {"wait", "next"}}}
    BY <1>7 DEF CrashStatistics
  <2>1. /\ UNCHANGED <<today, dayTxs, perDay, ended>>
        /\ \A j \in statChain : j.kind = "account" => j.pc \in {"wait", "next"}
    <3>1. ASSUME NEW j \in statChain, j.kind = "account", j.pc \notin {"wait", "next"}
          PROVE  j.of \in mixed'
      BY <2>0, <3>1
    <3> QED
      BY <1>0, <2>0, <3>1
  <2> DEFINE again(j) == IF j.pc = "wait" THEN j ELSE [j EXCEPT !.pc = "wait", !.seen = {}, !.run = statCrashes + 1]
  <2>2. statChain' = {again(j) : j \in statChain}
    BY <1>7 DEF CrashStatistics
  <2>3. ASSUME NEW i \in LiveJobs'
        PROVE  i.pc = "wait" /\ \E j \in LiveJobs : i = again(j)
    <3>1. i \in statChain' /\ i.kind = "account"
      BY DEF LiveJobs
    <3>2. PICK j \in statChain : i.pc = "wait" /\ i.kind = j.kind /\ i = again(j)
      BY <1>7, <3>1, CrashStatLemma
    <3>3. j \in LiveJobs
      BY <2>1, <3>1, <3>2 DEF LiveJobs
    <3> QED
      BY <3>2, <3>3
  <2>4. ASSUME NEW j \in LiveJobs PROVE LiveJobs' # {}
    <3>1. j \in statChain /\ j \in DayJob /\ j.kind = "account"
      BY DEF LiveJobs, StatTypes
    <3>2. again(j) \in statChain'
      BY <2>2, <3>1
    <3>3. again(j).kind = "account" /\ again(j).pc = "wait"
      BY <3>1 DEF DayJob
    <3> QED
      BY <3>2, <3>3 DEF LiveJobs
  <2> HIDE DEF again
  <2>5. \A i, j \in LiveJobs' : i = j
    BY <1>1, <2>3
  <2>6. ASSUME NEW i \in LiveJobs', NEW a \in Accounts PROVE GoesOn(i, a)'
    <3>1. PICK j \in LiveJobs : j.pc \in {"wait", "next"} /\ GoesOn(j, a)
      BY <1>1, <2>1, <2>3 DEF LiveJobs
    <3>2. Until(perDay[a], today - 1, SentOn(a))
      BY <3>1 DEF GoesOn
    <3>3. Until(perDay'[a], today' - 1, SentOn(a)')
      BY <1>3, <2>1, <3>2
    <3> QED
      BY <2>3, <3>3 DEF GoesOn, Until
  <2>7. ASSUME LiveJobs' = {}
        PROVE  /\ \A a \in Accounts : Until(perDay'[a], today', SentOn(a)')
               /\ today' > 0 => today' - 1 \in ended'
    BY <1>1, <1>3, <2>1, <2>4, <2>7
  <2> QED
    BY <2>5, <2>6, <2>7
<1>8. ASSUME NEW j \in statChain, ReadPage(j)
      PROVE  New
  <2>1. /\ UNCHANGED <<today, dayTxs, perDay>> /\ j.pc = "wait"
        /\ read' = IF Page(j) = {} /\ j.kind = "account" THEN perDay ELSE read
    BY <1>8 DEF ReadPage
  <2>2. PICK new \in DayJob :
            /\ statChain' = (statChain \ {j}) \union {new}
            /\ new.pc = (IF Page(j) = {} THEN "end" ELSE "next")
            /\ new.seen = IF Page(j) # {} THEN Page(j) ELSE IF j.kind = "account" THEN Accounts ELSE {}
            /\ new.kind = j.kind
    BY <1>8, ReadPageLemma
  <2>3. CASE j.kind = "account"
    <3>1. j \in LiveJobs /\ LiveJobs' = {new}
      <4>1. j \in LiveJobs /\ LiveJobs \ {j} = {}
        BY <1>1, <2>1, <2>3 DEF LiveJobs
      <4>2. LiveJobs' = (LiveJobs \ {j}) \union {new}
        BY <2>2, <2>3, LiveJobsLemma
      <4> QED
        BY <4>1, <4>2
    <3>2. ASSUME NEW a \in Accounts PROVE GoesOn(new, a)'
      <4>1. Until(perDay[a], today - 1, SentOn(a))
        BY <1>1, <2>1, <3>1 DEF GoesOn
      <4>2. Until(perDay'[a], today' - 1, SentOn(a)')
        BY <1>3, <2>1, <4>1
      <4>3. new.pc = "end" => read' = perDay' /\ a \in new.seen
        BY <2>1, <2>2, <2>3
      <4>4. (new.pc = "end" => Until(read'[a], today' - 1, SentOn(a)')) /\ ~(new.pc = "end" /\ a \notin new.seen)
        BY <4>2, <4>3
      <4> QED
        BY <4>2, <4>4 DEF GoesOn, Until
    <3> QED
      BY <3>1, <3>2
  <2>4. CASE j.kind # "account"
    <3>1. LiveJobs' = LiveJobs
      BY <2>2, <2>4 DEF LiveJobs
    <3> QED
      BY <1>4, <2>1, <2>4, <3>1
  <2> QED
    BY <2>3, <2>4
<1>9. ASSUME NEW j \in statChain, CreateNextPage(j)
      PROVE  New
  <2>1. UNCHANGED <<today, dayTxs, perDay, read>>
    BY <1>9 DEF CreateNextPage
  <2>2. PICK old \in DayJob, new \in DayJob :
            /\ statChain' = (statChain \ {j}) \union {old, new}
            /\ j.pc = "next" /\ old.pc = "created" /\ new.pc = "wait" /\ new.kind = j.kind
    BY <1>9, CreateNextLemma
  <2>3. CASE j.kind = "account"
    <3>1. j \in LiveJobs
      BY <2>2, <2>3 DEF LiveJobs
    <3>2. LiveJobs' = {new}
      <4>1. LiveJobs \ {j} = {}
        BY <1>1, <3>1
      <4>2. LiveJobs' = (LiveJobs \ {j}) \union {new}
        BY <2>2, <2>3 DEF LiveJobs
      <4> QED
        BY <4>1, <4>2
    <3>3. ASSUME NEW a \in Accounts PROVE GoesOn(new, a)'
      <4>1. Until(perDay[a], today - 1, SentOn(a))
        BY <1>1, <2>2, <3>1 DEF GoesOn
      <4>2. Until(perDay'[a], today' - 1, SentOn(a)')
        BY <1>3, <2>1, <4>1
      <4> QED
        BY <2>2, <4>2 DEF GoesOn, Until
    <3> QED
      BY <3>2, <3>3
  <2>4. CASE j.kind # "account"
    <3>1. LiveJobs' = LiveJobs
      BY <2>2, <2>4 DEF LiveJobs
    <3> QED
      BY <1>4, <2>1, <3>1
  <2> QED
    BY <2>3, <2>4
<1>10. ASSUME NEW j \in statChain, InsertDay(j)
       PROVE  New
  <2>1. UNCHANGED <<today, dayTxs, perDay, read>>
    BY <1>10 DEF InsertDay
  <2>2. LiveJobs' = LiveJobs
    <3>1. PICK new \in DayJob :
              statChain' = (statChain \ {j}) \union {new} /\ j.kind = "tx" /\ new.kind = j.kind
      BY <1>10, InsertDayLemma
    <3>2. "tx" # "account"
      OBVIOUS
    <3> QED
      BY <3>1, <3>2 DEF LiveJobs
  <2> QED
    BY <1>4, <2>1, <2>2
<1>11. ASSUME NEW j \in statChain, EndChain(j)
       PROVE  New
  <2>1. UNCHANGED <<today, dayTxs, perDay, read>> /\ j.pc \in {"created", "done"} /\ statChain' = statChain \ {j}
    BY <1>11 DEF EndChain
  <2>2. LiveJobs' = LiveJobs
    BY <2>1 DEF LiveJobs
  <2> QED
    BY <1>4, <2>1, <2>2
<1>12. ASSUME NEW j \in statChain, NEW a \in Accounts, WriteAccount(j, a)
       PROVE  New
  <2>1. UNCHANGED <<today, dayTxs, read, ended>>
    BY <1>12 DEF WriteAccount
  <2>2. PICK new \in DayJob :
            /\ statChain' = (statChain \ {j}) \union {new}
            /\ j.pc = "end" /\ j.kind = "account" /\ a \in j.seen
            /\ new.pc = (IF j.seen = {a} THEN "done" ELSE "end") /\ new.seen = j.seen \ {a}
            /\ new.kind = j.kind
    BY <1>12, WriteAccountLemma
  <2>3. /\ j \in LiveJobs /\ j.of = today - 1 /\ today - 1 \in Nat /\ today - 1 \in ended
        /\ \A b \in Accounts : GoesOn(j, b) /\ j.sums[b] = SentOn(b)[today - 1]
    <3>1. j \in LiveJobs
      BY <2>2 DEF LiveJobs
    <3>2. /\ j.of = today - 1 /\ j.of \in ended /\ j.of \in Nat
          /\ \A b \in Accounts : j.sums[b] = StatTxsOf(b, j.of)
      BY <1>0, <2>2, SentLemma
    <3> QED
      BY <1>1, <3>1, <3>2 DEF SentOn
  <2>4. \A b \in Accounts : SentOn(b)' = SentOn(b) /\ SentOn(b) \in [Nat -> Nat]
    <3>1. ASSUME NEW b \in Accounts, NEW x PROVE StatTxsOf(b, x) \in Nat
      <4>1. {i \in DOMAIN dayTxs : dayTxs[i].day = x /\ dayTxs[i].from = b} \in SUBSET (1 .. Len(dayTxs))
        BY DEF StatTypes
      <4>2. IsFiniteSet(1 .. Len(dayTxs))
        BY FS_Interval DEF StatTypes
      <4> QED
        BY <4>1, <4>2, FS_Subset, FS_CardinalityType DEF StatTxsOf
    <3> QED
      BY <1>3, <2>1, <3>1 DEF SentOn
  <2>5. Until(perDay'[a], today, SentOn(a))
    <3> DEFINE t == today - 1
               e == [day |-> t, sum |-> SentOn(a)[t]]
    <3>1. /\ perDay'[a] = IF read[a] = <<>> THEN IF SentOn(a)[t] = 0 THEN <<>> ELSE <<e>> ELSE PushDay(read[a], e)
          /\ Until(read[a], t, SentOn(a))
      BY <1>12, <2>2, <2>3, DayWrittenLemma DEF GoesOn
    <3>2. t \in Nat /\ t + 1 = today /\ SentOn(a) \in [Nat -> Nat] /\ read[a] \in Seq(DayEntry) /\ Len(read[a]) <= Window
      <4>1. t \in Nat /\ t + 1 = today
        BY <1>0, <2>3
      <4>2. Len(read[a]) <= Window
        BY DEF StatTypes
      <4> QED
        BY <1>0, <2>4, <4>1, <4>2
    <3> HIDE DEF t, New
    <3>3. CASE read[a] # <<>>
      BY <3>1, <3>2, <3>3, PushUpToLemma
    <3>4. CASE read[a] = <<>>
      <4>1. /\ SentOn(a)[t] = 0 => Until(<<>>, t + 1, SentOn(a))
            /\ Until(<<e>>, t + 1, SentOn(a))
        BY <3>1, <3>2, <3>4, FirstUpToLemma
      <4> QED
        BY <3>1, <3>2, <3>4, <4>1
    <3> QED
      BY <3>3, <3>4
  <2>6. ASSUME NEW b \in Accounts
        PROVE  Until(perDay'[b], IF b \in new.seen THEN today - 1 ELSE today, SentOn(b))
    <3>1. CASE b = a
      BY <2>2, <2>5, <3>1
    <3>2. CASE b # a
      <4>1. perDay'[b] = perDay[b] /\ (b \in new.seen <=> b \in j.seen)
        BY <1>12, <2>2, <3>2, DayWrittenLemma
      <4>2. Until(perDay[b], IF b \in j.seen THEN today - 1 ELSE today, SentOn(b))
        BY <2>2, <2>3 DEF GoesOn
      <4> QED
        BY <4>1, <4>2
    <3> QED
      BY <3>1, <3>2
  <2>7. LiveJobs \ {j} = {}
    BY <1>1, <2>3
  <2>8. CASE j.seen = {a}
    <3>1. LiveJobs' = {}
      BY <2>2, <2>7, <2>8, LiveJobsLemma
    <3>2. \A b \in Accounts : b \notin new.seen
      BY <2>2, <2>8
    <3>3. \A b \in Accounts : Until(perDay'[b], today', SentOn(b)')
      BY <2>1, <2>4, <2>6, <3>2
    <3> QED
      BY <1>0, <2>1, <2>3, <3>1, <3>3
  <2>9. CASE j.seen # {a}
    <3>1. LiveJobs' = {new} /\ new.pc = "end"
      BY <2>2, <2>7, <2>9, LiveJobsLemma
    <3>2. ASSUME NEW b \in Accounts PROVE GoesOn(new, b)'
      <4>1. Until(read'[b], today' - 1, SentOn(b)')
        BY <2>1, <2>2, <2>3, <2>4 DEF GoesOn
      <4>2. Until(perDay'[b], IF b \notin new.seen THEN today' ELSE today' - 1, SentOn(b)')
        BY <2>1, <2>4, <2>6
      <4> QED
        BY <3>1, <4>1, <4>2 DEF GoesOn, Until
    <3> QED
      BY <3>1, <3>2
  <2> QED
    BY <2>8, <2>9
<1>13. CASE UNCHANGED statVars
  <2>1. UNCHANGED <<dayTxs, today, perDay, read>> /\ LiveJobs' = LiveJobs
    BY <1>13 DEF statVars, LiveJobs
  <2> QED
    BY <1>4, <2>1
<1> HIDE DEF New
<1> QED
  BY <1>5, <1>6, <1>7, <1>8, <1>9, <1>10, <1>11, <1>12, <1>13, StatStepLemma

\* crawl-daily-tx.service.ts:39-167 and crawl-account-stats.service.ts:77-512, for any number of accounts,
\* transactions, days, deaths and page and window sizes: the record of a day has each of its transactions
\* once, over all pages and runs, and an account has an entry for each of the last days, in order, with
\* what it sent; but for the days whose chain went on after midnight, or ran again at its end.
THEOREM StatisticsAreOfDays == StatSpec => []StatisticsByDay
<1>1. ASSUME StatInv, [StatNext]_statVars PROVE StatInv'
  BY <1>1, StatTypesStep, OnItsDayStep, SumsStep, RecordsStep, EntriesStep DEF StatInv
<1>2. ASSUME StatInv PROVE StatisticsByDay
  <2>1. StatTypeOK
    <3>1. ASSUME NEW j \in statChain PROVE j.after \in 0 .. Len(dayTxs)
      BY <1>2 DEF StatInv, StatTypes, DayJob
    <3> QED
      BY <1>2, <3>1 DEF StatInv, StatTypes, StatTypeOK
  <2>2. RecordIsOfDay
    BY <1>2 DEF StatInv, RecordsAreRight, RecordIsOfDay, DayRecordOf
  <2>3. EntriesAreOfDays
    <3> SUFFICES ASSUME Undisturbed, \A j \in statChain : j.kind # "account", NEW a \in Accounts
                 PROVE  LET n == Len(perDay[a])
                        IN /\ \A i \in 1 .. n : perDay[a][i] = [day |-> today - 1 - n + i,
                                                                sum |-> StatTxsOf(a, today - 1 - n + i)]
                           /\ n < Window => \A d \in 0 .. (today - 1) : StatTxsOf(a, d) > 0 => d >= today - n
      BY DEF EntriesAreOfDays, Undisturbed
    <3>1. LiveJobs = {}
      BY DEF LiveJobs
    <3>2. Until(perDay[a], today, SentOn(a)) /\ perDay[a] \in Seq(DayEntry) /\ today \in Nat
      BY <1>2, <3>1 DEF StatInv, EntriesGoOn, StatTypes
    <3>3. ASSUME NEW i \in 1 .. Len(perDay[a])
          PROVE  perDay[a][i] = [day |-> today - 1 - Len(perDay[a]) + i,
                                 sum |-> StatTxsOf(a, today - 1 - Len(perDay[a]) + i)]
      <4> DEFINE d == today - 1 - Len(perDay[a]) + i
      <4>0. perDay[a][i] \in DayEntry
        BY <3>2
      <4>1. perDay[a][i] = [day |-> d, sum |-> SentOn(a)[d]] /\ perDay[a][i] \in DayEntry
        <5>1. \A k \in 1 .. Len(perDay[a]) :
                 perDay[a][k] = [day |-> today - 1 - Len(perDay[a]) + k, sum |-> SentOn(a)[today - 1 - Len(perDay[a]) + k]]
          BY <3>2 DEF Until
        <5> QED
          BY <4>0, <5>1
      <4> HIDE DEF d
      <4>2. d \in Nat
        BY <4>1 DEF DayEntry
      <4> QED
        BY <4>1, <4>2 DEF SentOn, d
    <3>4. ASSUME Len(perDay[a]) < Window, NEW d \in 0 .. (today - 1), StatTxsOf(a, d) > 0
          PROVE  d >= today - Len(perDay[a])
      <4>1. SentOn(a)[d] = StatTxsOf(a, d)
        BY DEF SentOn
      <4> QED
        BY <3>2, <3>4, <4>1 DEF Until
    <3> QED
      BY <3>3, <3>4
  <2> QED
    BY <2>1, <2>2, <2>3 DEF StatisticsByDay
<1> QED
  BY InitStatInv, <1>1, <1>2, PTL DEF StatSpec

-----------------------------------------------------------------------------
(* Claimed rewards: sums of lists, what the jobs paid, and the memories of the workers. *)
\* The sums of a list of numbers go on by its elements.
LEMMA SumsLemma ==
    ASSUME NEW s \in Seq(Nat)
    PROVE  /\ SumsOf(s) \in [0 .. Len(s) -> Nat]
           /\ SumsOf(s)[0] = 0
           /\ \A i \in 1 .. Len(s) : SumsOf(s)[i] = SumsOf(s)[i - 1] + s[i]
           /\ Sum(s) = SumsOf(s)[Len(s)]
           /\ Sum(s) \in Nat
<1> DEFINE n == Len(s)
           f == CHOOSE g : g = [i \in 0 .. Len(s) |-> IF i = 0 THEN 0 ELSE g[i - 1] + s[i]]
           G == [p \in (1 .. n) \X Nat |-> p[2] + s[p[1]]]
<1>1. SumsOf(s) = f
  BY DEF SumsOf
<1>2. n \in Nat /\ \A i \in 1 .. n : s[i] \in Nat
  OBVIOUS
<1>3. \A i \in 1 .. n, v \in Nat : G[<<i, v>>] = v + s[i]
  OBVIOUS
<1> HIDE DEF G, n
<1>4. ASSUME NEW i \in 1 .. n, NEW v \in Nat PROVE G[<<i, v>>] \in Nat
  <2>1. s[i] \in Nat /\ G[<<i, v>>] = v + s[i]
    BY <1>2, <1>3
  <2>2. \A c \in Nat : v + c \in Nat
    OBVIOUS
  <2> QED
    BY <2>1, <2>2
<1>5. PICK h \in [0 .. n -> Nat] : h[0] = 0 /\ \A i \in 1 .. n : h[i] = G[<<i, h[i - 1]>>]
  <2>1. StepsOf(Nat, n, 0, G) # {}
    BY <1>2, <1>4, StepsLemma
  <2> QED
    BY <2>1 DEF StepsOf
<1>6. ASSUME NEW i \in 1 .. n PROVE h[i - 1] \in Nat /\ h[i] = h[i - 1] + s[i]
  <2>1. i - 1 \in 0 .. n
    BY <1>2
  <2> QED
    BY <1>3, <1>5, <2>1
<1>7. h = [i \in 0 .. Len(s) |-> IF i = 0 THEN 0 ELSE h[i - 1] + s[i]]
  <2>1. h = [i \in 0 .. n |-> h[i]] /\ n = Len(s)
    BY <1>5 DEF n
  <2>2. \A i \in 0 .. n : i = 0 \/ i \in 1 .. n
    BY <1>2
  <2> QED
    BY <1>5, <1>6, <2>1, <2>2
<1>8. f = [i \in 0 .. Len(s) |-> IF i = 0 THEN 0 ELSE f[i - 1] + s[i]]
  BY <1>7
<1> HIDE DEF f
<1>9. n = Len(s)
  BY DEF n
<1>10. f[0] = 0 /\ \A i \in 1 .. n : f[i] = f[i - 1] + s[i]
  <2>1. \A i \in 1 .. n : i \in 0 .. n /\ i # 0
    BY <1>2
  <2>2. 0 \in 0 .. n
    BY <1>2
  <2> QED
    BY <1>8, <1>9, <2>1, <2>2
<1> DEFINE S == {i \in 0 .. n : f[i] \in Nat}
<1>11. 0 .. n \subseteq S
  <2>1. 0 \in S
    BY <1>2, <1>10
  <2>2. ASSUME NEW i \in 1 .. n, i - 1 \in S PROVE i \in S
    <3>1. f[i - 1] \in Nat /\ i \in 0 .. n
      BY <1>2, <2>2
    <3>2. s[i] \in Nat /\ f[i] = f[i - 1] + s[i]
      BY <1>2, <1>10
    <3>3. \A a, b \in Nat : a + b \in Nat
      OBVIOUS
    <3>4. f[i] \in Nat
      BY <3>1, <3>2, <3>3
    <3> QED
      BY <3>1, <3>4
  <2> HIDE DEF S
  <2> QED
    BY <1>2, <2>1, <2>2, SweepLemma
<1>12. f \in [0 .. n -> Nat]
  <2>1. f = [i \in 0 .. n |-> f[i]]
    BY <1>8, <1>9
  <2> QED
    BY <1>11, <2>1
<1>13. f[n] \in Nat
  BY <1>2, <1>12
<1> QED
  BY <1>1, <1>9, <1>10, <1>12, <1>13 DEF Sum

\* So two lists that agree have the same sums, and smaller numbers have a smaller sum.
LEMMA SumsAgree ==
    ASSUME NEW s \in Seq(Nat), NEW t \in Seq(Nat), NEW n \in Nat, n <= Len(s), n <= Len(t),
           \A i \in 1 .. n : s[i] = t[i]
    PROVE  \A i \in 0 .. n : SumsOf(s)[i] = SumsOf(t)[i]
<1> DEFINE f == SumsOf(s)
           g == SumsOf(t)
           S == {i \in 0 .. n : f[i] = g[i]}
<1>1. f[0] = 0 /\ g[0] = 0
  BY SumsLemma
<1>2. ASSUME NEW i \in 1 .. n PROVE f[i] = f[i - 1] + s[i] /\ g[i] = g[i - 1] + t[i]
  <2>1. Len(s) \in Nat /\ Len(t) \in Nat
    OBVIOUS
  <2>2. i \in 1 .. Len(s) /\ i \in 1 .. Len(t)
    BY <2>1
  <2> QED
    BY <2>2, SumsLemma
<1> HIDE DEF f, g
<1>3. 0 \in S
  BY <1>1
<1>4. ASSUME NEW i \in 1 .. n, i - 1 \in S PROVE i \in S
  <2>1. f[i - 1] = g[i - 1] /\ i \in 0 .. n
    BY <1>4
  <2> QED
    BY <1>2, <2>1
<1> HIDE DEF S
<1>5. 0 .. n \subseteq S
  BY <1>3, <1>4, SweepLemma
<1> QED
  BY <1>5 DEF S, f, g

LEMMA SumAtMost ==
    ASSUME NEW s \in Seq(Nat), NEW t \in Seq(Nat), Len(s) = Len(t),
           \A i \in 1 .. Len(s) : s[i] <= t[i]
    PROVE  Sum(s) <= Sum(t)
<1> DEFINE n == Len(s)
           f == SumsOf(s)
           g == SumsOf(t)
           S == {i \in 0 .. n : f[i] <= g[i]}
<1>1. n \in Nat /\ n = Len(t) /\ \A i \in 1 .. n : s[i] \in Nat /\ t[i] \in Nat /\ s[i] <= t[i]
  OBVIOUS
<1>2. /\ f \in [0 .. n -> Nat] /\ f[0] = 0 /\ \A i \in 1 .. n : f[i] = f[i - 1] + s[i]
      /\ g \in [0 .. n -> Nat] /\ g[0] = 0 /\ \A i \in 1 .. n : g[i] = g[i - 1] + t[i]
      /\ Sum(s) = f[n] /\ Sum(t) = g[n]
  BY SumsLemma
<1> HIDE DEF f, g, n
<1>3. 0 \in S
  BY <1>1, <1>2
<1>4. ASSUME NEW i \in 1 .. n, i - 1 \in S PROVE i \in S
  <2>1. f[i - 1] <= g[i - 1] /\ i \in 0 .. n /\ i - 1 \in 0 .. n
    BY <1>1, <1>4
  <2>2. f[i - 1] \in Nat /\ g[i - 1] \in Nat
    BY <1>2, <2>1
  <2>3. s[i] \in Nat /\ t[i] \in Nat /\ s[i] <= t[i] /\ f[i] = f[i - 1] + s[i] /\ g[i] = g[i - 1] + t[i]
    BY <1>1, <1>2
  <2>4. \A a, b, u, v \in Nat : a <= b /\ u <= v => a + u <= b + v
    OBVIOUS
  <2>5. f[i] <= g[i]
    BY <2>1, <2>2, <2>3, <2>4
  <2> QED
    BY <2>1, <2>5
<1> HIDE DEF S
<1>5. 0 .. n \subseteq S
  BY <1>1, <1>3, <1>4, SweepLemma
<1>6. n \in S
  BY <1>1, <1>5
<1> QED
  BY <1>2, <1>6 DEF S

\* Nothing sums up to nothing.
LEMMA SumOfNone ==
    ASSUME NEW s \in Seq(Nat), \A i \in 1 .. Len(s) : s[i] = 0
    PROVE  Sum(s) = 0
<1> DEFINE n == Len(s)
           f == SumsOf(s)
           S == {i \in 0 .. n : f[i] = 0}
<1>1. n \in Nat /\ \A i \in 1 .. n : s[i] = 0
  OBVIOUS
<1>2. f[0] = 0 /\ (\A i \in 1 .. n : f[i] = f[i - 1] + s[i]) /\ Sum(s) = f[n]
  BY SumsLemma
<1> HIDE DEF f, n
<1>3. 0 \in S
  BY <1>1, <1>2
<1>4. ASSUME NEW i \in 1 .. n, i - 1 \in S PROVE i \in S
  <2>1. f[i - 1] = 0 /\ i \in 0 .. n
    BY <1>1, <1>4
  <2> QED
    BY <1>1, <1>2, <2>1
<1> HIDE DEF S
<1>5. 0 .. n \subseteq S
  BY <1>1, <1>3, <1>4, SweepLemma
<1>6. n \in S
  BY <1>1, <1>5
<1> QED
  BY <1>2, <1>6 DEF S

\* One number that is larger by x makes the sum larger by x.
LEMMA SumAddAt ==
    ASSUME NEW s \in Seq(Nat), NEW t \in Seq(Nat), Len(s) = Len(t), NEW k \in 1 .. Len(s), NEW x \in Nat,
           t[k] = s[k] + x, \A i \in 1 .. Len(s) : i # k => t[i] = s[i]
    PROVE  Sum(t) = Sum(s) + x
<1> DEFINE n == Len(s)
           f == SumsOf(s)
           g == SumsOf(t)
           S == {i \in 0 .. n : g[i] = f[i] + (IF k <= i THEN x ELSE 0)}
<1>1. n \in Nat /\ n = Len(t) /\ \A i \in 1 .. n : s[i] \in Nat
  OBVIOUS
<1>2. /\ f \in [0 .. n -> Nat] /\ f[0] = 0 /\ \A i \in 1 .. n : f[i] = f[i - 1] + s[i]
      /\ g \in [0 .. n -> Nat] /\ g[0] = 0 /\ \A i \in 1 .. n : g[i] = g[i - 1] + t[i]
      /\ Sum(s) = f[n] /\ Sum(t) = g[n]
  BY SumsLemma
<1>3. k \in 1 .. n /\ t[k] = s[k] + x /\ \A i \in 1 .. n : i # k => t[i] = s[i]
  OBVIOUS
<1> HIDE DEF f, g, n
<1>4. 0 \in S
  BY <1>1, <1>2, <1>3
<1>5. ASSUME NEW i \in 1 .. n, i - 1 \in S PROVE i \in S
  <2>1. /\ i \in 0 .. n /\ i - 1 \in 0 .. n
        /\ g[i - 1] = f[i - 1] + (IF k <= i - 1 THEN x ELSE 0)
    BY <1>1, <1>5
  <2>2. f[i - 1] \in Nat /\ s[i] \in Nat /\ f[i] = f[i - 1] + s[i] /\ g[i] = g[i - 1] + t[i]
    BY <1>1, <1>2, <2>1
  <2>3. g[i] = f[i] + (IF k <= i THEN x ELSE 0)
    <3>1. CASE i = k
      <4>1. t[i] = s[i] + x /\ ~(k <= i - 1) /\ k <= i
        BY <1>3, <3>1
      <4>2. g[i] = f[i - 1] + (s[i] + x)
        BY <2>1, <2>2, <4>1
      <4>3. \A a, b, c \in Nat : a + (b + c) = (a + b) + c
        OBVIOUS
      <4> QED
        BY <2>2, <4>1, <4>2, <4>3
    <3>2. CASE i # k
      <4>1. t[i] = s[i] /\ (k <= i - 1 <=> k <= i)
        BY <1>1, <1>3, <3>2
      <4> QED
        BY <2>1, <2>2, <4>1
    <3> QED
      BY <3>1, <3>2
  <2> QED
    BY <2>1, <2>3
<1> HIDE DEF S
<1>6. 0 .. n \subseteq S
  BY <1>1, <1>4, <1>5, SweepLemma
<1>7. n \in S
  BY <1>1, <1>6
<1>8. k <= n
  BY <1>1, <1>3
<1> QED
  BY <1>2, <1>7, <1>8 DEF S

\* The sum of two lists, and of one with a number more.
LEMMA SumConcat ==
    ASSUME NEW s \in Seq(Nat), NEW u \in Seq(Nat)
    PROVE  Sum(s \o u) = Sum(s) + Sum(u)
<1> DEFINE m == Len(s)
           n == Len(u)
           w == s \o u
           f == SumsOf(s)
           g == SumsOf(u)
           h == SumsOf(w)
           S == {i \in 0 .. n : h[m + i] = f[m] + g[i]}
<1>1. /\ m \in Nat /\ n \in Nat /\ w \in Seq(Nat) /\ Len(w) = m + n
      /\ \A i \in 1 .. m : w[i] = s[i]
      /\ \A i \in 1 .. n : w[m + i] = u[i] /\ u[i] \in Nat
  OBVIOUS
<1>2. /\ f \in [0 .. m -> Nat] /\ Sum(s) = f[m]
      /\ g \in [0 .. n -> Nat] /\ g[0] = 0 /\ (\A i \in 1 .. n : g[i] = g[i - 1] + u[i]) /\ Sum(u) = g[n]
      /\ \A i \in 1 .. Len(w) : h[i] = h[i - 1] + w[i]
      /\ Sum(w) = h[Len(w)]
  BY <1>1, SumsLemma
<1>3. h[m] = f[m]
  <2>1. m <= Len(s) /\ m <= Len(w) /\ m \in 0 .. m
    BY <1>1
  <2> HIDE DEF w
  <2> QED
    BY <1>1, <2>1, SumsAgree
<1>4. f[m] \in Nat
  <2>1. m \in 0 .. m
    BY <1>1
  <2> HIDE DEF f, g, h, w, m, n
  <2> QED
    BY <1>2, <2>1
<1> HIDE DEF f, g, h, w, m, n
<1>5. 0 \in S
  BY <1>1, <1>2, <1>3, <1>4
<1>6. ASSUME NEW i \in 1 .. n, i - 1 \in S PROVE i \in S
  <2>1. /\ i \in 0 .. n /\ i - 1 \in 0 .. n /\ m + i \in 1 .. Len(w) /\ (m + i) - 1 = m + (i - 1)
        /\ h[m + (i - 1)] = f[m] + g[i - 1]
    BY <1>1, <1>6
  <2>2. h[m + i] = h[m + (i - 1)] + u[i] /\ g[i] = g[i - 1] + u[i] /\ g[i - 1] \in Nat /\ u[i] \in Nat
    BY <1>1, <1>2, <2>1
  <2>3. h[m + i] = f[m] + g[i]
    BY <1>4, <2>1, <2>2
  <2> QED
    BY <2>1, <2>3
<1> HIDE DEF S
<1>7. 0 .. n \subseteq S
  BY <1>1, <1>5, <1>6, SweepLemma
<1>8. n \in S
  BY <1>1, <1>7
<1> QED
  BY <1>1, <1>2, <1>8 DEF S, w

LEMMA SumAppend ==
    ASSUME NEW s \in Seq(Nat), NEW x \in Nat
    PROVE  Sum(Append(s, x)) = Sum(s) + x
<1>1. Append(s, x) = s \o <<x>> /\ <<x>> \in Seq(Nat) /\ Len(<<x>>) = 1 /\ <<x>>[1] = x
  OBVIOUS
<1>2. Sum(<<x>>) = x
  <2> DEFINE u == <<x>>
  <2>1. u \in Seq(Nat) /\ Len(u) = 1 /\ u[1] = x /\ 1 \in 1 .. 1 /\ 1 - 1 = 0
    BY <1>1
  <2> HIDE DEF u
  <2>2. SumsOf(u)[0] = 0 /\ SumsOf(u)[1] = SumsOf(u)[0] + u[1] /\ Sum(u) = SumsOf(u)[1]
    BY <2>1, SumsLemma
  <2> QED
    BY <2>1, <2>2 DEF u
<1> QED
  BY <1>1, <1>2, SumConcat

\* A claim with the log it reads, and what it takes for a delegator.
ClaimRec == [type : Claim, from : Delegators, rewards : Seq(Nat)]

Take(c, d) == IF c.from = d THEN Amount(c.type, c.rewards) ELSE 0

Takes(cs, d) == [i \in 1 .. Len(cs) |-> Take(cs[i], d)]

\* Amounts are numbers.
LEMMA AmountLemma == \A type, r : r \in Seq(Nat) => Amount(type, r) \in Nat
<1> SUFFICES ASSUME NEW type, NEW r \in Seq(Nat) PROVE Amount(type, r) \in Nat
  OBVIOUS
<1>1. r # <<>> => r[1] \in Nat
  OBVIOUS
<1>2. Len(r) > 1 => r[2] \in Nat
  OBVIOUS
<1> QED
  BY <1>1, <1>2 DEF Amount

\* The elements of two lists joined.
LEMMA JoinLemma ==
    \A x, y \in Seq(Nat) :
        /\ x \o y \in Seq(Nat) /\ Len(x \o y) = Len(x) + Len(y)
        /\ \A i \in 1 .. Len(x) : (x \o y)[i] = x[i]
        /\ \A i \in 1 .. Len(y) : (x \o y)[Len(x) + i] = y[i]
OBVIOUS

\* What the claims of a list take is a list of numbers, and goes on with the list.
LEMMA TakesLemma ==
    ASSUME NEW d
    PROVE  /\ \A cs \in Seq(ClaimRec) : Takes(cs, d) \in Seq(Nat) /\ Len(Takes(cs, d)) = Len(cs)
           /\ \A cs \in Seq(ClaimRec), c \in ClaimRec :
                 Take(c, d) \in Nat /\ Takes(Append(cs, c), d) = Append(Takes(cs, d), Take(c, d))
           /\ \A cs, es \in Seq(ClaimRec) : Takes(cs \o es, d) = Takes(cs, d) \o Takes(es, d)
<1>1. ASSUME NEW c \in ClaimRec PROVE Take(c, d) \in Nat
  BY AmountLemma DEF Take, ClaimRec
<1>2. ASSUME NEW cs \in Seq(ClaimRec)
      PROVE  /\ Takes(cs, d) \in Seq(Nat) /\ Len(Takes(cs, d)) = Len(cs)
             /\ \A i \in 1 .. Len(cs) : Takes(cs, d)[i] = Take(cs[i], d)
  <2> DEFINE n == Len(cs)
  <2>1. n \in Nat /\ \A i \in 1 .. n : cs[i] \in ClaimRec
    OBVIOUS
  <2> HIDE DEF n
  <2>2. [i \in 1 .. n |-> Take(cs[i], d)] \in [1 .. n -> Nat]
    BY <1>1, <2>1
  <2>3. Takes(cs, d) = [i \in 1 .. n |-> Take(cs[i], d)]
    BY DEF Takes, n
  <2>4. Takes(cs, d) \in Seq(Nat)
    BY <2>1, <2>2, <2>3, ListLemma
  <2>5. Len(Takes(cs, d)) = n
    BY <2>1, <2>2, <2>3
  <2> QED
    BY <2>3, <2>4, <2>5 DEF n
<1>3. ASSUME NEW cs \in Seq(ClaimRec), NEW c \in ClaimRec
      PROVE  Takes(Append(cs, c), d) = Append(Takes(cs, d), Take(c, d))
  <2> DEFINE n == Len(cs)
             es == Append(cs, c)
             a == Takes(es, d)
             b == Append(Takes(cs, d), Take(c, d))
  <2>1. n \in Nat /\ es \in Seq(ClaimRec) /\ Len(es) = n + 1 /\ es[n + 1] = c /\ \A i \in 1 .. n : es[i] = cs[i]
    OBVIOUS
  <2>2. b \in Seq(Nat) /\ Len(b) = n + 1 /\ b[n + 1] = Take(c, d) /\ \A i \in 1 .. n : b[i] = Take(cs[i], d)
    BY <1>1, <1>2
  <2> HIDE DEF n, es, b
  <2>3. a \in Seq(Nat) /\ Len(a) = n + 1 /\ \A i \in 1 .. n + 1 : a[i] = Take(es[i], d)
    BY <1>2, <2>1
  <2> HIDE DEF a
  <2>4. ASSUME NEW i \in 1 .. n + 1 PROVE a[i] = b[i]
    <3>1. i = n + 1 \/ i \in 1 .. n
      BY <2>1
    <3> QED
      BY <2>1, <2>2, <2>3, <3>1
  <2>5. a = b
    BY <2>1, <2>2, <2>3, <2>4, SeqEqual
  <2> QED
    BY <2>5 DEF a, b, es
<1>4. ASSUME NEW cs \in Seq(ClaimRec), NEW es \in Seq(ClaimRec)
      PROVE  Takes(cs \o es, d) = Takes(cs, d) \o Takes(es, d)
  <2> DEFINE m == Len(cs)
             n == Len(es)
             u == cs \o es
             a == Takes(u, d)
             b == Takes(cs, d) \o Takes(es, d)
  <2>1. /\ m \in Nat /\ n \in Nat /\ u \in Seq(ClaimRec) /\ Len(u) = m + n
        /\ (\A i \in 1 .. m : u[i] = cs[i]) /\ (\A i \in 1 .. n : u[m + i] = es[i])
    OBVIOUS
  <2>2. /\ b \in Seq(Nat) /\ Len(b) = m + n /\ \A i \in 1 .. m : b[i] = Take(cs[i], d)
        /\ \A i \in 1 .. n : b[m + i] = Take(es[i], d)
    <3> DEFINE x == Takes(cs, d)
               y == Takes(es, d)
    <3>1. /\ x \in Seq(Nat) /\ Len(x) = m /\ \A i \in 1 .. m : x[i] = Take(cs[i], d)
          /\ y \in Seq(Nat) /\ Len(y) = n /\ \A i \in 1 .. n : y[i] = Take(es[i], d)
      BY <1>2
    <3>2. b = x \o y
      OBVIOUS
    <3> HIDE DEF x, y, b, m, n
    <3>3. x \in Seq(Nat) /\ y \in Seq(Nat) /\ Len(x) = m /\ Len(y) = n
      BY <3>1
    <3>4. /\ x \o y \in Seq(Nat) /\ Len(x \o y) = Len(x) + Len(y)
          /\ \A i \in 1 .. Len(x) : (x \o y)[i] = x[i]
          /\ \A i \in 1 .. Len(y) : (x \o y)[Len(x) + i] = y[i]
      BY <3>3, JoinLemma, Zenon
    <3>5. Len(b) = m + n /\ b \in Seq(Nat)
      BY <3>2, <3>3, <3>4
    <3>6. \A i \in 1 .. m : b[i] = Take(cs[i], d)
      BY <3>1, <3>2, <3>3, <3>4
    <3>7. \A i \in 1 .. n : b[m + i] = Take(es[i], d)
      BY <3>1, <3>2, <3>3, <3>4
    <3> QED
      BY <3>5, <3>6, <3>7
  <2> HIDE DEF m, n, u, b
  <2>3. a \in Seq(Nat) /\ Len(a) = m + n /\ \A i \in 1 .. m + n : a[i] = Take(u[i], d)
    BY <1>2, <2>1
  <2> HIDE DEF a
  <2>4. ASSUME NEW i \in 1 .. m + n PROVE a[i] = b[i]
    <3>1. CASE i \in 1 .. m
      BY <2>1, <2>2, <2>3, <3>1
    <3>2. CASE i \notin 1 .. m
      <4> DEFINE k == i - m
      <4>1. k \in 1 .. n /\ i = m + k
        BY <2>1, <3>2
      <4> HIDE DEF k
      <4> QED
        BY <2>1, <2>2, <2>3, <4>1
    <3> QED
      BY <3>1, <3>2
  <2>5. a = b
    BY <2>1, <2>2, <2>3, <2>4, SeqEqual
  <2> QED
    BY <2>5 DEF a, b, u
<1> QED
  BY <1>1, <1>2, <1>3, <1>4

\* A transaction with as many logs as messages.
LogTx == {tx \in ClaimTx : Len(tx.rewards) = Len(tx.msgs)}

LEMMA LogTxLemma ==
    ASSUME NEW tx \in LogTx
    PROVE  /\ Len(tx.msgs) \in Nat /\ DOMAIN tx.msgs = 1 .. Len(tx.msgs)
           /\ \A i \in 1 .. Len(tx.msgs) :
                 /\ tx.msgs[i].type \in Claim \union {"other"} /\ tx.msgs[i].from \in Delegators
                 /\ tx.rewards[i] \in Seq(Nat)
<1>1. /\ tx.msgs \in Seq([type : Claim \union {"other"}, from : Delegators])
      /\ tx.rewards \in Seq(Seq(Nat)) /\ Len(tx.rewards) = Len(tx.msgs)
  BY DEF LogTx, ClaimTx
<1>2. \A i \in 1 .. Len(tx.msgs) : tx.msgs[i] \in [type : Claim \union {"other"}, from : Delegators]
  <2> DEFINE M == [type : Claim \union {"other"}, from : Delegators]
  <2>1. tx.msgs \in Seq(M)
    BY <1>1
  <2> HIDE DEF M
  <2>2. \A i \in 1 .. Len(tx.msgs) : tx.msgs[i] \in M
    BY <2>1
  <2> QED
    BY <2>2 DEF M
<1>3. \A i \in 1 .. Len(tx.rewards) : tx.rewards[i] \in Seq(Nat)
  <2> DEFINE N == Seq(Nat)
  <2>1. tx.rewards \in Seq(N)
    BY <1>1
  <2> HIDE DEF N
  <2>2. \A i \in 1 .. Len(tx.rewards) : tx.rewards[i] \in N
    BY <2>1
  <2> QED
    BY <2>2 DEF N
<1> QED
  BY <1>1, <1>2, <1>3

\* The claims of a transaction are collected message by message.
LEMMA AmongLemma ==
    ASSUME NEW tx \in LogTx
    PROVE  LET n == Len(tx.msgs)
               c == ClaimsAmong(tx)
           IN /\ c \in [0 .. n -> Seq(ClaimRec)]
              /\ c[0] = <<>>
              /\ \A i \in 1 .. n :
                    IF tx.msgs[i].type \in Claim
                    THEN /\ Len(c[i - 1]) + 1 \in 1 .. n
                         /\ [type |-> tx.msgs[i].type, from |-> tx.msgs[i].from,
                             rewards |-> tx.rewards[Len(c[i - 1]) + 1]] \in ClaimRec
                         /\ c[i] = Append(c[i - 1], [type |-> tx.msgs[i].type, from |-> tx.msgs[i].from,
                                                     rewards |-> tx.rewards[Len(c[i - 1]) + 1]])
                    ELSE c[i] = c[i - 1]
<1> DEFINE n == Len(tx.msgs)
           New(i, v) == [type |-> tx.msgs[i].type, from |-> tx.msgs[i].from, rewards |-> tx.rewards[Len(v) + 1]]
           f == CHOOSE g : g = [i \in 0 .. Len(tx.msgs) |->
                   IF i = 0 THEN <<>>
                   ELSE IF tx.msgs[i].type \in Claim
                        THEN Append(g[i - 1], [type |-> tx.msgs[i].type, from |-> tx.msgs[i].from,
                                               rewards |-> tx.rewards[Len(g[i - 1]) + 1]])
                        ELSE g[i - 1]]
           Grow(i, v) == IF tx.msgs[i].type \in Claim /\ Len(v) < n THEN Append(v, New(i, v)) ELSE v
           G == [p \in (1 .. n) \X Seq(ClaimRec) |-> Grow(p[1], p[2])]
<1>1. ClaimsAmong(tx) = f
  BY DEF ClaimsAmong
<1>2. \A i \in 1 .. n, v \in Seq(ClaimRec) : G[<<i, v>>] = Grow(i, v)
  OBVIOUS
<1>3. n \in Nat /\ \A i \in 1 .. n : tx.msgs[i].from \in Delegators /\ tx.rewards[i] \in Seq(Nat)
  BY LogTxLemma
<1>4. n = Len(tx.msgs)
  OBVIOUS
<1> HIDE DEF G, n
<1>5. ASSUME NEW i \in 1 .. n, NEW v \in Seq(ClaimRec), tx.msgs[i].type \in Claim, Len(v) < n
      PROVE  Len(v) + 1 \in 1 .. n /\ New(i, v) \in ClaimRec
  <2>1. Len(v) \in Nat
    OBVIOUS
  <2>2. Len(v) + 1 \in 1 .. n
    BY <1>3, <1>5, <2>1
  <2> QED
    BY <1>3, <1>5, <2>2 DEF ClaimRec
<1>6. ASSUME NEW i \in 1 .. n, NEW v \in Seq(ClaimRec)
      PROVE  Grow(i, v) \in Seq(ClaimRec) /\ Len(Grow(i, v)) \in {Len(v), Len(v) + 1}
  <2>1. CASE tx.msgs[i].type \in Claim /\ Len(v) < n
    <3>1. New(i, v) \in ClaimRec
      BY <1>5, <2>1
    <3> DEFINE c == New(i, v)
    <3>2. Grow(i, v) = Append(v, c) /\ c \in ClaimRec
      BY <2>1, <3>1
    <3> HIDE DEF c
    <3>3. Append(v, c) \in Seq(ClaimRec) /\ Len(Append(v, c)) = Len(v) + 1
      BY <3>2
    <3> HIDE DEF Grow
    <3> QED
      BY <3>2, <3>3
  <2>2. CASE ~(tx.msgs[i].type \in Claim /\ Len(v) < n)
    BY <2>2
  <2> QED
    BY <2>1, <2>2
<1>7. PICK h \in [0 .. n -> Seq(ClaimRec)] : h[0] = <<>> /\ \A i \in 1 .. n : h[i] = G[<<i, h[i - 1]>>]
  <2> DEFINE V == Seq(ClaimRec)
             none == <<>>
  <2>1. none \in V
    BY EmptyLemma
  <2>2. \A i \in 1 .. n, v \in V : G[<<i, v>>] \in V
    <3> HIDE DEF Grow
    <3> QED
      BY <1>2, <1>6
  <2> HIDE DEF V, none
  <2>3. StepsOf(V, n, none, G) # {}
    BY <1>3, <2>1, <2>2, StepsLemma
  <2> QED
    BY <2>3 DEF StepsOf, V, none
<1>8. ASSUME NEW i \in 1 .. n
      PROVE  h[i - 1] \in Seq(ClaimRec) /\ h[i] = Grow(i, h[i - 1]) /\ Len(h[i]) \in {Len(h[i - 1]), Len(h[i - 1]) + 1}
  <2>1. i - 1 \in 0 .. n
    BY <1>3
  <2> HIDE DEF Grow
  <2> QED
    BY <1>2, <1>6, <1>7, <2>1
<1> DEFINE S == {i \in 0 .. n : Len(h[i]) <= i}
<1>9. 0 .. n \subseteq S
  <2>1. 0 \in S
    BY <1>3, <1>7
  <2>2. ASSUME NEW i \in 1 .. n, i - 1 \in S PROVE i \in S
    <3>1. Len(h[i - 1]) <= i - 1 /\ i \in 0 .. n /\ h[i - 1] \in Seq(ClaimRec)
      BY <1>3, <1>8, <2>2
    <3>2. Len(h[i]) \in {Len(h[i - 1]), Len(h[i - 1]) + 1}
      <4> HIDE DEF Grow
      <4> QED
        BY <1>8
    <3>3. Len(h[i - 1]) \in Nat
      BY <3>1
    <3>4. Len(h[i]) <= i
      BY <3>1, <3>2, <3>3
    <3> QED
      BY <3>1, <3>4
  <2> HIDE DEF S
  <2> QED
    BY <1>3, <2>1, <2>2, SweepLemma
<1>10. ASSUME NEW i \in 1 .. n
       PROVE  /\ h[i - 1] \in Seq(ClaimRec)
              /\ IF tx.msgs[i].type \in Claim
                 THEN /\ Len(h[i - 1]) + 1 \in 1 .. n
                      /\ New(i, h[i - 1]) \in ClaimRec
                      /\ h[i] = Append(h[i - 1], New(i, h[i - 1]))
                 ELSE h[i] = h[i - 1]
  <2>1. i - 1 \in S /\ h[i - 1] \in Seq(ClaimRec) /\ h[i] = Grow(i, h[i - 1])
    <3>1. i - 1 \in 0 .. n
      BY <1>3
    <3> HIDE DEF S, Grow
    <3> QED
      BY <1>8, <1>9, <3>1
  <2>2. Len(h[i - 1]) \in Nat /\ Len(h[i - 1]) <= i - 1
    BY <2>1
  <2>3. Len(h[i - 1]) < n
    BY <1>3, <2>2
  <2>4. tx.msgs[i].type \in Claim => Len(h[i - 1]) + 1 \in 1 .. n /\ New(i, h[i - 1]) \in ClaimRec
    <3> HIDE DEF New
    <3> QED
      BY <1>5, <2>1, <2>3
  <2>5. IF tx.msgs[i].type \in Claim THEN h[i] = Append(h[i - 1], New(i, h[i - 1])) ELSE h[i] = h[i - 1]
    <3> HIDE DEF New
    <3> QED
      BY <2>1, <2>3
  <2> HIDE DEF New
  <2> QED
    BY <2>1, <2>4, <2>5
<1>11. h = [i \in 0 .. Len(tx.msgs) |->
                   IF i = 0 THEN <<>>
                   ELSE IF tx.msgs[i].type \in Claim
                        THEN Append(h[i - 1], [type |-> tx.msgs[i].type, from |-> tx.msgs[i].from,
                                               rewards |-> tx.rewards[Len(h[i - 1]) + 1]])
                        ELSE h[i - 1]]
  <2>1. h = [i \in 0 .. n |-> h[i]] /\ n = Len(tx.msgs)
    BY <1>7 DEF n
  <2>2. \A i \in 0 .. n : i = 0 \/ i \in 1 .. n
    BY <1>3
  <2>3. ASSUME NEW i \in 0 .. n
        PROVE  h[i] = IF i = 0 THEN <<>>
                      ELSE IF tx.msgs[i].type \in Claim THEN Append(h[i - 1], New(i, h[i - 1])) ELSE h[i - 1]
    <3>1. CASE i = 0
      BY <1>7, <3>1
    <3>2. CASE i # 0
      <4>1. i \in 1 .. n
        BY <2>2, <3>2
      <4> HIDE DEF New
      <4> QED
        BY <1>10, <3>2, <4>1
    <3> QED
      BY <3>1, <3>2
  <2> QED
    BY <2>1, <2>3
<1>12. f = [i \in 0 .. Len(tx.msgs) |->
                   IF i = 0 THEN <<>>
                   ELSE IF tx.msgs[i].type \in Claim
                        THEN Append(f[i - 1], [type |-> tx.msgs[i].type, from |-> tx.msgs[i].from,
                                               rewards |-> tx.rewards[Len(f[i - 1]) + 1]])
                        ELSE f[i - 1]]
  BY <1>11
<1> DEFINE Q == {i \in 0 .. n : f[i] = h[i]}
<1> HIDE DEF f
<1>13. f[0] = <<>> /\ \A i \in 1 .. n :
          f[i] = IF tx.msgs[i].type \in Claim THEN Append(f[i - 1], New(i, f[i - 1])) ELSE f[i - 1]
  <2>1. (\A i \in 1 .. n : i \in 0 .. n /\ i # 0) /\ 0 \in 0 .. n /\ n = Len(tx.msgs)
    BY <1>3 DEF n
  <2> QED
    BY <1>12, <2>1
<1>14. 0 .. n \subseteq Q
  <2>1. 0 \in Q
    BY <1>3, <1>7, <1>13
  <2>2. ASSUME NEW i \in 1 .. n, i - 1 \in Q PROVE i \in Q
    <3>1. f[i - 1] = h[i - 1] /\ i \in 0 .. n
      BY <1>3, <2>2
    <3>2. f[i] = h[i]
      <4> HIDE DEF New
      <4> QED
        BY <1>10, <1>13, <3>1
    <3> QED
      BY <3>1, <3>2
  <2> HIDE DEF Q
  <2> QED
    BY <1>3, <2>1, <2>2, SweepLemma
<1>15. f = h
  <2>1. f = [i \in 0 .. n |-> f[i]] /\ h = [i \in 0 .. n |-> h[i]]
    BY <1>7, <1>12 DEF n
  <2> QED
    BY <1>14, <2>1
<1> QED
  BY <1>1, <1>4, <1>7, <1>10, <1>15

\* Where the claims come first, what they take is what was paid.
LEMMA TxLemma ==
    ASSUME NEW tx \in LogTx, NEW d \in Delegators
    PROVE  /\ ClaimsOf(tx) \in Seq(ClaimRec)
           /\ TxPaid(tx, d) \in Nat
           /\ ClaimsFirst(tx) => Sum(Takes(ClaimsOf(tx), d)) = TxPaid(tx, d)
<1> DEFINE n == Len(tx.msgs)
           c == ClaimsAmong(tx)
           Pay(i) == IF tx.ok /\ tx.msgs[i].from = d /\ tx.msgs[i].type \in Claim
                     THEN Amount(tx.msgs[i].type, tx.rewards[i]) ELSE 0
           pays == [i \in 1 .. n |-> Pay(i)]
           p == SumsOf(pays)
           New(i, v) == [type |-> tx.msgs[i].type, from |-> tx.msgs[i].from, rewards |-> tx.rewards[Len(v) + 1]]
<1>1. n \in Nat /\ DOMAIN tx.msgs = 1 .. n /\ \A i \in 1 .. n : tx.rewards[i] \in Seq(Nat)
  BY LogTxLemma
<1>2. /\ c \in [0 .. n -> Seq(ClaimRec)] /\ c[0] = <<>>
      /\ \A i \in 1 .. n :
            IF tx.msgs[i].type \in Claim
            THEN New(i, c[i - 1]) \in ClaimRec /\ c[i] = Append(c[i - 1], New(i, c[i - 1]))
            ELSE c[i] = c[i - 1]
  BY AmongLemma
<1>3. TxPaid(tx, d) = Sum(pays) /\ ClaimsOf(tx) = IF tx.ok THEN c[n] ELSE <<>>
  BY <1>1 DEF TxPaid, ClaimsOf
<1> HIDE DEF c, n
<1>4. \A i \in 1 .. n : Pay(i) \in Nat
  BY <1>1, AmountLemma
<1>5. pays \in Seq(Nat) /\ Len(pays) = n /\ \A i \in 1 .. n : pays[i] = Pay(i)
  <2>1. pays \in [1 .. n -> Nat]
    BY <1>4
  <2>2. \A i \in 1 .. n : pays[i] = Pay(i)
    OBVIOUS
  <2> HIDE DEF pays
  <2>3. pays \in Seq(Nat) /\ Len(pays) = n
    BY <1>1, <2>1, ListLemma
  <2> QED
    BY <2>2, <2>3
<1> HIDE DEF pays, Pay
<1>6. p[0] = 0 /\ (\A i \in 1 .. n : p[i] = p[i - 1] + pays[i]) /\ Sum(pays) = p[n] /\ Sum(pays) \in Nat
  BY <1>5, SumsLemma
<1> HIDE DEF p
<1>7. n \in 0 .. n
  BY <1>1
<1>8. ClaimsOf(tx) \in Seq(ClaimRec)
  BY <1>2, <1>3, <1>7, EmptyLemma
<1>9. ASSUME ClaimsFirst(tx) PROVE Sum(Takes(ClaimsOf(tx), d)) = TxPaid(tx, d)
  <2>1. Sum(Takes(<<>>, d)) = 0
    <3>1. <<>> \in Seq(ClaimRec) /\ Len(<<>>) = 0
      BY EmptyLemma
    <3>2. Takes(<<>>, d) \in Seq(Nat) /\ Len(Takes(<<>>, d)) = 0
      BY <3>1, TakesLemma
    <3> QED
      BY <3>2, SumOfNone
  <2>2. CASE ~tx.ok
    <3>1. \A i \in 1 .. n : pays[i] = 0
      BY <1>5, <2>2 DEF Pay
    <3>2. Sum(pays) = 0
      BY <1>5, <3>1, SumOfNone
    <3> QED
      BY <1>3, <2>1, <2>2, <3>2
  <2>3. CASE tx.ok
    <3> DEFINE S == {i \in 0 .. n :
                        /\ Sum(Takes(c[i], d)) = p[i]
                        /\ (\A k \in 1 .. i : tx.msgs[k].type \in Claim) => Len(c[i]) = i}
    <3>1. 0 \in S
      BY <1>1, <1>2, <1>6, <2>1
    <3>2. ASSUME NEW i \in 1 .. n, i - 1 \in S PROVE i \in S
      <4>1. /\ i \in 0 .. n /\ i - 1 \in 0 .. n /\ c[i - 1] \in Seq(ClaimRec)
            /\ Sum(Takes(c[i - 1], d)) = p[i - 1]
            /\ (\A k \in 1 .. i - 1 : tx.msgs[k].type \in Claim) => Len(c[i - 1]) = i - 1
        <5>1. i \in 0 .. n /\ i - 1 \in 0 .. n
          BY <1>1
        <5>2. c[i - 1] \in Seq(ClaimRec)
          BY <1>2, <5>1
        <5> HIDE DEF Pay, New
        <5> QED
          BY <3>2, <5>1, <5>2
      <4>2. p[i] = p[i - 1] + pays[i] /\ pays[i] = Pay(i) /\ Pay(i) \in Nat
        BY <1>4, <1>5, <1>6
      <4>3. CASE tx.msgs[i].type \in Claim
        <5>1. \A k \in 1 .. i : tx.msgs[k].type \in Claim
          BY <1>1, <1>9, <4>3 DEF ClaimsFirst
        <5>2. \A k \in 1 .. i - 1 : k \in 1 .. i
          BY <1>1
        <5>3. Len(c[i - 1]) = i - 1
          BY <4>1, <5>1, <5>2
        <5> DEFINE e == New(i, c[i - 1])
        <5>4. e \in ClaimRec /\ c[i] = Append(c[i - 1], e)
          BY <1>2, <4>3
        <5>5. e.type = tx.msgs[i].type /\ e.from = tx.msgs[i].from /\ e.rewards = tx.rewards[i]
          BY <1>1, <5>3
        <5> HIDE DEF e
        <5>6. Take(e, d) = Pay(i)
          BY <2>3, <4>3, <5>5 DEF Take, Pay
        <5>7. /\ Takes(c[i], d) = Append(Takes(c[i - 1], d), Pay(i))
              /\ Takes(c[i - 1], d) \in Seq(Nat)
          BY <4>1, <5>4, <5>6, TakesLemma
        <5>8. Sum(Takes(c[i], d)) = p[i]
          BY <4>1, <4>2, <5>7, SumAppend
        <5>9. Len(c[i]) = i
          BY <1>1, <4>1, <5>3, <5>4
        <5> QED
          BY <4>1, <5>8, <5>9
      <4>4. CASE tx.msgs[i].type \notin Claim
        <5>1. c[i] = c[i - 1]
          <6> HIDE DEF New
          <6> QED
            BY <1>2, <4>4
        <5>2. Pay(i) = 0 /\ i \in 1 .. i
          BY <1>1, <4>4 DEF Pay
        <5>3. p[i - 1] \in Nat
          <6>1. Takes(c[i - 1], d) \in Seq(Nat)
            BY <4>1, TakesLemma
          <6> QED
            BY <4>1, <6>1, SumsLemma
        <5>4. Sum(Takes(c[i], d)) = p[i]
          BY <4>1, <4>2, <5>1, <5>2, <5>3
        <5> QED
          BY <4>1, <4>4, <5>2, <5>4
      <4> QED
        BY <4>3, <4>4
    <3> HIDE DEF S
    <3>3. 0 .. n \subseteq S
      BY <1>1, <3>1, <3>2, SweepLemma
    <3>4. n \in S
      BY <1>7, <3>3
    <3> QED
      BY <1>3, <1>6, <2>3, <3>4 DEF S
  <2> QED
    BY <2>2, <2>3
<1> QED
  BY <1>3, <1>6, <1>8, <1>9

\* The claims of a job are those of its transactions, one after the other.
LEMMA InLemma ==
    ASSUME NEW txs \in Seq(LogTx)
    PROVE  LET n == Len(txs)
               c == ClaimsIn(txs)
           IN /\ c \in [0 .. n -> Seq(ClaimRec)]
              /\ c[0] = <<>>
              /\ \A i \in 1 .. n : c[i] = c[i - 1] \o ClaimsOf(txs[i])
<1> DEFINE n == Len(txs)
           f == CHOOSE g : g = [i \in 0 .. Len(txs) |-> IF i = 0 THEN <<>> ELSE g[i - 1] \o ClaimsOf(txs[i])]
           G == [p \in (1 .. n) \X Seq(ClaimRec) |-> p[2] \o ClaimsOf(txs[p[1]])]
<1>1. ClaimsIn(txs) = f
  BY DEF ClaimsIn
<1>2. n \in Nat /\ n = Len(txs) /\ \A i \in 1 .. n : txs[i] \in LogTx
  OBVIOUS
<1>3. \A i \in 1 .. n, v \in Seq(ClaimRec) : G[<<i, v>>] = v \o ClaimsOf(txs[i])
  OBVIOUS
<1> HIDE DEF G, n
<1>4. \A i \in 1 .. n : ClaimsOf(txs[i]) \in Seq(ClaimRec)
  <2> SUFFICES ASSUME NEW i \in 1 .. n PROVE ClaimsOf(txs[i]) \in Seq(ClaimRec)
    OBVIOUS
  <2>1. txs[i] \in LogTx
    BY <1>2
  <2>2. CASE Delegators = {}
    <3> DEFINE tx == txs[i]
               c == ClaimsAmong(tx)
    <3>1. c \in [0 .. Len(tx.msgs) -> Seq(ClaimRec)] /\ Len(tx.msgs) \in Nat
      BY <2>1, AmongLemma, LogTxLemma
    <3>2. Len(tx.msgs) \in 0 .. Len(tx.msgs)
      BY <3>1
    <3> QED
      BY <3>1, <3>2, EmptyLemma DEF ClaimsOf
  <2>3. CASE Delegators # {}
    BY <2>1, <2>3, TxLemma
  <2> QED
    BY <2>2, <2>3
<1>5. PICK h \in [0 .. n -> Seq(ClaimRec)] : h[0] = <<>> /\ \A i \in 1 .. n : h[i] = G[<<i, h[i - 1]>>]
  <2> DEFINE V == Seq(ClaimRec)
             none == <<>>
  <2>1. none \in V
    BY EmptyLemma
  <2>2. \A i \in 1 .. n, v \in V : G[<<i, v>>] \in V
    BY <1>3, <1>4, ConcatProperties
  <2> HIDE DEF V, none
  <2>3. StepsOf(V, n, none, G) # {}
    BY <1>2, <2>1, <2>2, StepsLemma
  <2> QED
    BY <2>3 DEF StepsOf, V, none
<1>6. ASSUME NEW i \in 1 .. n PROVE h[i - 1] \in Seq(ClaimRec) /\ h[i] = h[i - 1] \o ClaimsOf(txs[i])
  <2>1. i - 1 \in 0 .. n
    BY <1>2
  <2> QED
    BY <1>3, <1>5, <2>1
<1>7. h = [i \in 0 .. Len(txs) |-> IF i = 0 THEN <<>> ELSE h[i - 1] \o ClaimsOf(txs[i])]
  <2>1. h = [i \in 0 .. n |-> h[i]] /\ n = Len(txs)
    BY <1>2, <1>5
  <2>2. \A i \in 0 .. n : i = 0 \/ i \in 1 .. n
    BY <1>2
  <2> QED
    BY <1>5, <1>6, <2>1, <2>2
<1>8. f = [i \in 0 .. Len(txs) |-> IF i = 0 THEN <<>> ELSE f[i - 1] \o ClaimsOf(txs[i])]
  BY <1>7
<1> HIDE DEF f
<1>9. f[0] = <<>> /\ \A i \in 1 .. n : f[i] = f[i - 1] \o ClaimsOf(txs[i])
  <2>1. (\A i \in 1 .. n : i \in 0 .. n /\ i # 0) /\ 0 \in 0 .. n
    BY <1>2
  <2> QED
    BY <1>2, <1>8, <2>1
<1> DEFINE Q == {i \in 0 .. n : f[i] = h[i]}
<1>10. 0 .. n \subseteq Q
  <2>1. 0 \in Q
    BY <1>2, <1>5, <1>9
  <2>2. ASSUME NEW i \in 1 .. n, i - 1 \in Q PROVE i \in Q
    <3>1. f[i - 1] = h[i - 1] /\ i \in 0 .. n
      BY <1>2, <2>2
    <3> QED
      BY <1>6, <1>9, <3>1
  <2> HIDE DEF Q
  <2> QED
    BY <1>2, <2>1, <2>2, SweepLemma
<1>11. f = h
  <2>1. f = [i \in 0 .. n |-> f[i]] /\ h = [i \in 0 .. n |-> h[i]]
    BY <1>2, <1>5, <1>8
  <2> QED
    BY <1>10, <2>1
<1> QED
  BY <1>1, <1>2, <1>5, <1>6, <1>11

\* The transactions of a job have their logs.
LEMMA JobTxsLemma == Jobs = 1 .. Len(ClaimTxs) /\ Len(ClaimTxs) \in Nat /\ \A j \in Jobs : ClaimTxs[j] \in Seq(LogTx)
<1> DEFINE T == Seq(ClaimTx)
<1>1. ClaimTxs \in Seq(T)
  BY ClaimsAssumption
<1> HIDE DEF T
<1>2. Jobs = 1 .. Len(ClaimTxs) /\ Len(ClaimTxs) \in Nat /\ \A j \in Jobs : ClaimTxs[j] \in T
  BY <1>1 DEF Jobs
<1>3. ASSUME NEW j \in Jobs PROVE ClaimTxs[j] \in Seq(LogTx)
  <2> DEFINE txs == ClaimTxs[j]
  <2>1. txs \in Seq(ClaimTx)
    BY <1>2 DEF T
  <2>2. \A i \in DOMAIN txs : Len(txs[i].rewards) = Len(txs[i].msgs)
    BY ClaimsAssumption
  <2> HIDE DEF txs
  <2>3. Len(txs) \in Nat /\ DOMAIN txs = 1 .. Len(txs) /\ \A i \in 1 .. Len(txs) : txs[i] \in ClaimTx
    BY <2>1
  <2>4. \A i \in 1 .. Len(txs) : txs[i] \in LogTx
    BY <2>2, <2>3 DEF LogTx
  <2>5. txs = [i \in 1 .. Len(txs) |-> txs[i]]
    BY <2>1
  <2>6. txs \in [1 .. Len(txs) -> LogTx]
    BY <2>4, <2>5
  <2>7. txs \in Seq(LogTx)
    BY <2>3, <2>6, ListLemma
  <2> QED
    BY <2>7 DEF txs
<1> QED
  BY <1>2, <1>3

\* The claims of a job are read with their logs.
LEMMA ClaimsLemma ==
    ASSUME NEW j \in Jobs
    PROVE  Claims[j] \in Seq(ClaimRec) /\ Len(Claims[j]) \in Nat /\ \A at \in 1 .. Len(Claims[j]) : Claims[j][at] \in ClaimRec
<1> DEFINE txs == ClaimTxs[j]
           n == Len(txs)
           c == ClaimsIn(txs)
           cs == Claims[j]
<1>1. txs \in Seq(LogTx)
  BY JobTxsLemma
<1>2. cs = c[n]
  BY DEF Claims
<1> HIDE DEF txs, cs
<1>3. n \in 0 .. n
  BY <1>1
<1>4. c \in [0 .. n -> Seq(ClaimRec)]
  BY <1>1, InLemma
<1> HIDE DEF c, n
<1>5. cs \in Seq(ClaimRec)
  BY <1>2, <1>3, <1>4
<1>6. Len(cs) \in Nat /\ \A at \in 1 .. Len(cs) : cs[at] \in ClaimRec
  BY <1>5
<1> QED
  BY <1>5, <1>6 DEF cs

\* What the claims of a job take for a delegator is what was paid, if every log is that of its claim.
LEMMA JobLemma ==
    ASSUME NEW j \in Jobs, NEW d \in Delegators
    PROVE  /\ Claims[j] \in Seq(ClaimRec)
           /\ Paid[j][d] \in Nat
           /\ LogsAreTheirs => Sum(Takes(Claims[j], d)) = Paid[j][d]
<1> DEFINE txs == ClaimTxs[j]
           n == Len(txs)
           c == ClaimsIn(txs)
           pays == [i \in 1 .. n |-> TxPaid(txs[i], d)]
           p == SumsOf(pays)
<1>1. txs \in Seq(LogTx)
  BY JobTxsLemma
<1>2. Claims[j] \in Seq(ClaimRec) /\ Claims[j] = c[n]
  BY ClaimsLemma DEF Claims
<1>3. Paid[j][d] = Sum([i \in DOMAIN txs |-> TxPaid(txs[i], d)])
  BY DEF Paid
<1>4. LogsAreTheirs => \A i \in DOMAIN txs : ClaimsFirst(txs[i])
  BY DEF LogsAreTheirs
<1> HIDE DEF txs
<1>5. n \in Nat /\ DOMAIN txs = 1 .. n /\ \A i \in 1 .. n : txs[i] \in LogTx
  BY <1>1
<1>6. Paid[j][d] = Sum(pays)
  BY <1>3, <1>5
<1>7. c \in [0 .. n -> Seq(ClaimRec)] /\ c[0] = <<>> /\ \A i \in 1 .. n : c[i] = c[i - 1] \o ClaimsOf(txs[i])
  BY <1>1, InLemma
<1> HIDE DEF c, n
<1>8. pays \in Seq(Nat) /\ Len(pays) = n /\ \A i \in 1 .. n : pays[i] = TxPaid(txs[i], d)
  <2>1. pays \in [1 .. n -> Nat]
    BY <1>5, TxLemma
  <2>2. \A i \in 1 .. n : pays[i] = TxPaid(txs[i], d)
    OBVIOUS
  <2> HIDE DEF pays
  <2>3. pays \in Seq(Nat) /\ Len(pays) = n
    BY <1>5, <2>1, ListLemma
  <2> QED
    BY <2>2, <2>3
<1> HIDE DEF pays
<1>9. p[0] = 0 /\ (\A i \in 1 .. n : p[i] = p[i - 1] + pays[i]) /\ Sum(pays) = p[n] /\ Sum(pays) \in Nat
  BY <1>8, SumsLemma
<1> HIDE DEF p
<1>10. n \in 0 .. n
  BY <1>5
<1>11. ASSUME LogsAreTheirs PROVE Sum(Takes(c[n], d)) = p[n]
  <2> DEFINE S == {i \in 0 .. n : Sum(Takes(c[i], d)) = p[i]}
  <2>1. 0 \in S
    <3>1. <<>> \in Seq(ClaimRec) /\ Len(<<>>) = 0
      BY EmptyLemma
    <3>2. Takes(<<>>, d) \in Seq(Nat) /\ Len(Takes(<<>>, d)) = 0
      BY <3>1, TakesLemma
    <3>3. Sum(Takes(<<>>, d)) = 0
      BY <3>2, SumOfNone
    <3> QED
      BY <1>5, <1>7, <1>9, <3>3
  <2>2. ASSUME NEW i \in 1 .. n, i - 1 \in S PROVE i \in S
    <3>1. i \in 0 .. n /\ i - 1 \in 0 .. n /\ c[i - 1] \in Seq(ClaimRec) /\ Sum(Takes(c[i - 1], d)) = p[i - 1]
      BY <1>5, <1>7, <2>2
    <3>2. ClaimsOf(txs[i]) \in Seq(ClaimRec) /\ Sum(Takes(ClaimsOf(txs[i]), d)) = pays[i]
      BY <1>4, <1>5, <1>8, <1>11, TxLemma
    <3>3. Takes(c[i], d) = Takes(c[i - 1], d) \o Takes(ClaimsOf(txs[i]), d)
      BY <1>7, <3>1, <3>2, TakesLemma
    <3>4. Takes(c[i - 1], d) \in Seq(Nat) /\ Takes(ClaimsOf(txs[i]), d) \in Seq(Nat)
      BY <3>1, <3>2, TakesLemma
    <3>5. Sum(Takes(c[i], d)) = p[i]
      BY <1>9, <3>1, <3>2, <3>3, <3>4, SumConcat
    <3> QED
      BY <3>1, <3>5
  <2> HIDE DEF S
  <2>3. 0 .. n \subseteq S
    BY <1>5, <2>1, <2>2, SweepLemma
  <2>4. n \in S
    BY <1>10, <2>3
  <2> QED
    BY <2>4 DEF S
<1> QED
  BY <1>2, <1>6, <1>7, <1>9, <1>10, <1>11

\* What the first claims of a job take for a delegator: at is the claim that is next; after the
\* last one the updates are asked for, and then awaited.
Seen(j, at, d) ==
    SumsOf(Takes(Claims[j], d))[IF at <= Len(Claims[j]) + 1 THEN at - 1 ELSE Len(Claims[j])]

LEMMA SeenLemma ==
    ASSUME NEW j \in Jobs, NEW d \in Delegators
    PROVE  /\ Len(Claims[j]) \in Nat
           /\ Seen(j, 1, d) = 0
           /\ \A at \in 1 .. Len(Claims[j]) :
                 /\ Claims[j][at] \in ClaimRec
                 /\ Seen(j, at + 1, d) = Seen(j, at, d) + Take(Claims[j][at], d)
           /\ \A at \in 1 .. Len(Claims[j]) + 2 : Seen(j, at, d) \in Nat
           /\ Seen(j, Len(Claims[j]) + 2, d) = Seen(j, Len(Claims[j]) + 1, d)
           /\ LogsAreTheirs => Seen(j, Len(Claims[j]) + 1, d) = Paid[j][d]
<1> DEFINE cs == Claims[j]
           n == Len(cs)
           s == Takes(cs, d)
           f == SumsOf(s)
<1>1. cs \in Seq(ClaimRec) /\ (LogsAreTheirs => Sum(s) = Paid[j][d])
  BY JobLemma
<1>2. \A at : Seen(j, at, d) = f[IF at <= n + 1 THEN at - 1 ELSE n]
  BY DEF Seen
<1> HIDE DEF cs
<1>3. n \in Nat /\ \A i \in 1 .. n : cs[i] \in ClaimRec
  BY <1>1
<1>4. s \in Seq(Nat) /\ Len(s) = n
  BY <1>1, TakesLemma
<1>5. \A i \in 1 .. n : s[i] = Take(cs[i], d)
  BY <1>3 DEF Takes
<1> HIDE DEF s
<1>6. f \in [0 .. n -> Nat] /\ f[0] = 0 /\ (\A i \in 1 .. n : f[i] = f[i - 1] + s[i]) /\ Sum(s) = f[n]
  BY <1>4, SumsLemma
<1> HIDE DEF f, n
<1>7. Seen(j, 1, d) = 0
  <2>1. 1 <= n + 1 /\ 1 - 1 = 0
    BY <1>3
  <2> QED
    BY <1>2, <1>6, <2>1
<1>8. ASSUME NEW at \in 1 .. n PROVE Seen(j, at + 1, d) = Seen(j, at, d) + Take(cs[at], d)
  <2>1. at <= n + 1 /\ at + 1 <= n + 1 /\ (at + 1) - 1 = at
    BY <1>3
  <2>2. Seen(j, at, d) = f[at - 1] /\ Seen(j, at + 1, d) = f[at]
    BY <1>2, <2>1
  <2> QED
    BY <1>5, <1>6, <2>2
<1>9. ASSUME NEW at \in 1 .. n + 2 PROVE Seen(j, at, d) \in Nat
  <2>1. (IF at <= n + 1 THEN at - 1 ELSE n) \in 0 .. n
    BY <1>3
  <2> QED
    BY <1>2, <1>6, <2>1
<1>10. Seen(j, n + 2, d) = f[n] /\ Seen(j, n + 1, d) = f[n]
  <2>1. ~(n + 2 <= n + 1) /\ n + 1 <= n + 1 /\ (n + 1) - 1 = n
    BY <1>3
  <2> QED
    BY <1>2, <2>1
<1> QED
  BY <1>1, <1>3, <1>6, <1>7, <1>8, <1>9, <1>10 DEF cs, n

\* What the jobs paid a delegator, each as often as a says.
Weighed(a, d) == Sum([j \in Jobs |-> a[j] * Paid[j][d]])

LEMMA TimesLemma ==
    \A a, b, p \in Nat : /\ a * p \in Nat
                         /\ a <= b => a * p <= b * p
                         /\ (a + 1) * p = a * p + p
                         /\ 0 * p = 0 /\ 1 * p = p
<1>1. \A a, p \in Nat : a * p \in Nat
  OBVIOUS
<1>2. \A a, b, p \in Nat : a <= b => a * p <= b * p
  <2> SUFFICES ASSUME NEW a \in Nat, NEW b \in Nat, NEW p \in Nat, a <= b PROVE a * p <= b * p
    OBVIOUS
  <2>1. b * p = a * p + (b - a) * p
    OBVIOUS
  <2>2. (b - a) * p >= 0
    OBVIOUS
  <2> QED
    BY <1>1, <2>1, <2>2
<1>3. \A a, p \in Nat : (a + 1) * p = a * p + p
  OBVIOUS
<1>4. \A p \in Nat : 0 * p = 0 /\ 1 * p = p
  OBVIOUS
<1> QED
  BY <1>1, <1>2, <1>3, <1>4

\* More often is more, and once more is more by what the job paid.
LEMMA WeighedLemma ==
    ASSUME NEW d \in Delegators, NEW a \in [Jobs -> Nat]
    PROVE  /\ Weighed(a, d) \in Nat
           /\ (\A j \in Jobs : a[j] = 0) => Weighed(a, d) = 0
           /\ \A b \in [Jobs -> Nat] : (\A j \in Jobs : a[j] <= b[j]) => Weighed(a, d) <= Weighed(b, d)
           /\ \A k \in Jobs, b \in [Jobs -> Nat] :
                 b[k] = a[k] + 1 /\ (\A j \in Jobs : j # k => b[j] = a[j])
                    => Weighed(b, d) = Weighed(a, d) + Paid[k][d]
<1> DEFINE n == Len(ClaimTxs)
           L(c) == [j \in Jobs |-> c[j] * Paid[j][d]]
<1>1. Jobs = 1 .. n /\ n \in Nat
  BY JobTxsLemma
<1>2. \A j \in Jobs : Paid[j][d] \in Nat
  BY JobLemma
<1> HIDE DEF n
<1>3. ASSUME NEW c \in [Jobs -> Nat]
      PROVE  L(c) \in Seq(Nat) /\ Len(L(c)) = n /\ \A j \in 1 .. n : L(c)[j] = c[j] * Paid[j][d]
  <2> DEFINE l == L(c)
  <2>1. \A j \in Jobs : l[j] = c[j] * Paid[j][d]
    OBVIOUS
  <2>2. \A j \in Jobs : c[j] * Paid[j][d] \in Nat
    BY <1>2, TimesLemma
  <2>3. l \in [1 .. n -> Nat]
    BY <1>1, <2>2
  <2> HIDE DEF l
  <2>4. l \in Seq(Nat) /\ Len(l) = n
    BY <1>1, <2>3, ListLemma
  <2> QED
    BY <1>1, <2>1, <2>4 DEF l
<1>4. \A c : Weighed(c, d) = Sum(L(c))
  BY DEF Weighed
<1> HIDE DEF L
<1>5. Weighed(a, d) \in Nat
  BY <1>3, <1>4, SumsLemma
<1>6. ASSUME \A j \in Jobs : a[j] = 0 PROVE Weighed(a, d) = 0
  <2>1. \A j \in 1 .. n : L(a)[j] = 0
    BY <1>1, <1>2, <1>3, <1>6, TimesLemma
  <2> QED
    BY <1>3, <1>4, <2>1, SumOfNone
<1>7. ASSUME NEW b \in [Jobs -> Nat], \A j \in Jobs : a[j] <= b[j] PROVE Weighed(a, d) <= Weighed(b, d)
  <2>1. ASSUME NEW j \in 1 .. n PROVE L(a)[j] <= L(b)[j]
    <3>1. j \in Jobs /\ a[j] \in Nat /\ b[j] \in Nat /\ a[j] <= b[j] /\ Paid[j][d] \in Nat
      BY <1>1, <1>2, <1>7
    <3>2. a[j] * Paid[j][d] <= b[j] * Paid[j][d]
      BY <3>1, TimesLemma
    <3> QED
      BY <1>3, <3>2
  <2> DEFINE x == L(a)
             y == L(b)
  <2>2. x \in Seq(Nat) /\ y \in Seq(Nat) /\ Len(x) = n /\ Len(y) = n /\ \A j \in 1 .. n : x[j] <= y[j]
    BY <1>3, <2>1
  <2> HIDE DEF x, y
  <2>3. Sum(x) <= Sum(y)
    BY <2>2, SumAtMost
  <2> QED
    BY <1>4, <2>3 DEF x, y
<1>8. ASSUME NEW k \in Jobs, NEW b \in [Jobs -> Nat], b[k] = a[k] + 1, \A j \in Jobs : j # k => b[j] = a[j]
      PROVE  Weighed(b, d) = Weighed(a, d) + Paid[k][d]
  <2> DEFINE x == L(a)
             y == L(b)
  <2>1. /\ x \in Seq(Nat) /\ Len(x) = n /\ \A j \in 1 .. n : x[j] = a[j] * Paid[j][d]
        /\ y \in Seq(Nat) /\ Len(y) = n /\ \A j \in 1 .. n : y[j] = b[j] * Paid[j][d]
    BY <1>3
  <2> HIDE DEF x, y
  <2>2. k \in 1 .. n /\ a[k] \in Nat /\ Paid[k][d] \in Nat
    BY <1>1, <1>2
  <2>3. y[k] = x[k] + Paid[k][d]
    <3>1. (a[k] + 1) * Paid[k][d] = a[k] * Paid[k][d] + Paid[k][d]
      BY <2>2, TimesLemma
    <3> QED
      BY <1>8, <2>1, <2>2, <3>1
  <2>4. \A j \in 1 .. n : j # k => y[j] = x[j]
    BY <1>1, <1>8, <2>1
  <2> DEFINE z == Paid[k][d]
  <2>5. /\ x \in Seq(Nat) /\ y \in Seq(Nat) /\ Len(x) = Len(y) /\ k \in 1 .. Len(x) /\ z \in Nat
        /\ y[k] = x[k] + z /\ \A j \in 1 .. Len(x) : j # k => y[j] = x[j]
    BY <2>1, <2>2, <2>3, <2>4
  <2> HIDE DEF z
  <2>6. Sum(y) = Sum(x) + z
    BY <2>5, SumAddAt
  <2> QED
    BY <1>4, <2>6 DEF x, y, z
<1> QED
  BY <1>5, <1>6, <1>7, <1>8

\* The memory of a worker: its job, the claim that is next, and the accounts found so far.
Mems == UNION {[D -> Nat] : D \in SUBSET Delegators}

Memo == [job : {{}} \union {{j} : j \in Jobs}, at : Nat, mem : Mems]

LEMMA MemLemma ==
    /\ Nobody \in Mems /\ DOMAIN Nobody = {}
    /\ \A f \in Mems : DOMAIN f \subseteq Delegators /\ \A d \in DOMAIN f : f[d] \in Nat
<1>1. ASSUME NEW D \in SUBSET Delegators, NEW f \in [D -> Nat] PROVE f \in Mems
  BY DEF Mems
<1>2. Nobody \in [{} -> Nat] /\ DOMAIN Nobody = {}
  BY DEF Nobody
<1>3. ASSUME NEW f \in Mems PROVE \E D \in SUBSET Delegators : f \in [D -> Nat]
  BY DEF Mems
<1> QED
  BY <1>1, <1>2, <1>3

LEMMA PutLemma ==
    ASSUME NEW f \in Mems, NEW d \in Delegators, NEW n \in Nat
    PROVE  /\ Put(f, d, n) \in Mems /\ DOMAIN Put(f, d, n) = DOMAIN f \union {d}
           /\ Put(f, d, n)[d] = n
           /\ \A x \in DOMAIN f : x # d => Put(f, d, n)[x] = f[x]
<1>1. PICK D \in SUBSET Delegators : f \in [D -> Nat]
  BY DEF Mems
<1>2. Put(f, d, n) \in [D \union {d} -> Nat]
  BY <1>1 DEF Put
<1>3. D \union {d} \in SUBSET Delegators
  OBVIOUS
<1>4. Put(f, d, n) \in Mems
  BY <1>2, <1>3 DEF Mems
<1> QED
  BY <1>1, <1>4 DEF Put

LEMMA MemoLemma ==
    /\ \A m \in Memo : /\ m.mem \in Mems /\ m.at \in Nat
                       /\ m.job = {} \/ \E j \in Jobs : m.job = {j}
    /\ Free \in Memo /\ Free.job = {} /\ Free.mem = Nobody
    /\ \A j \in Jobs, a \in Nat, f \in Mems :
          /\ [job |-> {j}, at |-> a, mem |-> f] \in Memo
<1>1. Free \in Memo /\ Free.job = {} /\ Free.mem = Nobody
  BY MemLemma DEF Free, Memo
<1> QED
  BY <1>1 DEF Memo

\* The updates are asked for and awaited.
AwaitedAt(j) == Len(Claims[j]) + 2

\* A job that runs is not settled, and has been begun; accounts that are not in the memory have had
\* no claim; nothing is written before the last claim.
WorkerOK(m, x, l, s) ==
    /\ m \in Memo
    /\ x \subseteq DOMAIN m.mem
    /\ m.job = {} => m = Free
    /\ \A j \in Jobs : m.job = {j} =>
          /\ m.at \in 1 .. AwaitedAt(j)
          /\ m.at < AwaitedAt(j) => x = {}
          /\ s[j] = "no" /\ l[j] < ClaimAttempts
          /\ \A d \in Delegators \ DOMAIN m.mem : Seen(j, m.at, d) = 0

CoreOK(c, l, cw, wr, s) ==
    /\ c \in [Delegators -> Nat]
    /\ l \in [Jobs -> 0 .. ClaimAttempts]
    /\ cw \in [ClaimWorkers -> Memo]
    /\ wr \in [ClaimWorkers -> SUBSET Delegators]
    /\ s \in [Jobs -> {"no", "done", "failed"}]
    /\ \A w \in ClaimWorkers : WorkerOK(cw[w], wr[w], l, s)
    /\ \A v, w \in ClaimWorkers, j \in Jobs : cw[v].job = {j} /\ cw[w].job = {j} => v = w

\* A worker whose attempt has not yet put into the sum of an account what it saw paid.
Open(m, x, j, d) == m.job = {j} /\ (m.at < AwaitedAt(j) \/ d \in x)

\* How often a job may be in the sum of an account: its attempts, but for one that is open.
Times(l, cw, wr, d) ==
    [j \in Jobs |-> (ClaimAttempts - l[j])
                        - (IF \E w \in ClaimWorkers : Open(cw[w], wr[w], j, d) THEN 1 ELSE 0)]

\* What the sums are at most, and what they become at most when the memories are written.
UpperOK(c, l, cw, wr) ==
    \A d \in Delegators :
        /\ c[d] <= Weighed(Times(l, cw, wr, d), d)
        /\ \A w \in ClaimWorkers, j \in Jobs :
              Open(cw[w], wr[w], j, d) /\ d \in DOMAIN cw[w].mem =>
                  cw[w].mem[d] <= Weighed(Times(l, cw, wr, d), d) + Seen(j, cw[w].at, d)

Done(s) == [j \in Jobs |-> IF s[j] = "done" THEN 1 ELSE 0]

\* What they are at least, with one worker.
LowerOK(c, cw, wr, s) ==
    \A d \in Delegators :
        /\ c[d] >= Weighed(Done(s), d)
        /\ \A w \in ClaimWorkers, j \in Jobs : cw[w].job = {j} =>
              /\ d \in DOMAIN cw[w].mem => cw[w].mem[d] >= Weighed(Done(s), d) + Seen(j, cw[w].at, d)
              /\ cw[w].at = AwaitedAt(j) /\ d \notin wr[w] => c[d] >= Weighed(Done(s), d) + Paid[j][d]

RewardsOK(c, l, cw, wr, s) ==
    /\ CoreOK(c, l, cw, wr, s)
    /\ LogsAreTheirs => UpperOK(c, l, cw, wr)
    /\ OneWorker /\ LogsAreTheirs => LowerOK(c, cw, wr, s)

RewardsInv == RewardsOK(claimed, left, claimWorker, writing, settled)

\* The other workers have other jobs, and these stay as they are.
Apart(cw, w, m, l, s, l2, s2) ==
    \A v \in ClaimWorkers, k \in Jobs :
        v # w /\ cw[v].job = {k} => m.job # {k} /\ s2[k] = s[k] /\ l2[k] = l[k]

\* One worker moves, and it is as it should be for the job it has; the others keep their jobs.
LEMMA CoreStep ==
    ASSUME NEW c, NEW l, NEW cw, NEW wr, NEW s, CoreOK(c, l, cw, wr, s),
           NEW w \in ClaimWorkers, NEW m, NEW x,
           NEW c2 \in [Delegators -> Nat], NEW l2 \in [Jobs -> 0 .. ClaimAttempts],
           NEW s2 \in [Jobs -> {"no", "done", "failed"}],
           WorkerOK(m, x, l2, s2),
           Apart(cw, w, m, l, s, l2, s2)
    PROVE  CoreOK(c2, l2, [cw EXCEPT ![w] = m], [wr EXCEPT ![w] = x], s2)
<1> DEFINE cw2 == [cw EXCEPT ![w] = m]
           wr2 == [wr EXCEPT ![w] = x]
<1>1. /\ cw \in [ClaimWorkers -> Memo] /\ wr \in [ClaimWorkers -> SUBSET Delegators]
      /\ (\A v \in ClaimWorkers : WorkerOK(cw[v], wr[v], l, s))
      /\ \A v, u \in ClaimWorkers, j \in Jobs : cw[v].job = {j} /\ cw[u].job = {j} => v = u
  BY DEF CoreOK
<1>2. m \in Memo /\ x \in SUBSET Delegators
  <2>1. m \in Memo /\ x \subseteq DOMAIN m.mem
    BY DEF WorkerOK
  <2> QED
    BY <2>1, MemLemma, MemoLemma
<1>3. /\ cw2 \in [ClaimWorkers -> Memo] /\ wr2 \in [ClaimWorkers -> SUBSET Delegators]
      /\ cw2[w] = m /\ wr2[w] = x /\ \A v \in ClaimWorkers : v # w => cw2[v] = cw[v] /\ wr2[v] = wr[v]
  BY <1>1, <1>2
<1> HIDE DEF cw2, wr2
<1>4. ASSUME NEW v \in ClaimWorkers PROVE WorkerOK(cw2[v], wr2[v], l2, s2)
  <2>1. CASE v = w
    BY <1>3, <2>1
  <2>2. CASE v # w
    <3>1. WorkerOK(cw[v], wr[v], l, s) /\ cw2[v] = cw[v] /\ wr2[v] = wr[v]
      BY <1>1, <1>3, <2>2
    <3>2. \A k \in Jobs : cw[v].job = {k} => s2[k] = s[k] /\ l2[k] = l[k]
      BY <2>2 DEF Apart
    <3> QED
      BY <3>1, <3>2 DEF WorkerOK
  <2> QED
    BY <2>1, <2>2
<1>5. \A v, u \in ClaimWorkers, j \in Jobs : cw2[v].job = {j} /\ cw2[u].job = {j} => v = u
  BY <1>1, <1>3 DEF Apart
<1> QED
  BY <1>3, <1>4, <1>5 DEF CoreOK, cw2, wr2

\* A job is begun before it is open, so that it is a number how often it may have been counted.
LEMMA TimesType ==
    ASSUME NEW c, NEW l, NEW cw, NEW wr, NEW s, CoreOK(c, l, cw, wr, s), NEW d
    PROVE  Times(l, cw, wr, d) \in [Jobs -> Nat]
<1>1. l \in [Jobs -> 0 .. ClaimAttempts] /\ ClaimAttempts \in Nat
  BY ClaimsAssumption DEF CoreOK
<1>2. ASSUME NEW j \in Jobs
      PROVE  (ClaimAttempts - l[j]) - (IF \E w \in ClaimWorkers : Open(cw[w], wr[w], j, d) THEN 1 ELSE 0) \in Nat
  <2>1. l[j] \in Nat /\ l[j] <= ClaimAttempts
    BY <1>1
  <2>2. ASSUME NEW w \in ClaimWorkers, Open(cw[w], wr[w], j, d) PROVE l[j] < ClaimAttempts
    BY <2>2 DEF Open, CoreOK, WorkerOK
  <2>3. CASE \E w \in ClaimWorkers : Open(cw[w], wr[w], j, d)
    BY <1>1, <2>1, <2>2, <2>3
  <2>4. CASE ~\E w \in ClaimWorkers : Open(cw[w], wr[w], j, d)
    BY <1>1, <2>1, <2>4
  <2> QED
    BY <2>3, <2>4
<1> QED
  BY <1>2 DEF Times

\* The worker that moves is open at most for what it was open for.
LEMMA TimesGrow ==
    ASSUME NEW c, NEW l, NEW cw, NEW wr, NEW s, CoreOK(c, l, cw, wr, s),
           NEW w \in ClaimWorkers, NEW m, NEW x, NEW d,
           \A k \in Jobs : Open(m, x, k, d) => Open(cw[w], wr[w], k, d)
    PROVE  \A k \in Jobs : Times(l, cw, wr, d)[k]
                              <= Times(l, [cw EXCEPT ![w] = m], [wr EXCEPT ![w] = x], d)[k]
<1> DEFINE cw2 == [cw EXCEPT ![w] = m]
           wr2 == [wr EXCEPT ![w] = x]
<1>1. cw2[w] = m /\ wr2[w] = x /\ \A v \in ClaimWorkers : v # w => cw2[v] = cw[v] /\ wr2[v] = wr[v]
  BY DEF CoreOK
<1> HIDE DEF cw2, wr2
<1>2. \A k \in Jobs : (\E v \in ClaimWorkers : Open(cw2[v], wr2[v], k, d))
                         => \E v \in ClaimWorkers : Open(cw[v], wr[v], k, d)
  BY <1>1
<1>3. \A k \in Jobs : ClaimAttempts - l[k] \in Int
  BY ClaimsAssumption DEF CoreOK
<1>4. ASSUME NEW k \in Jobs PROVE Times(l, cw, wr, d)[k] <= Times(l, cw2, wr2, d)[k]
  <2> DEFINE A == \E v \in ClaimWorkers : Open(cw[v], wr[v], k, d)
             B == \E v \in ClaimWorkers : Open(cw2[v], wr2[v], k, d)
             n == ClaimAttempts - l[k]
  <2>1. Times(l, cw, wr, d)[k] = n - (IF A THEN 1 ELSE 0) /\ Times(l, cw2, wr2, d)[k] = n - (IF B THEN 1 ELSE 0)
    BY DEF Times
  <2>2. (B => A) /\ n \in Int
    BY <1>2, <1>3
  <2> HIDE DEF A, B, n
  <2> QED
    BY <2>1, <2>2
<1> QED
  BY <1>4 DEF cw2, wr2

\* The sums stay below the attempts when these grow, and the account and the memory of the worker
\* that moves stay below them.
LEMMA UpperStep ==
    ASSUME NEW c, NEW l, NEW cw, NEW wr, NEW s, CoreOK(c, l, cw, wr, s), UpperOK(c, l, cw, wr),
           NEW w \in ClaimWorkers, NEW m, NEW x, NEW c2, NEW l2, NEW s2,
           CoreOK(c2, l2, [cw EXCEPT ![w] = m], [wr EXCEPT ![w] = x], s2),
           \A d \in Delegators, k \in Jobs :
               Times(l, cw, wr, d)[k] <= Times(l2, [cw EXCEPT ![w] = m], [wr EXCEPT ![w] = x], d)[k],
           \A d \in Delegators :
               \/ c2[d] = c[d]
               \/ c2[d] <= Weighed(Times(l2, [cw EXCEPT ![w] = m], [wr EXCEPT ![w] = x], d), d),
           \A d \in Delegators, k \in Jobs :
               Open(m, x, k, d) /\ d \in DOMAIN m.mem =>
                   m.mem[d] <= Weighed(Times(l, cw, wr, d), d) + Seen(k, m.at, d)
    PROVE  UpperOK(c2, l2, [cw EXCEPT ![w] = m], [wr EXCEPT ![w] = x])
<1> DEFINE cw2 == [cw EXCEPT ![w] = m]
           wr2 == [wr EXCEPT ![w] = x]
<1>1. cw2[w] = m /\ wr2[w] = x /\ \A v \in ClaimWorkers : v # w => cw2[v] = cw[v] /\ wr2[v] = wr[v]
  BY DEF CoreOK
<1>2. CoreOK(c2, l2, cw2, wr2, s2)
  OBVIOUS
<1> HIDE DEF cw2, wr2
<1>3. SUFFICES ASSUME NEW d \in Delegators
               PROVE  /\ c2[d] <= Weighed(Times(l2, cw2, wr2, d), d)
                      /\ \A v \in ClaimWorkers, j \in Jobs :
                            Open(cw2[v], wr2[v], j, d) /\ d \in DOMAIN cw2[v].mem =>
                                cw2[v].mem[d] <= Weighed(Times(l2, cw2, wr2, d), d) + Seen(j, cw2[v].at, d)
  BY DEF UpperOK, cw2, wr2
<1> DEFINE a == Times(l, cw, wr, d)
           b == Times(l2, cw2, wr2, d)
           p == Weighed(a, d)
           q == Weighed(b, d)
<1>4. a \in [Jobs -> Nat] /\ b \in [Jobs -> Nat]
  BY <1>2, TimesType
<1>5. \A k \in Jobs : a[k] <= b[k]
  BY DEF cw2, wr2
<1> HIDE DEF a, b
<1>6. p \in Nat /\ q \in Nat /\ p <= q
  BY <1>4, <1>5, WeighedLemma
<1>7. c[d] <= p /\ c[d] \in Nat /\ c2[d] \in Nat
  BY <1>2 DEF CoreOK, UpperOK, a
<1>8. c2[d] = c[d] \/ c2[d] <= q
  BY DEF cw2, wr2, b
<1>9. c2[d] <= q
  <2> HIDE DEF p, q
  <2> QED
    BY <1>6, <1>7, <1>8
<1>10. ASSUME NEW v \in ClaimWorkers, NEW j \in Jobs, Open(cw2[v], wr2[v], j, d), d \in DOMAIN cw2[v].mem
       PROVE  cw2[v].mem[d] <= q + Seen(j, cw2[v].at, d)
  <2>1. cw2[v].mem[d] <= p + Seen(j, cw2[v].at, d)
    <3>1. CASE v = w
      BY <1>1, <1>10, <3>1 DEF a
    <3>2. CASE v # w
      <4>1. cw2[v] = cw[v] /\ wr2[v] = wr[v]
        BY <1>1, <3>2
      <4>2. Open(cw[v], wr[v], j, d) /\ d \in DOMAIN cw[v].mem
        BY <1>10, <4>1
      <4>3. cw[v].mem[d] <= p + Seen(j, cw[v].at, d)
        BY <4>2 DEF UpperOK, a
      <4> QED
        BY <4>1, <4>3
    <3> QED
      BY <3>1, <3>2
  <2>2. cw2[v].mem[d] \in Nat
    <3>1. cw2[v] \in Memo
      BY <1>2 DEF CoreOK
    <3> QED
      BY <1>10, <3>1, MemLemma, MemoLemma
  <2>3. Seen(j, cw2[v].at, d) \in Nat
    <3>1. WorkerOK(cw2[v], wr2[v], l2, s2) /\ cw2[v].job = {j}
      BY <1>2, <1>10 DEF CoreOK, Open
    <3>2. cw2[v].at \in 1 .. Len(Claims[j]) + 2
      BY <3>1 DEF WorkerOK, AwaitedAt
    <3> QED
      BY <3>2, SeenLemma
  <2> DEFINE y == cw2[v].mem[d]
             z == Seen(j, cw2[v].at, d)
  <2> HIDE DEF y, z, p, q
  <2>4. y \in Nat /\ z \in Nat /\ y <= p + z
    BY <2>1, <2>2, <2>3 DEF y, z
  <2>5. y <= q + z
    BY <1>6, <2>4
  <2> QED
    BY <2>5 DEF y, z
<1> QED
  BY <1>9, <1>10 DEF b

\* With one worker only what it does matters.
LEMMA LowerStep ==
    ASSUME OneWorker, NEW w \in ClaimWorkers, NEW cw, NEW wr, NEW m, NEW x, NEW c2, NEW s2,
           DOMAIN cw = ClaimWorkers, DOMAIN wr = ClaimWorkers,
           \A d \in Delegators : c2[d] >= Weighed(Done(s2), d),
           \A d \in Delegators, j \in Jobs : m.job = {j} =>
              /\ d \in DOMAIN m.mem => m.mem[d] >= Weighed(Done(s2), d) + Seen(j, m.at, d)
              /\ m.at = AwaitedAt(j) /\ d \notin x => c2[d] >= Weighed(Done(s2), d) + Paid[j][d]
    PROVE  LowerOK(c2, [cw EXCEPT ![w] = m], [wr EXCEPT ![w] = x], s2)
<1> DEFINE cw2 == [cw EXCEPT ![w] = m]
           wr2 == [wr EXCEPT ![w] = x]
<1>1. \A v \in ClaimWorkers : cw2[v] = m /\ wr2[v] = x
  BY DEF OneWorker
<1> HIDE DEF cw2, wr2
<1>2. LowerOK(c2, cw2, wr2, s2)
  BY <1>1 DEF LowerOK
<1> QED
  BY <1>2 DEF cw2, wr2

LEMMA DoneLemma ==
    ASSUME NEW s, NEW d \in Delegators
    PROVE  Done(s) \in [Jobs -> Nat] /\ Weighed(Done(s), d) \in Nat
<1>1. Done(s) \in [Jobs -> Nat]
  BY DEF Done
<1> QED
  BY <1>1, WeighedLemma

\* A job starts: its attempt is counted, and open.
LEMMA StartStep ==
    ASSUME NEW c, NEW l, NEW cw, NEW wr, NEW s, RewardsOK(c, l, cw, wr, s),
           NEW w \in ClaimWorkers, NEW j \in Jobs,
           cw[w].job = {}, s[j] = "no", l[j] > 0, \A v \in ClaimWorkers : cw[v].job # {j}
    PROVE  RewardsOK(c, [l EXCEPT ![j] = @ - 1],
                     [cw EXCEPT ![w] = [job |-> {j}, at |-> 1, mem |-> Nobody]], wr, s)
<1> DEFINE m == [job |-> {j}, at |-> 1, mem |-> Nobody]
           l2 == [l EXCEPT ![j] = @ - 1]
           cw2 == [cw EXCEPT ![w] = m]
           wr2 == [wr EXCEPT ![w] = {}]
<1>1. CoreOK(c, l, cw, wr, s)
  BY DEF RewardsOK
<1>2. /\ c \in [Delegators -> Nat] /\ l \in [Jobs -> 0 .. ClaimAttempts]
      /\ cw \in [ClaimWorkers -> Memo] /\ wr \in [ClaimWorkers -> SUBSET Delegators]
      /\ s \in [Jobs -> {"no", "done", "failed"}] /\ ClaimAttempts \in Nat
  BY <1>1, ClaimsAssumption DEF CoreOK
<1>3. wr2 = wr
  <2>1. WorkerOK(cw[w], wr[w], l, s)
    BY <1>1 DEF CoreOK
  <2>2. wr[w] \subseteq DOMAIN Nobody
    BY <2>1, MemoLemma DEF WorkerOK
  <2>3. wr[w] = {}
    BY <2>2, MemLemma
  <2> QED
    BY <1>2, <2>3
<1>4. m \in Memo /\ m.job = {j} /\ m.at = 1 /\ m.mem = Nobody
  BY MemLemma, MemoLemma
<1>5. l2 \in [Jobs -> 0 .. ClaimAttempts] /\ l2[j] = l[j] - 1 /\ \A k \in Jobs : k # j => l2[k] = l[k]
  BY <1>2
<1> HIDE DEF m, l2, cw2, wr2
<1>6. 1 \in 1 .. AwaitedAt(j) /\ 1 < AwaitedAt(j) /\ AwaitedAt(j) \in Nat
  BY ClaimsLemma DEF AwaitedAt
<1>7. WorkerOK(m, {}, l2, s)
  <2>1. l2[j] < ClaimAttempts
    BY <1>2, <1>5
  <2>2. \A k \in Jobs : m.job = {k} => k = j
    BY <1>4
  <2>3. \A d \in Delegators : Seen(j, 1, d) = 0
    BY SeenLemma
  <2> QED
    BY <1>4, <1>6, <2>1, <2>2, <2>3 DEF WorkerOK
<1>8. CoreOK(c, l2, cw2, wr2, s)
  <2>1. Apart(cw, w, m, l, s, l2, s)
    BY <1>4, <1>5 DEF Apart
  <2>2. /\ c \in [Delegators -> Nat] /\ l2 \in [Jobs -> 0 .. ClaimAttempts]
        /\ s \in [Jobs -> {"no", "done", "failed"}] /\ WorkerOK(m, {}, l2, s)
    BY <1>2, <1>5, <1>7
  <2>3. CoreOK(c, l2, [cw EXCEPT ![w] = m], [wr EXCEPT ![w] = {}], s)
    BY <1>1, <2>1, <2>2, CoreStep, ZenonT(30)
  <2> QED
    BY <2>3 DEF cw2, wr2
<1>9. ASSUME LogsAreTheirs PROVE UpperOK(c, l2, cw2, wr2)
  <2>1. ASSUME NEW d \in Delegators, NEW k \in Jobs PROVE Times(l, cw, wr, d)[k] <= Times(l2, cw2, wr2, d)[k]
    <3>1. cw2[w] = m /\ wr2[w] = {} /\ \A v \in ClaimWorkers : v # w => cw2[v] = cw[v] /\ wr2[v] = wr[v]
      BY <1>2 DEF cw2, wr2
    <3> DEFINE A == \E v \in ClaimWorkers : Open(cw[v], wr[v], k, d)
               B == \E v \in ClaimWorkers : Open(cw2[v], wr2[v], k, d)
    <3>2. Times(l, cw, wr, d)[k] = (ClaimAttempts - l[k]) - (IF A THEN 1 ELSE 0)
      BY DEF Times
    <3>3. Times(l2, cw2, wr2, d)[k] = (ClaimAttempts - l2[k]) - (IF B THEN 1 ELSE 0)
      BY DEF Times
    <3>4. CASE k = j
      <4>1. ~A
        BY <3>4 DEF Open
      <4> HIDE DEF A, B
      <4> QED
        BY <1>2, <1>5, <3>2, <3>3, <3>4, <4>1
    <3>5. CASE k # j
      <4>1. B => A
        BY <1>4, <3>1, <3>5 DEF Open
      <4> HIDE DEF A, B
      <4> QED
        BY <1>2, <1>5, <3>2, <3>3, <3>5, <4>1
    <3> QED
      BY <3>4, <3>5
  <2>2. \A d \in Delegators, k \in Jobs :
            Open(m, {}, k, d) /\ d \in DOMAIN m.mem =>
                m.mem[d] <= Weighed(Times(l, cw, wr, d), d) + Seen(k, m.at, d)
    BY <1>4, MemLemma
  <2>3. UpperOK(c, l, cw, wr)
    BY <1>9 DEF RewardsOK
  <2> QED
    BY <1>1, <1>8, <2>1, <2>2, <2>3, UpperStep DEF cw2, wr2
<1>10. ASSUME OneWorker, LogsAreTheirs PROVE LowerOK(c, cw2, wr2, s)
  <2>1. LowerOK(c, cw, wr, s)
    BY <1>10 DEF RewardsOK
  <2>2. \A d \in Delegators : c[d] >= Weighed(Done(s), d)
    BY <2>1 DEF LowerOK
  <2>3. \A d \in Delegators, k \in Jobs : m.job = {k} => d \notin DOMAIN m.mem /\ m.at # AwaitedAt(k)
    <3>1. m.at # AwaitedAt(j) /\ \A d : d \notin DOMAIN m.mem
      BY <1>4, <1>6, MemLemma
    <3>2. \A k \in Jobs : m.job = {k} => k = j
      BY <1>4
    <3> QED
      BY <3>1, <3>2
  <2> QED
    BY <1>2, <1>10, <2>2, <2>3, LowerStep DEF cw2, wr2
<1> QED
  BY <1>3, <1>8, <1>9, <1>10 DEF RewardsOK, m, l2, cw2

\* The sum of the account of a claim, with the claim.
Added(c, f, e) ==
    (IF e.from \in DOMAIN f THEN f[e.from] ELSE c[e.from]) + Amount(e.type, e.rewards)

LEMMA AddedLemma ==
    ASSUME NEW c \in [Delegators -> Nat], NEW f \in Mems, NEW e \in ClaimRec
    PROVE  Added(c, f, e) \in Nat
<1> DEFINE y == IF e.from \in DOMAIN f THEN f[e.from] ELSE c[e.from]
           z == Amount(e.type, e.rewards)
<1>1. e.from \in Delegators /\ e.rewards \in Seq(Nat)
  BY DEF ClaimRec
<1>2. y \in Nat
  BY <1>1, MemLemma
<1>3. z \in Nat
  BY <1>1, AmountLemma
<1>4. Added(c, f, e) = y + z
  BY DEF Added
<1> HIDE DEF y, z
<1> QED
  BY <1>2, <1>3, <1>4

\* A claim is added to the memory.
LEMMA AddStep ==
    ASSUME NEW c, NEW l, NEW cw, NEW wr, NEW s, RewardsOK(c, l, cw, wr, s),
           NEW w \in ClaimWorkers, NEW j \in Jobs, cw[w].job = {j}, cw[w].at <= Len(Claims[j]),
           NEW e, e = Claims[j][cw[w].at],
           NEW n \in Nat, n = Added(c, cw[w].mem, e)
    PROVE  RewardsOK(c, l, [cw EXCEPT ![w] = [job |-> {j}, at |-> cw[w].at + 1,
                                              mem |-> Put(cw[w].mem, e.from, n)]], wr, s)
<1> DEFINE a == cw[w].at
           f == cw[w].mem
           g == Put(f, e.from, n)
           m == [job |-> {j}, at |-> a + 1, mem |-> g]
           cw2 == [cw EXCEPT ![w] = m]
           wr2 == [wr EXCEPT ![w] = {}]
<1>1. CoreOK(c, l, cw, wr, s)
  BY DEF RewardsOK
<1>2. /\ c \in [Delegators -> Nat] /\ l \in [Jobs -> 0 .. ClaimAttempts]
      /\ cw \in [ClaimWorkers -> Memo] /\ wr \in [ClaimWorkers -> SUBSET Delegators]
      /\ s \in [Jobs -> {"no", "done", "failed"}]
      /\ WorkerOK(cw[w], wr[w], l, s)
  BY <1>1 DEF CoreOK
<1>3. cw[w] \in Memo /\ f \in Mems /\ a \in Nat
  BY <1>2, MemoLemma
<1>4. /\ a \in 1 .. AwaitedAt(j) /\ (a < AwaitedAt(j) => wr[w] = {})
      /\ s[j] = "no" /\ l[j] < ClaimAttempts
      /\ \A d \in Delegators \ DOMAIN f : Seen(j, a, d) = 0
  BY <1>2 DEF WorkerOK
<1> HIDE DEF a, f
<1>5. Len(Claims[j]) \in Nat /\ a <= Len(Claims[j]) /\ a >= 1
  BY <1>4, SeenLemma DEF a
<1>6. a \in 1 .. Len(Claims[j]) /\ a < AwaitedAt(j) /\ a + 1 < AwaitedAt(j) /\ a + 1 \in 1 .. AwaitedAt(j) /\ AwaitedAt(j) \in Nat
  BY <1>3, <1>5 DEF AwaitedAt
<1>7. wr2 = wr
  <2>1. wr[w] = {}
    BY <1>4, <1>6
  <2> QED
    BY <1>2, <2>1
<1>8. e \in ClaimRec
  <2>1. e = Claims[j][a]
    BY DEF a
  <2> QED
    BY <1>6, <2>1, ClaimsLemma
<1>9. /\ e.from \in Delegators /\ Amount(e.type, e.rewards) \in Nat
      /\ \A d \in Delegators : /\ Take(e, d) = (IF e.from = d THEN Amount(e.type, e.rewards) ELSE 0)
                              /\ Take(e, d) \in Nat
  <2>1. e.from \in Delegators /\ e.rewards \in Seq(Nat)
    BY <1>8 DEF ClaimRec
  <2>2. Amount(e.type, e.rewards) \in Nat
    BY <2>1, AmountLemma
  <2> QED
    BY <2>1, <2>2 DEF Take
<1>10. n = Added(c, f, e) /\ n \in Nat
  BY DEF f
<1>11. /\ g \in Mems /\ DOMAIN g = DOMAIN f \union {e.from} /\ g[e.from] = n
       /\ \A d \in DOMAIN f : d # e.from => g[d] = f[d]
  <2>1. f \in Mems /\ e.from \in Delegators /\ n \in Nat
    BY <1>3, <1>9, <1>10
  <2>2. Put(f, e.from, n) \in Mems
    BY <2>1, PutLemma
  <2>3. DOMAIN g = DOMAIN f \union {e.from} /\ g[e.from] = n
    BY DEF Put
  <2>4. \A d \in DOMAIN f : d # e.from => g[d] = f[d]
    BY DEF Put
  <2> QED
    BY <2>2, <2>3, <2>4
<1> HIDE DEF g
<1>12. m \in Memo /\ m.job = {j} /\ m.at = a + 1 /\ m.mem = g
  <2>1. a + 1 \in Nat /\ g \in Mems
    BY <1>3, <1>11
  <2>2. m \in Memo
    BY <2>1, MemoLemma, Zenon
  <2> QED
    BY <2>2
<1> HIDE DEF m, cw2, wr2
<1>13. \A d \in Delegators : Seen(j, a + 1, d) = Seen(j, a, d) + Take(e, d) /\ Seen(j, a, d) \in Nat
  <2>1. e = Claims[j][a]
    BY DEF a
  <2>2. a \in 1 .. Len(Claims[j]) + 2
    BY <1>4 DEF AwaitedAt
  <2> QED
    BY <1>6, <2>1, <2>2, SeenLemma
<1>14. ASSUME NEW d \in DOMAIN g
       PROVE  g[d] = (IF d \in DOMAIN f THEN f[d] ELSE c[d]) + Take(e, d) /\ d \in Delegators
  <2>1. d \in Delegators
    BY <1>11, MemLemma
  <2>2. CASE d = e.from
    BY <1>9, <1>10, <1>11, <2>1, <2>2 DEF Added
  <2>3. CASE d # e.from
    <3>1. d \in DOMAIN f /\ g[d] = f[d] /\ Take(e, d) = 0 /\ f[d] \in Nat
      BY <1>3, <1>9, <1>11, <2>1, <2>3, MemLemma
    <3> QED
      BY <2>1, <3>1
  <2> QED
    BY <2>2, <2>3
<1>15. WorkerOK(m, {}, l, s)
  <2>1. \A k \in Jobs : m.job = {k} => k = j
    BY <1>12
  <2>2. ASSUME NEW d \in Delegators \ DOMAIN g PROVE Seen(j, a + 1, d) = 0
    <3>1. d \notin DOMAIN f /\ d # e.from
      BY <1>11
    <3> QED
      BY <1>4, <1>9, <1>13, <3>1
  <2>3. m.job # {}
    BY <1>12
  <2> QED
    BY <1>4, <1>6, <1>12, <2>1, <2>2, <2>3 DEF WorkerOK
<1>16. Apart(cw, w, m, l, s, l, s)
  BY <1>1, <1>12 DEF CoreOK, Apart
<1>17. CoreOK(c, l, cw2, wr2, s)
  <2>1. CoreOK(c, l, [cw EXCEPT ![w] = m], [wr EXCEPT ![w] = {}], s)
    BY <1>1, <1>2, <1>15, <1>16, CoreStep, ZenonT(30)
  <2> QED
    BY <2>1 DEF cw2, wr2
<1>18. ASSUME LogsAreTheirs PROVE UpperOK(c, l, cw2, wr2)
  <2>1. UpperOK(c, l, cw, wr)
    BY <1>18 DEF RewardsOK
  <2>2. ASSUME NEW d \in Delegators PROVE Open(cw[w], wr[w], j, d)
    BY <1>6 DEF Open, a
  <2>3. ASSUME NEW d \in Delegators, NEW k \in Jobs, Open(m, {}, k, d) PROVE k = j
    BY <1>12, <2>3 DEF Open
  <2>4. ASSUME NEW d \in Delegators, NEW k \in Jobs PROVE Times(l, cw, wr, d)[k] <= Times(l, cw2, wr2, d)[k]
    <3>1. \A i \in Jobs : Open(m, {}, i, d) => Open(cw[w], wr[w], i, d)
      BY <2>2, <2>3
    <3> QED
      BY <1>1, <3>1, TimesGrow DEF cw2, wr2
  <2>5. ASSUME NEW d \in Delegators, NEW k \in Jobs, Open(m, {}, k, d), d \in DOMAIN m.mem
        PROVE  m.mem[d] <= Weighed(Times(l, cw, wr, d), d) + Seen(k, m.at, d)
    <3> DEFINE p == Weighed(Times(l, cw, wr, d), d)
    <3>1. p \in Nat
      BY <1>1, TimesType, WeighedLemma
    <3>2. c[d] <= p /\ c[d] \in Nat
      BY <1>2, <2>1 DEF UpperOK
    <3>3. d \in DOMAIN f => f[d] <= p + Seen(j, a, d) /\ f[d] \in Nat
      <4>1. d \in DOMAIN f => f[d] <= p + Seen(j, a, d)
        BY <2>1, <2>2 DEF UpperOK, f, a
      <4> QED
        BY <1>3, <4>1, MemLemma
    <3>4. d \notin DOMAIN f => Seen(j, a, d) = 0
      BY <1>4
    <3>5. g[d] = (IF d \in DOMAIN f THEN f[d] ELSE c[d]) + Take(e, d)
      BY <1>12, <1>14, <2>5
    <3>6. Seen(j, a + 1, d) = Seen(j, a, d) + Take(e, d) /\ Seen(j, a, d) \in Nat /\ Take(e, d) \in Nat
      BY <1>9, <1>13
    <3> HIDE DEF p
    <3>7. g[d] <= p + Seen(j, a + 1, d)
      <4>1. CASE d \in DOMAIN f
        BY <3>1, <3>3, <3>5, <3>6, <4>1
      <4>2. CASE d \notin DOMAIN f
        BY <3>1, <3>2, <3>4, <3>5, <3>6, <4>2
      <4> QED
        BY <4>1, <4>2
    <3> QED
      BY <1>12, <2>3, <2>5, <3>7 DEF p
  <2> QED
    BY <1>1, <1>17, <2>1, <2>4, <2>5, UpperStep DEF cw2, wr2
<1>19. ASSUME OneWorker, LogsAreTheirs PROVE LowerOK(c, cw2, wr2, s)
  <2>1. LowerOK(c, cw, wr, s)
    BY <1>19 DEF RewardsOK
  <2>2. \A d \in Delegators : c[d] >= Weighed(Done(s), d)
    BY <2>1 DEF LowerOK
  <2>3. \A k \in Jobs : m.job = {k} => k = j /\ m.at # AwaitedAt(k)
    <3>1. m.at \in Nat /\ m.at # AwaitedAt(j)
      BY <1>3, <1>6, <1>12
    <3>2. \A k \in Jobs : m.job = {k} => k = j
      BY <1>12
    <3> QED
      BY <3>1, <3>2
  <2>4. ASSUME NEW d \in Delegators, d \in DOMAIN m.mem
        PROVE  m.mem[d] >= Weighed(Done(s), d) + Seen(j, m.at, d)
    <3> DEFINE p == Weighed(Done(s), d)
    <3>1. p \in Nat
      BY DoneLemma
    <3>2. c[d] >= p /\ c[d] \in Nat
      BY <1>2, <2>2
    <3>3. d \in DOMAIN f => f[d] >= p + Seen(j, a, d) /\ f[d] \in Nat
      <4>1. d \in DOMAIN f => f[d] >= p + Seen(j, a, d)
        BY <2>1 DEF LowerOK, f, a
      <4> QED
        BY <1>3, <4>1, MemLemma
    <3>4. d \notin DOMAIN f => Seen(j, a, d) = 0
      BY <1>4
    <3>5. g[d] = (IF d \in DOMAIN f THEN f[d] ELSE c[d]) + Take(e, d)
      BY <1>12, <1>14, <2>4
    <3>6. Seen(j, a + 1, d) = Seen(j, a, d) + Take(e, d) /\ Seen(j, a, d) \in Nat /\ Take(e, d) \in Nat
      BY <1>9, <1>13
    <3> HIDE DEF p
    <3>7. g[d] >= p + Seen(j, a + 1, d)
      <4>1. CASE d \in DOMAIN f
        BY <3>1, <3>3, <3>5, <3>6, <4>1
      <4>2. CASE d \notin DOMAIN f
        BY <3>1, <3>2, <3>4, <3>5, <3>6, <4>2
      <4> QED
        BY <4>1, <4>2
    <3> QED
      BY <1>12, <3>7 DEF p
  <2> QED
    BY <1>2, <1>19, <2>2, <2>3, <2>4, LowerStep DEF cw2, wr2
<1> QED
  BY <1>7, <1>17, <1>18, <1>19 DEF RewardsOK, cw2, m, g, a, f

\* All the updates are asked for: the accounts that are not in the memory have been paid nothing.
LEMMA WriteStep ==
    ASSUME NEW c, NEW l, NEW cw, NEW wr, NEW s, RewardsOK(c, l, cw, wr, s),
           NEW w \in ClaimWorkers, NEW j \in Jobs, cw[w].job = {j}, cw[w].at = Len(Claims[j]) + 1
    PROVE  RewardsOK(c, l, [cw EXCEPT ![w] = [job |-> {j}, at |-> cw[w].at + 1, mem |-> cw[w].mem]],
                     [wr EXCEPT ![w] = DOMAIN cw[w].mem], s)
<1> DEFINE a == cw[w].at
           f == cw[w].mem
           m == [job |-> {j}, at |-> a + 1, mem |-> f]
           x == DOMAIN f
           cw2 == [cw EXCEPT ![w] = m]
           wr2 == [wr EXCEPT ![w] = x]
<1>1. CoreOK(c, l, cw, wr, s)
  BY DEF RewardsOK
<1>2. /\ c \in [Delegators -> Nat] /\ l \in [Jobs -> 0 .. ClaimAttempts]
      /\ cw \in [ClaimWorkers -> Memo] /\ wr \in [ClaimWorkers -> SUBSET Delegators]
      /\ s \in [Jobs -> {"no", "done", "failed"}]
      /\ WorkerOK(cw[w], wr[w], l, s)
  BY <1>1 DEF CoreOK
<1>3. cw[w] \in Memo /\ f \in Mems /\ a \in Nat
  BY <1>2, MemoLemma
<1>4. /\ s[j] = "no" /\ l[j] < ClaimAttempts
      /\ \A d \in Delegators \ DOMAIN f : Seen(j, a, d) = 0
  BY <1>2 DEF WorkerOK
<1>5. a < AwaitedAt(j) /\ a + 1 = AwaitedAt(j) /\ a + 1 \in 1 .. AwaitedAt(j) /\ AwaitedAt(j) \in Nat
  BY ClaimsLemma DEF AwaitedAt, a
<1>6. \A d \in Delegators : /\ Seen(j, a + 1, d) = Seen(j, a, d) /\ Seen(j, a, d) \in Nat
                            /\ LogsAreTheirs => Seen(j, a, d) = Paid[j][d]
  <2>1. a = Len(Claims[j]) + 1 /\ a + 1 = Len(Claims[j]) + 2 /\ a \in 1 .. Len(Claims[j]) + 2
    BY ClaimsLemma DEF a
  <2> QED
    BY <2>1, SeenLemma
<1> HIDE DEF a, f
<1>7. m \in Memo /\ m.job = {j} /\ m.at = a + 1 /\ m.mem = f
  <2>1. a + 1 \in Nat /\ f \in Mems
    BY <1>3
  <2>2. m \in Memo
    BY <2>1, MemoLemma, Zenon
  <2> QED
    BY <2>2
<1>8. x \subseteq Delegators
  BY <1>3, MemLemma
<1> DEFINE z == m.at
<1>9. z = AwaitedAt(j) /\ \A d \in Delegators : Seen(j, z, d) = Seen(j, a, d)
  <2>1. z = a + 1
    OBVIOUS
  <2> HIDE DEF z
  <2> QED
    BY <1>5, <1>6, <2>1
<1> HIDE DEF m, cw2, wr2
<1>10. WorkerOK(m, x, l, s)
  <2>1. \A k \in Jobs : m.job = {k} => k = j
    BY <1>7
  <2>2. m.job # {} /\ ~(m.at < AwaitedAt(j)) /\ x = DOMAIN m.mem
    BY <1>3, <1>5, <1>7
  <2>3. \A d \in Delegators \ DOMAIN m.mem : Seen(j, m.at, d) = 0
    BY <1>4, <1>7, <1>9
  <2> QED
    BY <1>4, <1>5, <1>7, <2>1, <2>2, <2>3 DEF WorkerOK
<1>11. Apart(cw, w, m, l, s, l, s)
  BY <1>1, <1>7 DEF CoreOK, Apart
<1>12. CoreOK(c, l, cw2, wr2, s)
  <2> HIDE DEF x
  <2>1. CoreOK(c, l, [cw EXCEPT ![w] = m], [wr EXCEPT ![w] = x], s)
    BY <1>1, <1>2, <1>10, <1>11, CoreStep, ZenonT(30)
  <2> QED
    BY <2>1 DEF cw2, wr2
<1>13. ASSUME LogsAreTheirs PROVE UpperOK(c, l, cw2, wr2)
  <2>1. UpperOK(c, l, cw, wr)
    BY <1>13 DEF RewardsOK
  <2>2. \A d : Open(cw[w], wr[w], j, d)
    BY <1>5 DEF Open, a
  <2>3. ASSUME NEW d \in Delegators, NEW k \in Jobs, Open(m, x, k, d) PROVE k = j
    BY <1>7, <2>3 DEF Open
  <2>4. ASSUME NEW d \in Delegators, NEW k \in Jobs PROVE Times(l, cw, wr, d)[k] <= Times(l, cw2, wr2, d)[k]
    <3> HIDE DEF x
    <3>1. \A i \in Jobs : Open(m, x, i, d) => Open(cw[w], wr[w], i, d)
      BY <2>2, <2>3
    <3> QED
      BY <1>1, <3>1, TimesGrow DEF cw2, wr2
  <2>5. ASSUME NEW d \in Delegators, NEW k \in Jobs, Open(m, x, k, d), d \in DOMAIN m.mem
        PROVE  m.mem[d] <= Weighed(Times(l, cw, wr, d), d) + Seen(k, m.at, d)
    <3>1. f[d] <= Weighed(Times(l, cw, wr, d), d) + Seen(j, a, d)
      BY <1>7, <2>1, <2>2, <2>5 DEF UpperOK, f, a
    <3> QED
      BY <1>7, <1>9, <2>3, <2>5, <3>1
  <2> HIDE DEF x
  <2> QED
    BY <1>1, <1>12, <2>1, <2>4, <2>5, UpperStep DEF cw2, wr2
<1>14. ASSUME OneWorker, LogsAreTheirs PROVE LowerOK(c, cw2, wr2, s)
  <2>1. LowerOK(c, cw, wr, s)
    BY <1>14 DEF RewardsOK
  <2>2. \A d \in Delegators : c[d] >= Weighed(Done(s), d)
    BY <2>1 DEF LowerOK
  <2>3. \A k \in Jobs : m.job = {k} => k = j
    BY <1>7
  <2>4. ASSUME NEW d \in Delegators, d \in DOMAIN m.mem
        PROVE  m.mem[d] >= Weighed(Done(s), d) + Seen(j, m.at, d)
    <3>1. f[d] >= Weighed(Done(s), d) + Seen(j, a, d)
      BY <1>7, <2>1, <2>4 DEF LowerOK, f, a
    <3> QED
      BY <1>7, <1>9, <2>4, <3>1, MemLemma, <1>3
  <2>5. ASSUME NEW d \in Delegators, d \notin x PROVE c[d] >= Weighed(Done(s), d) + Paid[j][d]
    <3>1. Paid[j][d] = 0
      <4>1. Seen(j, a, d) = 0
        BY <1>4, <2>5
      <4> QED
        BY <1>6, <1>14, <4>1
    <3>2. Weighed(Done(s), d) \in Nat
      BY DoneLemma
    <3> QED
      BY <2>2, <3>1, <3>2
  <2> HIDE DEF x
  <2> QED
    BY <1>2, <1>14, <2>2, <2>3, <2>4, <2>5, LowerStep DEF cw2, wr2
<1> QED
  BY <1>12, <1>13, <1>14 DEF RewardsOK, cw2, wr2, m, x, a, f

\* An update lands: the attempt is in the sum of the account, and open for it no longer.
LEMMA LandStep ==
    ASSUME NEW c, NEW l, NEW cw, NEW wr, NEW s, RewardsOK(c, l, cw, wr, s),
           NEW w \in ClaimWorkers, NEW j \in Jobs, cw[w].job = {j}, NEW e \in wr[w]
    PROVE  RewardsOK([c EXCEPT ![e] = cw[w].mem[e]], l, cw, [wr EXCEPT ![w] = @ \ {e}], s)
<1> DEFINE m == cw[w]
           x == wr[w] \ {e}
           c2 == [c EXCEPT ![e] = m.mem[e]]
           cw2 == [cw EXCEPT ![w] = m]
           wr2 == [wr EXCEPT ![w] = x]
<1>1. CoreOK(c, l, cw, wr, s)
  BY DEF RewardsOK
<1>2. /\ c \in [Delegators -> Nat] /\ l \in [Jobs -> 0 .. ClaimAttempts]
      /\ cw \in [ClaimWorkers -> Memo] /\ wr \in [ClaimWorkers -> SUBSET Delegators]
      /\ s \in [Jobs -> {"no", "done", "failed"}]
      /\ WorkerOK(cw[w], wr[w], l, s)
  BY <1>1 DEF CoreOK
<1>3. cw2 = cw
  BY <1>2
<1>4. m \in Memo /\ m.mem \in Mems /\ m.job = {j}
  BY <1>2, MemoLemma
<1>5. e \in DOMAIN m.mem /\ e \in Delegators /\ m.mem[e] \in Nat
  <2>1. e \in DOMAIN m.mem
    BY <1>2 DEF WorkerOK
  <2> QED
    BY <1>4, <2>1, MemLemma
<1>6. m.at = AwaitedAt(j) /\ AwaitedAt(j) \in Nat
  <2>1. m.at \in 1 .. AwaitedAt(j) /\ (m.at < AwaitedAt(j) => wr[w] = {})
    BY <1>2 DEF WorkerOK
  <2>2. AwaitedAt(j) \in Nat
    BY ClaimsLemma DEF AwaitedAt
  <2> QED
    BY <2>1, <2>2
<1>7. c2 \in [Delegators -> Nat] /\ c2[e] = m.mem[e] /\ \A d \in Delegators : d # e => c2[d] = c[d]
  BY <1>2, <1>5
<1>8. WorkerOK(m, x, l, s)
  BY <1>2 DEF WorkerOK
<1>9. \A d \in Delegators : Seen(j, AwaitedAt(j), d) \in Nat /\ (LogsAreTheirs => Seen(j, AwaitedAt(j), d) = Paid[j][d])
  <2>1. AwaitedAt(j) \in 1 .. Len(Claims[j]) + 2 /\ AwaitedAt(j) = Len(Claims[j]) + 2
    BY ClaimsLemma DEF AwaitedAt
  <2> QED
    BY <2>1, SeenLemma
<1> HIDE DEF m, c2, cw2, wr2
<1>10. Apart(cw, w, m, l, s, l, s)
  BY <1>1, <1>4 DEF CoreOK, Apart
<1>11. CoreOK(c2, l, cw2, wr2, s)
  <2> HIDE DEF x
  <2>1. CoreOK(c2, l, [cw EXCEPT ![w] = m], [wr EXCEPT ![w] = x], s)
    BY <1>1, <1>2, <1>7, <1>8, <1>10, CoreStep, ZenonT(30)
  <2> QED
    BY <2>1 DEF cw2, wr2
<1>12. ASSUME LogsAreTheirs PROVE UpperOK(c2, l, cw2, wr2)
  <2>1. UpperOK(c, l, cw, wr)
    BY <1>12 DEF RewardsOK
  <2>2. ASSUME NEW d, NEW k \in Jobs, Open(m, x, k, d) PROVE Open(cw[w], wr[w], k, d) /\ d # e /\ k = j
    BY <1>4, <1>6, <2>2 DEF Open, m
  <2>3. ASSUME NEW d \in Delegators, NEW k \in Jobs PROVE Times(l, cw, wr, d)[k] <= Times(l, cw2, wr2, d)[k]
    <3> HIDE DEF x
    <3>1. \A i \in Jobs : Open(m, x, i, d) => Open(cw[w], wr[w], i, d)
      BY <2>2
    <3> QED
      BY <1>1, <3>1, TimesGrow DEF cw2, wr2
  <2>4. ASSUME NEW d \in Delegators, NEW k \in Jobs, Open(m, x, k, d), d \in DOMAIN m.mem
        PROVE  m.mem[d] <= Weighed(Times(l, cw, wr, d), d) + Seen(k, m.at, d)
    BY <2>1, <2>2, <2>4 DEF UpperOK, m
  <2>5. c2[e] <= Weighed(Times(l, cw2, wr2, e), e)
    <3> DEFINE p == Times(l, cw, wr, e)
               q == Times(l, cw2, wr2, e)
    <3>1. p \in [Jobs -> Nat] /\ q \in [Jobs -> Nat]
      BY <1>1, <1>11, TimesType
    <3>2. cw2 = cw /\ wr2[w] = x /\ \A v \in ClaimWorkers : v # w => wr2[v] = wr[v]
      BY <1>2, <1>3 DEF wr2
    <3>3. \E v \in ClaimWorkers : Open(cw[v], wr[v], j, e)
      BY <1>4 DEF Open, m
    <3>4. ~\E v \in ClaimWorkers : Open(cw2[v], wr2[v], j, e)
      <4> SUFFICES ASSUME NEW v \in ClaimWorkers, Open(cw2[v], wr2[v], j, e) PROVE FALSE
        OBVIOUS
      <4>1. v = w
        BY <1>1, <1>4, <3>2 DEF CoreOK, Open, m
      <4> QED
        BY <1>6, <3>2, <4>1 DEF Open, m
    <3>5. q[j] = p[j] + 1
      <4>1. l[j] \in Nat /\ ClaimAttempts \in Nat
        BY <1>2, ClaimsAssumption
      <4>2. p[j] = (ClaimAttempts - l[j]) - 1
        BY <3>3 DEF Times
      <4>3. q[j] = (ClaimAttempts - l[j]) - 0
        BY <3>4 DEF Times
      <4> HIDE DEF p, q
      <4> QED
        BY <4>1, <4>2, <4>3
    <3>6. ASSUME NEW k \in Jobs, k # j PROVE q[k] = p[k]
      <4>1. \A v \in ClaimWorkers : Open(cw2[v], wr2[v], k, e) <=> Open(cw[v], wr[v], k, e)
        <5> SUFFICES ASSUME NEW v \in ClaimWorkers PROVE Open(cw2[v], wr2[v], k, e) <=> Open(cw[v], wr[v], k, e)
          OBVIOUS
        <5>1. CASE v = w
          BY <1>4, <3>2, <3>6, <5>1 DEF Open, m
        <5>2. CASE v # w
          BY <3>2, <5>2
        <5> QED
          BY <5>1, <5>2
      <4> QED
        BY <4>1 DEF Times
    <3> HIDE DEF p, q
    <3>7. Weighed(q, e) = Weighed(p, e) + Paid[j][e]
      BY <1>5, <3>1, <3>5, <3>6, WeighedLemma
    <3>8. m.mem[e] <= Weighed(p, e) + Seen(j, AwaitedAt(j), e)
      <4>1. Open(cw[w], wr[w], j, e)
        BY <1>4 DEF Open, m
      <4> QED
        BY <1>5, <1>6, <2>1, <4>1 DEF UpperOK, m, p
    <3> QED
      BY <1>5, <1>7, <1>9, <1>12, <3>7, <3>8 DEF q
  <2>6. \A d \in Delegators : c2[d] = c[d] \/ c2[d] <= Weighed(Times(l, cw2, wr2, d), d)
    BY <1>7, <2>5
  <2> HIDE DEF x
  <2> QED
    BY <1>1, <1>11, <2>1, <2>3, <2>4, <2>6, UpperStep DEF cw2, wr2
<1>13. ASSUME OneWorker, LogsAreTheirs PROVE LowerOK(c2, cw2, wr2, s)
  <2>1. LowerOK(c, cw, wr, s)
    BY <1>13 DEF RewardsOK
  <2>2. \A d \in Delegators : Weighed(Done(s), d) \in Nat /\ Paid[j][d] \in Nat
    BY DoneLemma, JobLemma
  <2>3. \A d \in DOMAIN m.mem : d \in Delegators /\ m.mem[d] >= Weighed(Done(s), d) + Seen(j, AwaitedAt(j), d)
    BY <1>4, <1>6, <2>1, MemLemma DEF LowerOK, m
  <2>4. c2[e] >= Weighed(Done(s), e) + Paid[j][e]
    BY <1>5, <1>7, <1>9, <1>13, <2>3
  <2>5. ASSUME NEW d \in Delegators PROVE c2[d] >= Weighed(Done(s), d)
    <3>1. CASE d = e
      BY <1>5, <1>7, <2>2, <2>4, <3>1
    <3>2. CASE d # e
      BY <1>7, <2>1, <3>2 DEF LowerOK
    <3> QED
      BY <3>1, <3>2
  <2>6. \A k \in Jobs : m.job = {k} => k = j
    BY <1>4
  <2>7. ASSUME NEW d \in Delegators, d \notin x PROVE c2[d] >= Weighed(Done(s), d) + Paid[j][d]
    <3>1. CASE d = e
      BY <2>4, <3>1
    <3>2. CASE d # e
      BY <1>4, <1>6, <1>7, <2>1, <2>7, <3>2 DEF LowerOK, m
    <3> QED
      BY <3>1, <3>2
  <2> HIDE DEF x
  <2> QED
    BY <1>2, <1>6, <1>13, <2>3, <2>5, <2>6, <2>7, LowerStep DEF cw2, wr2
<1>14. [wr EXCEPT ![w] = @ \ {e}] = wr2
  BY <1>2 DEF wr2
<1>15. RewardsOK(c2, l, cw2, wr2, s)
  BY <1>11, <1>12, <1>13 DEF RewardsOK
<1> QED
  BY <1>3, <1>14, <1>15 DEF c2, m

\* An attempt ends: it failed, or everything is written and the job is done.
LEMMA EndStep ==
    ASSUME NEW c, NEW l, NEW cw, NEW wr, NEW s, RewardsOK(c, l, cw, wr, s),
           NEW w \in ClaimWorkers, NEW j \in Jobs, cw[w].job = {j}, NEW s2,
           \/ s2 = s
           \/ s2 = [s EXCEPT ![j] = "failed"]
           \/ s2 = [s EXCEPT ![j] = "done"] /\ cw[w].at > Len(Claims[j]) + 1 /\ wr[w] = {}
    PROVE  RewardsOK(c, l, [cw EXCEPT ![w] = Free], [wr EXCEPT ![w] = {}], s2)
<1> DEFINE cw2 == [cw EXCEPT ![w] = Free]
           wr2 == [wr EXCEPT ![w] = {}]
<1>1. CoreOK(c, l, cw, wr, s)
  BY DEF RewardsOK
<1>2. /\ c \in [Delegators -> Nat] /\ l \in [Jobs -> 0 .. ClaimAttempts]
      /\ cw \in [ClaimWorkers -> Memo] /\ wr \in [ClaimWorkers -> SUBSET Delegators]
      /\ s \in [Jobs -> {"no", "done", "failed"}]
      /\ WorkerOK(cw[w], wr[w], l, s)
  BY <1>1 DEF CoreOK
<1>3. Free \in Memo /\ Free.job = {}
  BY MemoLemma
<1>4. s2 \in [Jobs -> {"no", "done", "failed"}] /\ s[j] = "no" /\ \A k \in Jobs : k # j => s2[k] = s[k]
  BY <1>2 DEF WorkerOK
<1>5. \A d, k : ~Open(Free, {}, k, d)
  BY <1>3 DEF Open
<1> HIDE DEF cw2, wr2
<1>6. WorkerOK(Free, {}, l, s2)
  BY <1>3 DEF WorkerOK
<1>7. Apart(cw, w, Free, l, s, l, s2)
  BY <1>1, <1>3, <1>4 DEF CoreOK, Apart
<1>8. CoreOK(c, l, cw2, wr2, s2)
  <2>1. CoreOK(c, l, [cw EXCEPT ![w] = Free], [wr EXCEPT ![w] = {}], s2)
    BY <1>1, <1>2, <1>4, <1>6, <1>7, CoreStep, ZenonT(30)
  <2> QED
    BY <2>1 DEF cw2, wr2
<1>9. ASSUME LogsAreTheirs PROVE UpperOK(c, l, cw2, wr2)
  <2>1. UpperOK(c, l, cw, wr)
    BY <1>9 DEF RewardsOK
  <2>2. \A d \in Delegators, k \in Jobs : Times(l, cw, wr, d)[k] <= Times(l, cw2, wr2, d)[k]
    BY <1>1, <1>5, TimesGrow DEF cw2, wr2
  <2> QED
    BY <1>1, <1>5, <1>8, <2>1, <2>2, UpperStep DEF cw2, wr2
<1>10. ASSUME OneWorker, LogsAreTheirs PROVE LowerOK(c, cw2, wr2, s2)
  <2>1. LowerOK(c, cw, wr, s)
    BY <1>10 DEF RewardsOK
  <2>2. ASSUME NEW d \in Delegators PROVE c[d] >= Weighed(Done(s2), d)
    <3> DEFINE p == Done(s)
               q == Done(s2)
    <3>1. p \in [Jobs -> Nat] /\ q \in [Jobs -> Nat] /\ c[d] \in Nat /\ Paid[j][d] \in Nat
      BY <1>2, DoneLemma, JobLemma
    <3>2. c[d] >= Weighed(p, d)
      BY <2>1 DEF LowerOK
    <3>3. CASE s2 = s
      BY <3>2, <3>3
    <3>4. CASE s2 = [s EXCEPT ![j] = "failed"]
      <4>1. p = q
        BY <1>2, <1>4, <3>4 DEF Done
      <4> QED
        BY <3>2, <4>1
    <3>5. CASE s2 = [s EXCEPT ![j] = "done"] /\ cw[w].at > Len(Claims[j]) + 1 /\ wr[w] = {}
      <4>1. q[j] = p[j] + 1 /\ \A k \in Jobs : k # j => q[k] = p[k]
        BY <1>2, <1>4, <3>5 DEF Done
      <4>2. cw[w].at = AwaitedAt(j)
        <5>1. cw[w].at \in 1 .. Len(Claims[j]) + 2 /\ Len(Claims[j]) \in Nat
          BY <1>2, ClaimsLemma DEF WorkerOK, AwaitedAt
        <5> QED
          BY <3>5, <5>1 DEF AwaitedAt
      <4>3. c[d] >= Weighed(p, d) + Paid[j][d]
        BY <2>1, <3>5, <4>2 DEF LowerOK
      <4> HIDE DEF p, q
      <4>4. Weighed(q, d) = Weighed(p, d) + Paid[j][d]
        BY <3>1, <4>1, WeighedLemma
      <4> QED
        BY <4>3, <4>4 DEF q
    <3> QED
      BY <3>3, <3>4, <3>5
  <2>3. \A k \in Jobs : Free.job # {k}
    BY <1>3
  <2> QED
    BY <1>2, <1>10, <2>2, <2>3, LowerStep DEF cw2, wr2
<1> QED
  BY <1>8, <1>9, <1>10 DEF RewardsOK, cw2, wr2

\* At the beginning nothing is claimed, begun or done.
LEMMA RewardsStart == ClaimsInit => RewardsInv
<1> SUFFICES ASSUME ClaimsInit PROVE RewardsInv
  OBVIOUS
<1>1. /\ claimed = [d \in Delegators |-> 0] /\ left = [j \in Jobs |-> ClaimAttempts]
      /\ claimWorker = [w \in ClaimWorkers |-> Free] /\ writing = [w \in ClaimWorkers |-> {}]
      /\ settled = [j \in Jobs |-> "no"]
  BY DEF ClaimsInit
<1>2. Free \in Memo /\ Free.job = {} /\ ClaimAttempts \in Nat /\ ClaimAttempts \in 0 .. ClaimAttempts
  BY MemoLemma, ClaimsAssumption
<1>3. CoreOK(claimed, left, claimWorker, writing, settled)
  <2>1. \A w \in ClaimWorkers : WorkerOK(claimWorker[w], writing[w], left, settled)
    BY <1>1, <1>2 DEF WorkerOK
  <2>2. claimWorker \in [ClaimWorkers -> Memo]
    BY <1>1, <1>2
  <2>3. /\ claimed \in [Delegators -> Nat] /\ left \in [Jobs -> 0 .. ClaimAttempts]
        /\ writing \in [ClaimWorkers -> SUBSET Delegators] /\ settled \in [Jobs -> {"no", "done", "failed"}]
    BY <1>1, <1>2
  <2>4. \A w \in ClaimWorkers : claimWorker[w].job = {}
    BY <1>1, <1>2
  <2> QED
    BY <2>1, <2>2, <2>3, <2>4 DEF CoreOK
<1>4. \A w \in ClaimWorkers : \A j, d : ~Open(claimWorker[w], writing[w], j, d) /\ claimWorker[w].job # {j}
  BY <1>1, <1>2 DEF Open
<1>5. UpperOK(claimed, left, claimWorker, writing)
  <2> SUFFICES ASSUME NEW d \in Delegators PROVE claimed[d] <= Weighed(Times(left, claimWorker, writing, d), d)
    BY <1>4 DEF UpperOK
  <2>1. Times(left, claimWorker, writing, d) \in [Jobs -> Nat]
    BY <1>3, TimesType
  <2>2. Weighed(Times(left, claimWorker, writing, d), d) \in Nat
    BY <2>1, WeighedLemma
  <2> QED
    BY <1>1, <2>2
<1>6. LowerOK(claimed, claimWorker, writing, settled)
  <2> SUFFICES ASSUME NEW d \in Delegators PROVE claimed[d] >= Weighed(Done(settled), d)
    BY <1>4 DEF LowerOK
  <2>1. Done(settled) \in [Jobs -> Nat] /\ \A j \in Jobs : Done(settled)[j] = 0
    BY <1>1 DEF Done
  <2>2. Weighed(Done(settled), d) = 0
    BY <2>1, WeighedLemma
  <2> QED
    BY <1>1, <2>2
<1> QED
  BY <1>3, <1>5, <1>6 DEF RewardsInv, RewardsOK

\* A worker goes on to the next claim.
LEMMA MoveLemma ==
    ASSUME NEW cw \in [ClaimWorkers -> Memo], NEW w \in ClaimWorkers
    PROVE  [cw EXCEPT ![w].at = @ + 1]
              = [cw EXCEPT ![w] = [job |-> cw[w].job, at |-> cw[w].at + 1, mem |-> cw[w].mem]]
<1> DEFINE m == cw[w]
<1>1. m \in [job : {{}} \union {{j} : j \in Jobs}, at : Nat, mem : Mems]
  BY DEF Memo
<1> HIDE DEF m
<1>2. [m EXCEPT !.at = @ + 1] = [job |-> m.job, at |-> m.at + 1, mem |-> m.mem]
  BY <1>1
<1>3. [cw EXCEPT ![w].at = @ + 1] = [cw EXCEPT ![w] = [m EXCEPT !.at = @ + 1]]
  BY DEF m
<1> QED
  BY <1>2, <1>3 DEF m

\* The job of a worker.
LEMMA JobAtLemma == \A w, j : j \in Jobs /\ claimWorker[w].job = {j} => JobAt(w) = j
BY DEF JobAt

LEMMA BusyLemma ==
    ASSUME RewardsInv, NEW w \in ClaimWorkers, ClaimBusy(w)
    PROVE  \E j \in Jobs : claimWorker[w].job = {j} /\ JobAt(w) = j
<1>1. claimWorker[w] \in Memo
  BY DEF RewardsInv, RewardsOK, CoreOK
<1>2. PICK j \in Jobs : claimWorker[w].job = {j}
  BY <1>1, MemoLemma DEF ClaimBusy
<1>3. JobAt(w) = j
  BY <1>2, JobAtLemma
<1> QED
  BY <1>2, <1>3

\* An attempt that fails ends.
LEMMA FailLemma ==
    ASSUME RewardsInv, NEW w \in ClaimWorkers, ClaimBusy(w), Fail(w), claimed' = claimed, left' = left
    PROVE  RewardsInv'
<1>1. PICK j \in Jobs : claimWorker[w].job = {j} /\ JobAt(w) = j
  BY BusyLemma
<1>2. /\ claimWorker' = [claimWorker EXCEPT ![w] = Free] /\ writing' = [writing EXCEPT ![w] = {}]
      /\ settled' = settled \/ settled' = [settled EXCEPT ![j] = "failed"]
  BY <1>1 DEF Fail
<1>3. RewardsOK(claimed, left, claimWorker, writing, settled)
  BY DEF RewardsInv
<1>4. RewardsOK(claimed, left, claimWorker', writing', settled')
  BY <1>1, <1>2, <1>3, EndStep
<1> QED
  BY <1>4 DEF RewardsInv

LEMMA RewardsNext == RewardsInv /\ [ClaimsNext]_rewardVars => RewardsInv'
<1> SUFFICES ASSUME RewardsInv, [ClaimsNext]_rewardVars PROVE RewardsInv'
  OBVIOUS
<1>1. RewardsOK(claimed, left, claimWorker, writing, settled)
  BY DEF RewardsInv
<1>2. /\ claimed \in [Delegators -> Nat] /\ claimWorker \in [ClaimWorkers -> Memo]
      /\ \A v \in ClaimWorkers : WorkerOK(claimWorker[v], writing[v], left, settled)
  BY <1>1 DEF RewardsOK, CoreOK
<1>3. ASSUME NEW w \in ClaimWorkers, NEW j \in Jobs, StartClaims(w, j) PROVE RewardsInv'
  <2>1. /\ claimWorker[w].job = {} /\ settled[j] = "no" /\ left[j] > 0
        /\ \A v \in ClaimWorkers : claimWorker[v].job # {j}
        /\ claimWorker' = [claimWorker EXCEPT ![w] = [job |-> {j}, at |-> 1, mem |-> Nobody]]
        /\ left' = [left EXCEPT ![j] = @ - 1] /\ claimed' = claimed /\ writing' = writing /\ settled' = settled
    BY <1>3 DEF StartClaims, ClaimBusy
  <2>2. RewardsOK(claimed, left', claimWorker', writing, settled)
    BY <1>1, <2>1, StartStep
  <2> QED
    BY <2>1, <2>2 DEF RewardsInv
<1>4. ASSUME NEW w \in ClaimWorkers, HandleStakeRewards(w) PROVE RewardsInv'
  <2>1. PICK j \in Jobs : claimWorker[w].job = {j} /\ JobAt(w) = j
    BY <1>4, BusyLemma DEF HandleStakeRewards
  <2> DEFINE e == Claims[j][claimWorker[w].at]
             f == claimWorker[w].mem
  <2>2. ClaimAt(w) = e
    BY <2>1 DEF ClaimAt
  <2>3. claimWorker[w].at <= Len(Claims[j]) /\ ClaimBusy(w) /\ claimed' = claimed /\ left' = left
    BY <1>4, <2>1 DEF HandleStakeRewards
  <2>4. CASE e.type = "exec"
    <3>1. Fail(w)
      BY <1>4, <2>2, <2>4 DEF HandleStakeRewards
    <3> QED
      BY <2>3, <3>1, FailLemma
  <2>5. CASE e.type # "exec"
    <3> DEFINE n == Added(claimed, f, e)
    <3>1. f \in Mems /\ e \in ClaimRec
      <4>1. claimWorker[w] \in Memo /\ claimWorker[w].at \in Nat /\ f \in Mems
        BY <1>2, MemoLemma
      <4>2. WorkerOK(claimWorker[w], writing[w], left, settled)
        BY <1>2
      <4>3. claimWorker[w].at \in 1 .. AwaitedAt(j)
        BY <2>1, <4>2 DEF WorkerOK
      <4>4. claimWorker[w].at \in 1 .. Len(Claims[j])
        BY <2>3, <4>1, <4>3, ClaimsLemma
      <4> QED
        BY <4>1, <4>4, ClaimsLemma
    <3>2. writing' = writing /\ settled' = settled
      BY <1>4, <2>2, <2>5 DEF HandleStakeRewards
    <3>3. claimWorker' = [claimWorker EXCEPT ![w] = [job |-> {j}, at |-> claimWorker[w].at + 1,
                                                     mem |-> Put(f, e.from, n)]]
      BY <1>4, <2>1, <2>2, <2>5 DEF HandleStakeRewards, Added
    <3>4. n \in Nat
      BY <1>2, <3>1, AddedLemma
    <3> HIDE DEF n, e
    <3>5. RewardsOK(claimed, left, claimWorker', writing, settled)
      BY <1>1, <2>1, <2>3, <3>3, <3>4, AddStep DEF n, e
    <3> QED
      BY <2>3, <3>2, <3>5 DEF RewardsInv
  <2> QED
    BY <2>4, <2>5
<1>5. ASSUME NEW w \in ClaimWorkers, WriteAll(w) PROVE RewardsInv'
  <2>1. PICK j \in Jobs : claimWorker[w].job = {j} /\ JobAt(w) = j
    BY <1>5, BusyLemma DEF WriteAll
  <2>2. /\ claimWorker[w].at = Len(Claims[j]) + 1
        /\ writing' = [writing EXCEPT ![w] = DOMAIN claimWorker[w].mem]
        /\ claimWorker' = [claimWorker EXCEPT ![w].at = @ + 1]
        /\ claimed' = claimed /\ left' = left /\ settled' = settled
    BY <1>5, <2>1 DEF WriteAll
  <2>3. claimWorker' = [claimWorker EXCEPT ![w] = [job |-> {j}, at |-> claimWorker[w].at + 1,
                                                   mem |-> claimWorker[w].mem]]
    <3>1. [claimWorker EXCEPT ![w].at = @ + 1]
             = [claimWorker EXCEPT ![w] = [job |-> claimWorker[w].job, at |-> claimWorker[w].at + 1,
                                           mem |-> claimWorker[w].mem]]
      BY <1>2, MoveLemma
    <3> QED
      BY <2>1, <2>2, <3>1, Zenon
  <2>4. RewardsOK(claimed, left, claimWorker', writing', settled)
    <3>1. RewardsOK(claimed, left, [claimWorker EXCEPT ![w] = [job |-> {j}, at |-> claimWorker[w].at + 1,
                                                               mem |-> claimWorker[w].mem]],
                    [writing EXCEPT ![w] = DOMAIN claimWorker[w].mem], settled)
      BY <1>1, <2>1, <2>2, WriteStep
    <3> QED
      BY <2>2, <2>3, <3>1
  <2> QED
    BY <2>2, <2>4 DEF RewardsInv
<1>6. ASSUME NEW w \in ClaimWorkers, NEW d \in Delegators, WriteLands(w, d) PROVE RewardsInv'
  <2>1. /\ d \in writing[w] /\ claimed' = [claimed EXCEPT ![d] = claimWorker[w].mem[d]]
        /\ writing' = [writing EXCEPT ![w] = @ \ {d}]
        /\ claimWorker' = claimWorker /\ left' = left /\ settled' = settled
    BY <1>6 DEF WriteLands
  <2>2. PICK j \in Jobs : claimWorker[w].job = {j}
    <3>1. WorkerOK(claimWorker[w], writing[w], left, settled) /\ claimWorker[w] \in Memo
      BY <1>2
    <3>2. claimWorker[w].job # {}
      BY <2>1, <3>1, MemLemma, MemoLemma DEF WorkerOK
    <3> QED
      BY <3>1, <3>2, MemoLemma
  <2>3. RewardsOK(claimed', left, claimWorker, writing', settled)
    BY <1>1, <2>1, <2>2, LandStep
  <2> QED
    BY <2>1, <2>3 DEF RewardsInv
<1>7. ASSUME NEW w \in ClaimWorkers, Complete(w) PROVE RewardsInv'
  <2>1. PICK j \in Jobs : claimWorker[w].job = {j} /\ JobAt(w) = j
    BY <1>7, BusyLemma DEF Complete
  <2>2. /\ claimWorker[w].at > Len(Claims[j]) + 1 /\ writing[w] = {}
        /\ settled' = [settled EXCEPT ![j] = "done"] /\ claimWorker' = [claimWorker EXCEPT ![w] = Free]
        /\ claimed' = claimed /\ left' = left /\ writing' = writing
    BY <1>7, <2>1 DEF Complete
  <2>3. writing' = [writing EXCEPT ![w] = {}]
    <3>1. writing \in [ClaimWorkers -> SUBSET Delegators]
      BY <1>1 DEF RewardsOK, CoreOK
    <3> QED
      BY <2>2, <3>1
  <2>4. RewardsOK(claimed, left, claimWorker', writing', settled')
    <3> DEFINE s2 == settled'
    <3>1. s2 = [settled EXCEPT ![j] = "done"] /\ claimWorker[w].at > Len(Claims[j]) + 1 /\ writing[w] = {}
      BY <2>2
    <3> HIDE DEF s2
    <3>2. RewardsOK(claimed, left, [claimWorker EXCEPT ![w] = Free], [writing EXCEPT ![w] = {}], s2)
      BY <1>1, <2>1, <3>1, EndStep
    <3> QED
      BY <2>2, <2>3, <3>2 DEF s2
  <2> QED
    BY <2>2, <2>4 DEF RewardsInv
<1>8. ASSUME NEW w \in ClaimWorkers, ClaimsFail(w) PROVE RewardsInv'
  <2>1. ClaimBusy(w) /\ Fail(w) /\ claimed' = claimed /\ left' = left
    BY <1>8 DEF ClaimsFail
  <2> QED
    BY <2>1, FailLemma
<1>9. CASE UNCHANGED rewardVars
  BY <1>9 DEF rewardVars, RewardsInv
<1> QED
  BY <1>3, <1>4, <1>5, <1>6, <1>7, <1>8, <1>9 DEF ClaimsNext

\* How often a job was tried.
Tried(l) == [j \in Jobs |-> ClaimAttempts - l[j]]

\* What completed jobs saw paid, and what was paid for each attempt, are sums of what the jobs paid.
LEMMA PaidLemma ==
    ASSUME RewardsInv, NEW d \in Delegators
    PROVE  /\ Tried(left) \in [Jobs -> Nat] /\ Done(settled) \in [Jobs -> Nat]
           /\ AttemptsPaid(d) = Weighed(Tried(left), d)
           /\ CompletedPaid(d) = Weighed(Done(settled), d)
<1>1. left \in [Jobs -> 0 .. ClaimAttempts] /\ settled \in [Jobs -> {"no", "done", "failed"}] /\ ClaimAttempts \in Nat
  BY ClaimsAssumption DEF RewardsInv, RewardsOK, CoreOK
<1>2. \A j \in Jobs : Paid[j][d] \in Nat
  BY JobLemma
<1>3. \A j \in Jobs : ClaimAttempts - left[j] \in Nat /\ left[j] \in Nat /\ left[j] <= ClaimAttempts
  BY <1>1
<1>4. Tried(left) \in [Jobs -> Nat] /\ Done(settled) \in [Jobs -> Nat]
  BY <1>3 DEF Tried, Done
<1>5. ASSUME NEW j \in Jobs
      PROVE  (IF left[j] < ClaimAttempts THEN (ClaimAttempts - left[j]) * Paid[j][d] ELSE 0) = Tried(left)[j] * Paid[j][d]
  <2>1. Tried(left)[j] = ClaimAttempts - left[j]
    BY DEF Tried
  <2>2. CASE left[j] < ClaimAttempts
    BY <2>1, <2>2
  <2>3. CASE ~(left[j] < ClaimAttempts)
    <3>1. ClaimAttempts - left[j] = 0
      BY <1>1, <1>3, <2>3
    <3>2. 0 * Paid[j][d] = 0
      BY <1>2, TimesLemma
    <3> QED
      BY <2>1, <2>3, <3>1, <3>2
  <2> QED
    BY <2>2, <2>3
<1>6. ASSUME NEW j \in Jobs PROVE (IF settled[j] = "done" THEN Paid[j][d] ELSE 0) = Done(settled)[j] * Paid[j][d]
  <2>1. 0 * Paid[j][d] = 0 /\ 1 * Paid[j][d] = Paid[j][d]
    BY <1>2, TimesLemma
  <2>2. Done(settled)[j] = (IF settled[j] = "done" THEN 1 ELSE 0)
    BY DEF Done
  <2> QED
    BY <2>1, <2>2
<1>7. AttemptsPaid(d) = Weighed(Tried(left), d)
  <2> DEFINE x == [j \in Jobs |-> IF left[j] < ClaimAttempts THEN (ClaimAttempts - left[j]) * Paid[j][d] ELSE 0]
             y == [j \in Jobs |-> Tried(left)[j] * Paid[j][d]]
  <2>1. x = y
    BY <1>5
  <2>2. AttemptsPaid(d) = Sum(x) /\ Weighed(Tried(left), d) = Sum(y)
    BY DEF AttemptsPaid, Weighed
  <2> HIDE DEF x, y
  <2> QED
    BY <2>1, <2>2
<1>8. CompletedPaid(d) = Weighed(Done(settled), d)
  <2> DEFINE x == [j \in Jobs |-> IF settled[j] = "done" THEN Paid[j][d] ELSE 0]
             y == [j \in Jobs |-> Done(settled)[j] * Paid[j][d]]
  <2>1. x = y
    BY <1>6
  <2>2. CompletedPaid(d) = Sum(x) /\ Weighed(Done(settled), d) = Sum(y)
    BY DEF CompletedPaid, Weighed
  <2> HIDE DEF x, y
  <2> QED
    BY <2>1, <2>2
<1> QED
  BY <1>4, <1>7, <1>8

LEMMA RewardsFollow == RewardsInv => RewardsAreCounted
<1> SUFFICES ASSUME RewardsInv PROVE RewardsAreCounted
  OBVIOUS
<1>1. /\ claimed \in [Delegators -> Nat] /\ left \in [Jobs -> 0 .. ClaimAttempts]
      /\ settled \in [Jobs -> {"no", "done", "failed"}]
      /\ CoreOK(claimed, left, claimWorker, writing, settled)
      /\ \A w \in ClaimWorkers : WorkerOK(claimWorker[w], writing[w], left, settled)
  BY DEF RewardsInv, RewardsOK, CoreOK
<1>2. ClaimsTypeOK
  BY <1>1 DEF ClaimsTypeOK, WorkerOK
<1>3. CompletedIsCounted
  <2> SUFFICES ASSUME OneWorker, LogsAreTheirs, NEW d \in Delegators PROVE claimed[d] >= CompletedPaid(d)
    BY DEF CompletedIsCounted
  <2>1. LowerOK(claimed, claimWorker, writing, settled)
    BY DEF RewardsInv, RewardsOK
  <2> QED
    BY <2>1, PaidLemma DEF LowerOK
<1>4. CountedByAttempts
  <2> SUFFICES ASSUME LogsAreTheirs, NEW d \in Delegators PROVE claimed[d] <= AttemptsPaid(d)
    BY DEF CountedByAttempts
  <2> DEFINE a == Times(left, claimWorker, writing, d)
             b == Tried(left)
  <2>1. UpperOK(claimed, left, claimWorker, writing)
    BY DEF RewardsInv, RewardsOK
  <2>2. claimed[d] <= Weighed(a, d) /\ claimed[d] \in Nat
    BY <1>1, <2>1 DEF UpperOK
  <2>3. a \in [Jobs -> Nat] /\ b \in [Jobs -> Nat]
    BY <1>1, TimesType, PaidLemma
  <2>4. ASSUME NEW j \in Jobs PROVE a[j] <= b[j]
    <3> DEFINE A == \E w \in ClaimWorkers : Open(claimWorker[w], writing[w], j, d)
               n == ClaimAttempts - left[j]
    <3>1. a[j] = n - (IF A THEN 1 ELSE 0) /\ b[j] = n
      BY DEF Times, Tried
    <3>2. n \in Int
      BY <1>1, ClaimsAssumption
    <3> HIDE DEF A, n, a, b
    <3> QED
      BY <3>1, <3>2
  <2> HIDE DEF a, b
  <2>5. Weighed(a, d) <= Weighed(b, d) /\ Weighed(a, d) \in Nat /\ Weighed(b, d) \in Nat
    BY <2>3, <2>4, WeighedLemma
  <2>6. AttemptsPaid(d) = Weighed(b, d)
    BY PaidLemma DEF b
  <2> QED
    BY <2>2, <2>5, <2>6
<1>5. ExactWithoutRetries
  <2> SUFFICES ASSUME OneWorker, LogsAreTheirs, \A j \in Jobs : Untouched(j) \/ AtOnce(j), NEW d \in Delegators
               PROVE  claimed[d] = CompletedPaid(d)
    BY DEF ExactWithoutRetries
  <2>1. ASSUME NEW j \in Jobs PROVE Tried(left)[j] = Done(settled)[j]
    BY <1>1, <2>1, ClaimsAssumption DEF Tried, Done, Untouched, AtOnce
  <2>2. Tried(left) = Done(settled)
    BY <2>1 DEF Tried, Done
  <2>3. claimed[d] <= AttemptsPaid(d) /\ claimed[d] >= CompletedPaid(d)
    BY <1>3, <1>4 DEF CompletedIsCounted, CountedByAttempts
  <2>4. AttemptsPaid(d) = CompletedPaid(d) /\ CompletedPaid(d) \in Nat /\ claimed[d] \in Nat
    BY <1>1, <2>2, PaidLemma, DoneLemma
  <2> QED
    BY <2>3, <2>4
<1> QED
  BY <1>2, <1>3, <1>4, <1>5 DEF RewardsAreCounted

\* The sums of claimed rewards hold, with one worker, at least what the jobs saw paid that completed,
\* never more than was paid for each attempt, and exactly what was paid when no job was tried again.
THEOREM RewardsAreCountedRight == ClaimsSpec => []RewardsAreCounted
<1>1. RewardsInv => RewardsAreCounted
  BY RewardsFollow
<1> QED
  BY <1>1, RewardsStart, RewardsNext, PTL DEF ClaimsSpec
=============================================================================
