------------------------------ MODULE DelayJobs ------------------------------
(* What ends by itself on the chain -- an unbonding, a redelegation, a delayed *)
(* vesting -- makes no transaction that handle.address could see.  So the      *)
(* crawlers that find such an entry store a delay job for its end              *)
(* (delay-job.service.ts), and handle.delay-job makes the crawlers run again   *)
(* when the job expires.  The collection has no unique index: it is a bag.     *)
EXTENDS Integers, Bags, FiniteSets, FiniteSetsExt

CONSTANTS
    DelayAddresses, Validators,
    Unbond, Redelegate, Vesting,  \* DELAY_JOB_TYPE
    Entries,            \* [kind, addr, val, at : when the chain ends it]
    DelayWorkers,       \* jobs of a crawler that may run at a time
    DelayAttempts,      \* BULL_JOB_ATTEMPT
    MaxFound,           \* jobs that findPendingJobs returns at least (1000)
    MaxTime,            \* bound: the clock
    Lateness,           \* bound: how late the chain ends an entry
    MaxDelayFailures,   \* bound: failing calls of network and database
    MaxDelayCrashes     \* bound: crashes

DelayKinds == {Unbond, Redelegate, Vesting}

ASSUME DelayAssumption ==
    /\ Entries \subseteq [kind : DelayKinds, addr : DelayAddresses, val : Validators, at : Nat]
    /\ {DelayAttempts, MaxFound} \subseteq Nat \ {0}
    /\ {MaxTime, Lateness, MaxDelayFailures, MaxDelayCrashes} \subseteq Nat

VARIABLES
    clock,
    pending,            \* entries that the chain holds
    begun,              \* entries there have been
    account,            \* entries that account_info shows
    delayJobs,          \* the collection: a bag of [kind, addr, at]
    delaySends,         \* delay jobs whose crawl handle.delay-job has created, not in Redis yet
    deletes,            \* the deletes it awaits
    delayCrawlJobs,     \* waiting jobs of the crawlers: a bag of [kind, addr, after, left]
    delayWorker,        \* delayWorker[w]: its job, whether it has written, and what it found
    excusedEntries,     \* history: kinds of entries of accounts whose update was lost
    delayFailures, crashes

delayVars == <<clock, pending, begun, account, delayJobs, delaySends, deletes, delayCrawlJobs, delayWorker,
               excusedEntries, delayFailures, crashes>>

Off == [on |-> FALSE, job |-> [addr |-> {}], wrote |-> FALSE, got |-> {}]

\* A crawl asks for the entries of a kind of an account.  One after the end of a
\* vesting is of the spendable balances: it leaves no delay job.
NewCrawl(kind, addr, after, left) == [kind |-> kind, addr |-> addr, after |-> after, left |-> left]

Of(es, job) == {e \in es : e.kind = job.kind /\ e.addr = job.addr}

DelayInit ==
    /\ clock = 0
    /\ pending = {} /\ begun = {} /\ account = {}
    /\ delayJobs = EmptyBag /\ delaySends = EmptyBag /\ deletes = EmptyBag /\ delayCrawlJobs = EmptyBag
    /\ delayWorker = [w \in DelayWorkers |-> Off]
    /\ excusedEntries = {}
    /\ delayFailures = 0 /\ crashes = 0

\* A transaction begins an entry; handle.address creates a job of its crawler.
Begin(e) ==
    /\ e \notin begun
    /\ clock < e.at
    /\ begun' = begun \union {e}
    /\ pending' = pending \union {e}
    /\ delayCrawlJobs' = delayCrawlJobs (+) SetToBag({NewCrawl(e.kind, e.addr, FALSE, DelayAttempts)})
    /\ UNCHANGED <<clock, account, delayJobs, delaySends, deletes, delayWorker, excusedEntries, delayFailures, crashes>>

\* The chain ends an entry with a block that is not older than its end.
Mature(e) ==
    /\ e \in pending
    /\ e.at <= clock
    /\ pending' = pending \ {e}
    /\ UNCHANGED <<clock, begun, account, delayJobs, delaySends, deletes, delayCrawlJobs, delayWorker, excusedEntries,
                   delayFailures, crashes>>

Tick ==
    /\ clock < MaxTime
    /\ \A e \in pending : clock < e.at + Lateness
    /\ clock' = clock + 1
    /\ UNCHANGED <<pending, begun, account, delayJobs, delaySends, deletes, delayCrawlJobs, delayWorker, excusedEntries,
                   delayFailures, crashes>>

-----------------------------------------------------------------------------
\* A crawler looks the account up and reads its entries from the network.
ReadEntries(w, kind) ==
    /\ ~delayWorker[w].on
    /\ \E job \in {j \in BagToSet(delayCrawlJobs) : j.kind = kind} :
          /\ delayCrawlJobs' = delayCrawlJobs (-) SetToBag({job})
          /\ delayWorker' = [delayWorker EXCEPT ![w] =
                 [on |-> TRUE, job |-> job, wrote |-> FALSE, got |-> Of(pending, job)]]
    /\ UNCHANGED <<clock, pending, begun, account, delayJobs, delaySends, deletes, excusedEntries, delayFailures,
                   crashes>>

\* It writes them,
WriteEntries(w) ==
    /\ delayWorker[w].on /\ ~delayWorker[w].wrote
    /\ account' = (account \ Of(account, delayWorker[w].job)) \union delayWorker[w].got
    /\ delayWorker' = [delayWorker EXCEPT ![w].wrote = TRUE]
    /\ UNCHANGED <<clock, pending, begun, delayJobs, delaySends, deletes, delayCrawlJobs, excusedEntries, delayFailures,
                   crashes>>

\* The delay jobs of a set of entries: a validator's is for the first of them.
JobsFor(es) ==
    {[kind |-> e.kind, addr |-> e.addr, at |-> e.at] :
        e \in {d \in es : \A f \in es : f.val = d.val => d.at <= f.at}}

\* Variant for the mutants: a delay job is stored unless the account has one.
AddFirstDelayJob(w) ==
    LET job  == delayWorker[w].job
        jobs == IF (job.kind = Vesting /\ job.after) \/ (\E j \in BagToSet(delayJobs) : j.addr = job.addr)
                THEN {} ELSE JobsFor(delayWorker[w].got)
    IN /\ delayWorker[w].wrote
       /\ delayJobs' = delayJobs (+) SetToBag(jobs)
       /\ delayWorker' = [delayWorker EXCEPT ![w] = Off]
       /\ UNCHANGED <<clock, pending, begun, account, delaySends, deletes, delayCrawlJobs, excusedEntries, delayFailures,
                      crashes>>

\* and stores their delay jobs; an insert that fails is only logged.
AddNewJobs(w) ==
    LET job  == delayWorker[w].job
        jobs == IF job.kind = Vesting /\ job.after THEN {} ELSE JobsFor(delayWorker[w].got)
    IN /\ delayWorker[w].wrote
       /\ \E added \in SUBSET jobs :
             /\ delayFailures + Cardinality(jobs \ added) <= MaxDelayFailures
             /\ delayFailures' = delayFailures + Cardinality(jobs \ added)
             /\ delayJobs' = delayJobs (+) SetToBag(added)
             \* A vesting whose balance is read before the chain has ended it.
             /\ excusedEntries' = IF added # jobs \/ (job.kind = Vesting /\ job.after /\ delayWorker[w].got # {})
                           THEN excusedEntries \union {<<job.kind, job.addr>>} ELSE excusedEntries
       /\ delayWorker' = [delayWorker EXCEPT ![w] = Off]
       /\ UNCHANGED <<clock, pending, begun, account, delaySends, deletes, delayCrawlJobs, crashes>>

\* A call of a crawler fails before it has written: another attempt, if one is left.
DelayCrawlFails(w) ==
    LET job == delayWorker[w].job
    IN /\ delayWorker[w].on /\ ~delayWorker[w].wrote
       /\ delayFailures < MaxDelayFailures
       /\ delayFailures' = delayFailures + 1
       /\ IF job.left > 1
          THEN /\ delayCrawlJobs' = delayCrawlJobs (+) SetToBag({[job EXCEPT !.left = @ - 1]})
               /\ UNCHANGED excusedEntries
          ELSE /\ excusedEntries' = excusedEntries \union {<<job.kind, job.addr>>}
               /\ UNCHANGED delayCrawlJobs
       /\ delayWorker' = [delayWorker EXCEPT ![w] = Off]
       /\ UNCHANGED <<clock, pending, begun, account, delayJobs, delaySends, deletes, crashes>>

\* A crawler dies, maybe when some of its delay jobs are stored; its job runs again.
CrawlerDies(w) ==
    /\ delayWorker[w].on
    /\ crashes < MaxDelayCrashes
    /\ crashes' = crashes + 1
    /\ \E added \in SUBSET (IF delayWorker[w].wrote THEN JobsFor(delayWorker[w].got) ELSE {}) :
          delayJobs' = IF delayWorker[w].job.after /\ delayWorker[w].job.kind = Vesting
                       THEN delayJobs ELSE delayJobs (+) SetToBag(added)
    /\ delayCrawlJobs' = delayCrawlJobs (+) SetToBag({delayWorker[w].job})
    /\ delayWorker' = [delayWorker EXCEPT ![w] = Off]
    /\ UNCHANGED <<clock, pending, begun, account, delaySends, deletes, excusedEntries, delayFailures>>

-----------------------------------------------------------------------------
\* findPendingJobs pages through the collection by expire_time and stops at 1000:
\* a round finds the MaxFound first, and what it leaves another one finds.
FindPendingJobs ==
    {job \in BagToSet(delayJobs) :
        BagCardinality([j \in {i \in BagToSet(delayJobs) : i.at < job.at} |-> delayJobs[j]]) < MaxFound}

\* The repeated job reads the delay jobs.  For each that has expired (a tick is
\* the 7 s the code allows for) it creates the crawls and asks for the deletion.
HandleDelayJobs ==
    LET due == [job \in {j \in FindPendingJobs : j.at < clock} |-> delayJobs[job]]
    IN /\ deletes = EmptyBag
       /\ due # EmptyBag
       /\ delaySends' = delaySends (+) due
       /\ deletes' = due
       /\ UNCHANGED <<clock, pending, begun, account, delayJobs, delayCrawlJobs, delayWorker, excusedEntries,
                      delayFailures, crashes>>

CrawlLands ==
    /\ \E job \in BagToSet(delaySends) :
          /\ delaySends' = delaySends (-) SetToBag({job})
          /\ delayCrawlJobs' = delayCrawlJobs (+) SetToBag({NewCrawl(job.kind, job.addr, TRUE, 1)})
    /\ UNCHANGED <<clock, pending, begun, account, delayJobs, deletes, delayWorker, excusedEntries, delayFailures,
                   crashes>>

\* deleteFinishedJob removes the job by its _id.
DeleteLands ==
    /\ \E job \in BagToSet(deletes) :
          /\ deletes' = deletes (-) SetToBag({job})
          /\ delayJobs' = delayJobs (-) SetToBag({job})
    /\ UNCHANGED <<clock, pending, begun, account, delaySends, delayCrawlJobs, delayWorker, excusedEntries, delayFailures,
                   crashes>>

\* A delete that fails leaves the job for the next round.
DeleteFails ==
    /\ delayFailures < MaxDelayFailures
    /\ delayFailures' = delayFailures + 1
    /\ \E job \in BagToSet(deletes) : deletes' = deletes (-) SetToBag({job})
    /\ UNCHANGED <<clock, pending, begun, account, delayJobs, delaySends, delayCrawlJobs, delayWorker, excusedEntries,
                   crashes>>

\* What may have been taken out of a bag.
PartsOf(bag) ==
    {part \in [BagToSet(bag) -> 0 .. BagCardinality(bag)] : \A x \in BagToSet(bag) : part[x] <= bag[x]}

\* The process of handle.delay-job dies with the crawls it has not sent; the
\* deletes it has asked for may be carried out all the same.
DelayHandlerDies ==
    /\ delaySends # EmptyBag \/ deletes # EmptyBag
    /\ crashes < MaxDelayCrashes
    /\ crashes' = crashes + 1
    /\ \E done \in PartsOf(deletes) : delayJobs' = delayJobs (-) done
    /\ excusedEntries' = excusedEntries \union {<<job.kind, job.addr>> : job \in BagToSet(delaySends)}
    /\ delaySends' = EmptyBag
    /\ deletes' = EmptyBag
    /\ UNCHANGED <<clock, pending, begun, account, delayCrawlJobs, delayWorker, delayFailures>>

DelayChainNext == \/ \E e \in Entries : Begin(e) \/ Mature(e)
             \/ Tick

DelayCrawl(kind) ==
    \E w \in DelayWorkers :
        \/ ReadEntries(w, kind)
        \/ /\ delayWorker[w].on
           /\ delayWorker[w].job.kind = kind
           /\ WriteEntries(w) \/ AddNewJobs(w) \/ DelayCrawlFails(w) \/ CrawlerDies(w)

\* The services: they differ in the entries they ask for.
CrawlUnbonds == DelayCrawl(Unbond)

CrawlRedelegates == DelayCrawl(Redelegate)

CrawlAuthInfo == DelayCrawl(Vesting)

DelayHandlerNext == HandleDelayJobs \/ CrawlLands \/ DeleteLands

DelayNext ==
    \/ DelayChainNext
    \/ CrawlUnbonds \/ CrawlRedelegates \/ CrawlAuthInfo
    \/ DelayHandlerNext
    \/ DeleteFails
    \/ DelayHandlerDies

DelayFairness ==
    /\ WF_delayVars(Tick) /\ \A e \in Entries : WF_delayVars(Mature(e))
    /\ \A w \in DelayWorkers :
          /\ \A kind \in DelayKinds : WF_delayVars(ReadEntries(w, kind))
          /\ WF_delayVars(WriteEntries(w))
          /\ WF_delayVars(AddNewJobs(w))
    /\ WF_delayVars(HandleDelayJobs) /\ WF_delayVars(CrawlLands) /\ WF_delayVars(DeleteLands)

DelaySpec == DelayInit /\ [][DelayNext]_delayVars

-----------------------------------------------------------------------------
DelayJob == [kind : DelayKinds, addr : DelayAddresses, at : Nat]
CrawlJob == [kind : DelayKinds, addr : DelayAddresses, after : BOOLEAN, left : Nat]

\* Entries of the chain, bags of jobs, deletes of jobs that are there, and workers
\* that have found entries of the account of their job.
DelayTypeOK ==
    /\ pending \union account \subseteq begun /\ begun \subseteq Entries
    /\ \A bag \in {delayJobs, delaySends, deletes, delayCrawlJobs} : IsABag(bag)
    /\ BagToSet(delayJobs) \union BagToSet(delaySends) \subseteq DelayJob
    /\ BagToSet(delayCrawlJobs) \subseteq CrawlJob
    /\ deletes \sqsubseteq delayJobs
    /\ delayWorker \in [DelayWorkers ->
           {Off} \union [on : {TRUE}, job : CrawlJob, wrote : BOOLEAN, got : SUBSET Entries]]
    /\ \A w \in DelayWorkers : delayWorker[w].on =>
           delayWorker[w].got \subseteq Of(begun, delayWorker[w].job)

\* Something will look at an entry again, no earlier than it can have ended.
Watched(e) ==
    LET SameKind(job) == job.kind = e.kind /\ job.addr = e.addr
    IN \/ \E job \in BagToSet(delayJobs) : SameKind(job) /\ job.at <= e.at
       \/ \E job \in BagToSet(delaySends) \union BagToSet(delayCrawlJobs) : SameKind(job)
       \/ \E w \in DelayWorkers : delayWorker[w].on /\ SameKind(delayWorker[w].job)

\* handle-delay-job.service.ts:156: the entries an account shows do not stay for
\* ever.  Each has a delay job or a crawl that will look at it again, also after
\* crashes between the crawls and the deletes, unless a failure lost that one.
EntriesAreWatched ==
    \A e \in account : Watched(e) \/ <<e.kind, e.addr>> \in excusedEntries

\* So what has ended on the chain leaves the account in the end.
EndedLeaves ==
    DelayFairness =>
        \A e \in Entries :
            e \in account \ pending ~> e \notin account \/ <<e.kind, e.addr>> \in excusedEntries

-----------------------------------------------------------------------------
\* Why it holds: the watch over an entry is a delay job with a copy that is not
\* being deleted, a crawl on its way, or a worker that has yet to write or has
\* written this entry, so that its delay job is next.
HowMany(x, bag) == IF x \in DOMAIN bag THEN bag[x] ELSE 0

OfEntry(job, e) == job.kind = e.kind /\ job.addr = e.addr

JobStays(e) ==
    \E job \in BagToSet(delayJobs) :
        OfEntry(job, e) /\ job.at <= e.at /\ HowMany(job, deletes) < HowMany(job, delayJobs)

CrawlComes(e) == \E job \in BagToSet(delaySends) \union BagToSet(delayCrawlJobs) : OfEntry(job, e)

WorkerLooks(e) ==
    \E w \in DelayWorkers :
        /\ delayWorker[w].on /\ OfEntry(delayWorker[w].job, e)
        /\ delayWorker[w].wrote => e \in delayWorker[w].got

Kept(e) == JobStays(e) \/ CrawlComes(e) \/ WorkerLooks(e)

EntriesAreKept == \A e \in account : Kept(e) \/ <<e.kind, e.addr>> \in excusedEntries
=============================================================================
