-------------------------------- MODULE Accounts --------------------------------
(* services/crawl-account-info/handle-address.service.ts: finds the accounts   *)
(* that a list of transactions touches, inserts those that are missing, and    *)
(* creates a job for each crawler of their fields.  The queue handler is       *)
(* awaited, the handler of the action accountinfoupsert is not, so both run    *)
(* at a time.                                                                  *)
EXTENDS Naturals, FiniteSets, SequencesExt

CONSTANTS
    Addresses,
    Crawlers,           \* the queues crawl.account-...
    QueueHandlers,      \* jobs of handle.address that may run at a time
    ApiHandlers,        \* calls of accountinfoupsert that may run at a time
    AddressTxs,         \* [list : addresses in order, each once, crawlers : what it changes]
    CrawlAttempts,      \* BULL_JOB_ATTEMPT
    MaxUpserts,         \* bound: calls of accountinfoupsert
    MaxHandlerDeaths    \* bound: crashes of the process, one a job at most

\* Duplicates are filtered out of the list (handle-address.service.ts:140).
ASSUME HandleAddressAssumption ==
    /\ AddressTxs \subseteq [list : Seq(Addresses), crawlers : SUBSET Crawlers]
    /\ \A tx \in AddressTxs : IsInjective(tx.list)
    /\ IsFiniteSet(QueueHandlers)
    /\ CrawlAttempts \in Nat \ {0}
    /\ MaxUpserts \in Nat
    /\ MaxHandlerDeaths \in 0 .. 1

AddressHandlers == QueueHandlers \union ApiHandlers

VARIABLES
    chainFields,        \* chainFields[c][a]: version of the field c of account a
    happened,           \* transactions of the chain so far
    accounts,           \* addresses in account_info
    addressRequests,    \* wait list of handle.address
    handler,            \* handler[h]: its transaction, and the accounts it found
    crawlJobs,          \* crawlJobs[c]: wait list of [list, left : attempts left]
    refused,            \* history: addresses behind a duplicate of a bulkWrite
    upserts, handlerDeaths  \* calls of the action and crashes so far

addressVars == <<chainFields, happened, accounts, addressRequests, handler, crawlJobs, refused, upserts,
                 handlerDeaths>>

Elements(list) == {list[i] : i \in DOMAIN list}

NoRequest == [tx |-> [list |-> <<>>, crawlers |-> {}], found |-> {}]

HandleAddressInit ==
    /\ chainFields = [c \in Crawlers |-> [a \in Addresses |-> 1]]
    /\ happened = {}
    /\ accounts = {}
    /\ addressRequests = <<>>
    /\ handler = [h \in AddressHandlers |-> NoRequest]
    /\ crawlJobs = [c \in Crawlers |-> <<>>]
    /\ refused = {}
    /\ upserts = 0 /\ handlerDeaths = 0

\* A transaction changes fields of accounts; list-tx.upsert creates a job for it.
TxHappens(tx) ==
    /\ tx \in AddressTxs \ happened
    /\ happened' = happened \union {tx}
    /\ chainFields' = [c \in Crawlers |-> [a \in Addresses |->
                    IF c \in tx.crawlers /\ a \in Elements(tx.list)
                    THEN chainFields[c][a] + 1 ELSE chainFields[c][a]]]
    /\ addressRequests' = Append(addressRequests, tx)
    /\ UNCHANGED <<accounts, handler, crawlJobs, refused, upserts, handlerDeaths>>

\* A request with the accounts it finds.
Found(tx) == [tx |-> tx, found |-> accounts \intersect Elements(tx.list)]

\* The addresses and the crawlers are read off the transaction, and the accounts
\* that exist are looked up.
FindExisting(h) ==
    /\ handler[h] = NoRequest
    /\ addressRequests # <<>>
    /\ handler' = [handler EXCEPT ![h] = Found(Head(addressRequests))]
    /\ addressRequests' = Tail(addressRequests)
    /\ UNCHANGED <<chainFields, happened, accounts, crawlJobs, refused, upserts, handlerDeaths>>

\* The API asks for an account it does not know, or finds incomplete; every field
\* is crawled.
Upsert(h, a) ==
    /\ upserts < MaxUpserts
    /\ handler[h] = NoRequest
    /\ upserts' = upserts + 1
    /\ handler' = [handler EXCEPT ![h] = Found([list |-> <<a>>, crawlers |-> Crawlers])]
    /\ UNCHANGED <<chainFields, happened, accounts, addressRequests, crawlJobs, refused, handlerDeaths>>

\* One ordered bulkWrite inserts the accounts that were not found.  It stops at an
\* address that another handler has inserted meanwhile (account-info.model.ts:9),
\* which is only logged, and the crawlers get their jobs for all the addresses.
\* A crash that loses these jobs finds this one unfinished: it is HandlerDies.
InsertMissing(h) ==
    LET tx      == handler[h].tx
        new     == {i \in DOMAIN tx.list : tx.list[i] \notin handler[h].found}
        done(i) == \A j \in new : tx.list[j] \in accounts => i < j
    IN /\ handler[h] # NoRequest
       /\ accounts' = accounts \union {tx.list[i] : i \in {j \in new : done(j)}}
       /\ refused' = refused \union {tx.list[i] : i \in {j \in new : ~done(j)}}
       /\ crawlJobs' = [c \in Crawlers |->
              IF c \in tx.crawlers
              THEN Append(crawlJobs[c], [list |-> tx.list, left |-> CrawlAttempts])
              ELSE crawlJobs[c]]
       /\ handler' = [handler EXCEPT ![h] = NoRequest]
       /\ UNCHANGED <<chainFields, happened, addressRequests, upserts, handlerDeaths>>

\* The process dies.  Its jobs are run again, its calls are not.
HandlerDies ==
    LET jobs == {handler[h].tx : h \in QueueHandlers} \ {NoRequest.tx}
    IN /\ handlerDeaths < MaxHandlerDeaths
       /\ \E h \in AddressHandlers : handler[h] # NoRequest
       /\ handlerDeaths' = handlerDeaths + 1
       /\ addressRequests' = SetToSeq(jobs) \o addressRequests
       /\ handler' = [h \in AddressHandlers |-> NoRequest]
       /\ UNCHANGED <<chainFields, happened, accounts, crawlJobs, refused, upserts>>

HandleAddressNext ==
    \/ \E tx \in AddressTxs : TxHappens(tx)
    \/ \E h \in QueueHandlers : FindExisting(h)
    \/ \E h \in ApiHandlers, a \in Addresses : Upsert(h, a)
    \/ \E h \in AddressHandlers : InsertMissing(h)
    \/ HandlerDies

HandleAddressFairness ==
    /\ \A h \in QueueHandlers : WF_addressVars(FindExisting(h))
    /\ \A h \in AddressHandlers : WF_addressVars(InsertMissing(h))

-----------------------------------------------------------------------------
(* The crawlers of services/crawl-account-info, each with its queue: for every *)
(* address of a job they look the account up and ask the network for one field *)
(* of it; then they write the fields of all the addresses, and only those.     *)

CONSTANTS
    Balances, SpendableBalances, Delegates,  \* the crawlers
    CrawlWorkers,       \* jobs of a crawler that may run at a time
    MaxCrawlFailures    \* bound: failing calls of the network, and crashes

ASSUME AccountCrawlAssumption ==
    /\ Crawlers \subseteq {Balances, SpendableBalances, Delegates}
    /\ IsFiniteSet(CrawlWorkers)
    /\ MaxCrawlFailures \in Nat

VARIABLES
    storedFields,       \* storedFields[c][a]: version of the field in account_info, 0 if none
    crawlWorker,        \* crawlWorker[c][k]: its job, the addresses left, the answers
    overtaken,          \* history: fields over which an older answer was written, until what
                        \* the chain has is written
    givenUp,            \* history: fields of a job that failed at its last attempt
    crawlFailures

crawlVars == <<storedFields, crawlWorker, overtaken, givenUp, crawlFailures>>
accountVars == <<addressVars, crawlVars>>

Resting == [job |-> [list |-> <<>>, left |-> 0], got |-> <<>>]

AccountCrawlInit ==
    /\ HandleAddressInit
    /\ storedFields = [c \in Crawlers |-> [a \in Addresses |-> 0]]
    /\ crawlWorker = [c \in Crawlers |-> [k \in CrawlWorkers |-> Resting]]
    /\ overtaken = {} /\ givenUp = {}
    /\ crawlFailures = 0

StartFieldCrawl(c, k) ==
    /\ crawlWorker[c][k] = Resting
    /\ crawlJobs[c] # <<>>
    /\ crawlWorker' = [crawlWorker EXCEPT ![c][k] = [job |-> Head(crawlJobs[c]), got |-> <<>>]]
    /\ crawlJobs' = [crawlJobs EXCEPT ![c] = Tail(@)]
    /\ UNCHANGED <<chainFields, happened, accounts, addressRequests, handler, refused, upserts, handlerDeaths,
                   storedFields, overtaken, givenUp, crawlFailures>>

\* The address a worker is at: the answers it has are those of the addresses before.
Current(c, k) == crawlWorker[c][k].job.list[Len(crawlWorker[c][k].got) + 1]

AtAddress(c, k) == Len(crawlWorker[c][k].got) < Len(crawlWorker[c][k].job.list)

\* The account is found, and the pages of its field are read from the network.
CrawlAddress(c, k) ==
    /\ AtAddress(c, k)
    /\ Current(c, k) \in accounts
    /\ crawlWorker' = [crawlWorker EXCEPT ![c][k].got = Append(@, chainFields[c][Current(c, k)])]
    /\ UNCHANGED <<addressVars, storedFields, overtaken, givenUp, crawlFailures>>

\* The job of a worker fails: it waits for its next attempt, or its fields stay
\* what they are.
GiveBack(c, k) ==
    LET job == crawlWorker[c][k].job
    IN /\ crawlWorker' = [crawlWorker EXCEPT ![c][k] = Resting]
       /\ IF job.left > 1
          THEN /\ crawlJobs' = [crawlJobs EXCEPT ![c] =
                                   Append(@, [list |-> job.list, left |-> job.left - 1])]
               /\ UNCHANGED givenUp
          ELSE /\ givenUp' = givenUp \union {<<c, a>> : a \in Elements(job.list)}
               /\ UNCHANGED crawlJobs
       /\ UNCHANGED <<chainFields, happened, accounts, addressRequests, handler, refused, upserts,
                      handlerDeaths, storedFields, overtaken>>

\* There is no account to set the field of, which throws.
CrawlMissing(c, k) ==
    /\ AtAddress(c, k)
    /\ Current(c, k) \notin accounts
    /\ GiveBack(c, k)
    /\ UNCHANGED crawlFailures

\* A call of the network or of the database throws.
FieldCrawlFails(c, k) ==
    /\ crawlWorker[c][k] # Resting
    /\ crawlFailures < MaxCrawlFailures
    /\ crawlFailures' = crawlFailures + 1
    /\ GiveBack(c, k)

\* Variant for the mutants: of a list only the last account is updated.
WriteLastAnswer(c, k) ==
    LET list == crawlWorker[c][k].job.list
    IN /\ crawlWorker[c][k] # Resting
       /\ ~AtAddress(c, k)
       /\ storedFields' = [storedFields EXCEPT ![c][Last(list)] = crawlWorker[c][k].got[Len(list)]]
       /\ crawlWorker' = [crawlWorker EXCEPT ![c][k] = Resting]
       /\ UNCHANGED <<addressVars, overtaken, givenUp, crawlFailures>>

\* The fields are written, each to its account.
WriteAnswers(c, k) ==
    LET list == crawlWorker[c][k].job.list
        got  == crawlWorker[c][k].got
        new  == [a \in Elements(list) |-> got[CHOOSE i \in DOMAIN list : list[i] = a]]
    IN /\ crawlWorker[c][k] # Resting
       /\ ~AtAddress(c, k)
       /\ storedFields' = [storedFields EXCEPT ![c] =
                              [a \in Addresses |-> IF a \in DOMAIN new THEN new[a] ELSE @[a]]]
       /\ overtaken' = (overtaken \ {<<c, a>> : a \in {b \in DOMAIN new : new[b] = chainFields[c][b]}})
                       \union {<<c, a>> : a \in {b \in DOMAIN new : new[b] < storedFields[c][b]}}
       /\ crawlWorker' = [crawlWorker EXCEPT ![c][k] = Resting]
       /\ UNCHANGED <<addressVars, givenUp, crawlFailures>>

CrawlField(c, k) ==
    StartFieldCrawl(c, k) \/ CrawlAddress(c, k) \/ CrawlMissing(c, k) \/ FieldCrawlFails(c, k) \/ WriteAnswers(c, k)

\* The services: they differ in the field and in the path they ask for.
CrawlBalances == Balances \in Crawlers /\ \E k \in CrawlWorkers : CrawlField(Balances, k)

CrawlSpendableBalances == SpendableBalances \in Crawlers /\ \E k \in CrawlWorkers : CrawlField(SpendableBalances, k)

CrawlDelegates == Delegates \in Crawlers /\ \E k \in CrawlWorkers : CrawlField(Delegates, k)

AccountNext ==
    \/ HandleAddressNext /\ UNCHANGED crawlVars
    \/ CrawlBalances
    \/ CrawlSpendableBalances
    \/ CrawlDelegates

AccountSpec == AccountCrawlInit /\ [][AccountNext]_accountVars

CrawlFairness ==
    \A c \in Crawlers, k \in CrawlWorkers :
        /\ WF_accountVars(StartFieldCrawl(c, k))
        /\ WF_accountVars(CrawlAddress(c, k) \/ CrawlMissing(c, k))
        /\ WF_accountVars(WriteAnswers(c, k))

AccountFairness == HandleAddressFairness /\ CrawlFairness

-----------------------------------------------------------------------------
\* Accounts are addresses, versions are those of the chain.
AccountTypeOK ==
    /\ accounts \union refused \subseteq Addresses
    /\ \A c \in Crawlers, a \in Addresses : storedFields[c][a] \in 0 .. chainFields[c][a]
    /\ \A c \in Crawlers, k \in CrawlWorkers : crawlWorker[c][k].job.left \in 0 .. CrawlAttempts

\* handle-address.service.ts:203: whoever is crawled has been inserted, unless the
\* bulkWrite stopped at an account that another handler inserted first.
CrawledIsInserted ==
    \A c \in Crawlers :
        /\ \A i \in DOMAIN crawlJobs[c] : Elements(crawlJobs[c][i].list) \subseteq accounts \union refused
        /\ \A k \in CrawlWorkers : Elements(crawlWorker[c][k].job.list) \subseteq accounts \union refused

\* Nothing that is under way will ask for this field of this account.
AtRest(c, a) ==
    /\ \A i \in DOMAIN addressRequests : ~(a \in Elements(addressRequests[i].list) /\ c \in addressRequests[i].crawlers)
    /\ \A h \in AddressHandlers : ~(a \in Elements(handler[h].tx.list) /\ c \in handler[h].tx.crawlers)
    /\ \A i \in DOMAIN crawlJobs[c] : a \notin Elements(crawlJobs[c][i].list)
    /\ \A k \in CrawlWorkers : a \notin Elements(crawlWorker[c][k].job.list)

Changed(c, a) == \E tx \in happened : a \in Elements(tx.list) /\ c \in tx.crawlers

\* When nothing is under way for a field, the account shows what the network
\* answers, unless a job for it failed for good or a slow worker wrote an older
\* answer over a newer one.
FreshAtRest ==
    \A c \in Crawlers, a \in Addresses :
        AtRest(c, a) /\ Changed(c, a) /\ <<c, a>> \notin overtaken \union givenUp
            => storedFields[c][a] = chainFields[c][a]

\* With one worker a crawler overtakes nobody, so a field never goes back.
AloneNeverGoesBack ==
    [][Cardinality(CrawlWorkers) = 1 =>
           \A c \in Crawlers, a \in Addresses : storedFields'[c][a] >= storedFields[c][a]]_accountVars

\* The accounts, with handlers, crawlers and their workers side by side: what is crawled is
\* there, and shows at rest what the chain last made of it; a crawler that works alone never
\* takes a field back (handle-address.service.ts:48-240,
\* crawl-account-balances.service.ts:39-161).
AccountsFollowChain ==
    [](AccountTypeOK /\ CrawledIsInserted /\ FreshAtRest) /\ AloneNeverGoesBack

\* A change that the chain makes is seen in the end, or given up or overwritten.
ChangesArrive ==
    AccountFairness =>
        \A c \in Crawlers, a \in Addresses :
            Changed(c, a) ~> \/ storedFields[c][a] = chainFields[c][a]
                             \/ <<c, a>> \in overtaken \union givenUp
=============================================================================
