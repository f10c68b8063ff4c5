-------------------------------- MODULE Paging --------------------------------
(* The lists of services/api-service.  A client asks for page after page with  *)
(* the nextKey of the last answer, while documents are stored and change.  Each *)
(* handler sorts, filters by the key and makes the next one in a way of its    *)
(* own.  A document is its place in docs, which is the order of _id, and the    *)
(* rank that lists are sorted by: height, proposal id, timestamp, power.        *)
EXTENDS Naturals, Sequences, FiniteSets, FiniteSetsExt, SequencesExt

CONSTANTS
    Endpoints,          \* the lists a client may ask for
    Reversed,           \* those it may ask for oldest first
    MaxLimit,           \* bound: documents of a page
    MaxRank,            \* bound: ranks
    MaxDocs,            \* bound: documents
    MaxPageChanges      \* bound: changes of a rank

ASSUME PagingAssumption ==
    /\ Endpoints \subseteq {"txs", "txsFrom", "powerEvents", "blocks", "votes", "grants", "inactive", "owned",
                            "assets", "validators", "params", "proposals", "contracts"}
    /\ MaxLimit \in Nat \ {0} /\ {MaxRank, MaxDocs, MaxPageChanges} \subseteq Nat

VARIABLES
    docs,       \* the collection: the rank of each document
    requested,  \* what the client asks for: [of, reverse, limit]
    cursor,     \* the nextKey: <<[id, rank]>>, or <<>> for the first page
    atEnd,      \* the last answer had no nextKey
    first,      \* history: documents there were at the first request
    received,   \* history: documents that were returned
    twice,      \* history: documents that were returned more than once
    touched,    \* history: documents whose rank changed
    pageChanges

pagingVars == <<docs, requested, cursor, atEnd, first, received, twice, touched, pageChanges>>

\* A block has a height of its own, a proposal an id.
UniqueRanks(e) == e \in {"blocks", "proposals"}

\* A vote is overwritten, an asset updated, a validator's power changes.
MayChange(e) == e \in {"votes", "owned", "assets", "validators"}

PagingInit ==
    /\ requested \in [of : Endpoints, reverse : BOOLEAN, limit : 1 .. MaxLimit]
    /\ requested.reverse => requested.of \in Reversed
    /\ docs = <<>> /\ cursor = <<>> /\ atEnd = FALSE
    /\ first = 0 /\ received = {} /\ twice = {} /\ touched = {} /\ pageChanges = 0

StoreDoc(r) ==
    /\ Len(docs) < MaxDocs
    /\ UniqueRanks(requested.of) => \A i \in DOMAIN docs : docs[i] # r
    /\ docs' = Append(docs, r)
    /\ UNCHANGED <<requested, cursor, atEnd, first, received, twice, touched, pageChanges>>

ChangeDoc(i, r) ==
    /\ MayChange(requested.of) /\ docs[i] # r /\ pageChanges < MaxPageChanges
    /\ pageChanges' = pageChanges + 1
    /\ docs' = [docs EXCEPT ![i] = r]
    /\ touched' = IF first > 0 THEN touched \union {i} ELSE touched
    /\ UNCHANGED <<requested, cursor, atEnd, first, received, twice>>

-----------------------------------------------------------------------------
Ids == DOMAIN docs

\* The key of the request, when there is one.
Key == cursor[1]

\* The documents of these, all there are for the first page.
From(ids) == IF cursor = <<>> THEN Ids ELSE ids

\* The documents with an _id beyond the key.
BelowKey == From({i \in Ids : i < Key.id})
AboveKey == From({i \in Ids : i > Key.id})

\* Document i comes before k; documents of one rank come in the order of their _id, up or down.
ComesBefore(i, k, on, down, up) ==
    IF on = "id" \/ (on = "rankId" /\ docs[i] = docs[k]) THEN (i < k) = ~down
    ELSE IF docs[i] = docs[k] THEN (i < k) = up
    ELSE (docs[i] < docs[k]) = ~down

\* The database's answer: at each position the document that so many others come before.
Sorted(ids, on, down, up) ==
    [n \in 1 .. Cardinality(ids) |->
        CHOOSE i \in ids : Cardinality({k \in ids \ {i} : ComesBefore(k, i, on, down, up)}) = n - 1]

FirstOf(s, n) == SubSeq(s, 1, IF n <= Len(s) THEN n ELSE Len(s))

\* One more than the page is asked for: if it comes it is taken off, and the key is of
\* the last that stays.
Peek(s) ==
    [page |-> FirstOf(s, requested.limit), next |-> IF Len(s) <= requested.limit THEN 0 ELSE s[requested.limit]]

\* The key is of the last of the page, while there is one.
LastOfPage(s) ==
    [page |-> FirstOf(s, requested.limit), next |-> IF s = <<>> THEN 0 ELSE Last(FirstOf(s, requested.limit))]

\* transaction: the key is of _id and height.
QueryTxs ==
    IF requested.reverse THEN AboveKey \intersect From({i \in Ids : docs[i] >= Key.rank})
                         ELSE BelowKey \intersect From({i \in Ids : docs[i] <= Key.rank})

\* It is sorted by height alone.
GetTxs(up) == Peek(Sorted(QueryTxs, "rank", ~requested.reverse, up))

\* fromHeight takes the place of the key's height; here all are above it.
GetTxsFrom(up) == Peek(Sorted(IF requested.reverse THEN AboveKey ELSE BelowKey, "rank", ~requested.reverse, up))

\* power-event: sorted by height, with a key of the _id.
GetPowerEvent(up) == Peek(Sorted(BelowKey, "rank", TRUE, up))

\* block: sorted either way by height, with a key that the next page is below.
GetBlocks(up) == Peek(Sorted(From({i \in Ids : docs[i] < Key.rank}), "rank", ~requested.reverse, up))

\* Variant for the mutants: all votes at the height of the key.
GetVotesAt(up) ==
    Peek(Sorted(From({i \in Ids : IF requested.reverse THEN docs[i] >= Key.rank ELSE docs[i] <= Key.rank}),
                "rankId", ~requested.reverse, up))

\* votes: sorted by height and _id, with a key of both.
GetVotes(up) ==
    Peek(Sorted(From({i \in Ids : IF requested.reverse THEN docs[i] > Key.rank \/ (docs[i] = Key.rank /\ i > Key.id)
                                     ELSE docs[i] < Key.rank \/ (docs[i] = Key.rank /\ i < Key.id)}),
                "rankId", ~requested.reverse, up))

\* feegrant: sorted by the timestamp, with a key of the _id.
GetGrants(up) == Peek(Sorted(IF requested.reverse THEN AboveKey ELSE BelowKey, "rank", TRUE, up))
GetGrantsInactive(up) == GetGrants(up)

\* asset: sorted by the last update, with a key of the _id that act-find filters by.
GetByOwner(up) == Peek(Sorted(BelowKey, "rank", TRUE, up))
GetByContractType(up) == LastOfPage(Sorted(BelowKey, "rank", TRUE, up))

\* validator: sorted by power, with a key of the _id.
GetValidators(up) == LastOfPage(Sorted(AboveKey, "rank", TRUE, up))

\* param: sorted by _id, with a key of it.
GetParams(up) == LastOfPage(Sorted(AboveKey, "id", FALSE, up))

\* proposal: sorted by the proposal's id, with a key of it.
GetProposals(up) ==
    Peek(Sorted(From({i \in Ids : IF requested.reverse THEN docs[i] > Key.rank ELSE docs[i] < Key.rank}),
                "rank", ~requested.reverse, up))

\* smart-contracts: sorted by _id, with a key of the first of the next page.
GetContracts(up) ==
    LET s == Sorted(From({i \in Ids : i <= Key.id}), "id", TRUE, up)
    IN [page |-> FirstOf(s, requested.limit),
        next |-> IF Len(s) <= requested.limit THEN 0 ELSE s[requested.limit + 1]]

Answer(up) ==
    CASE requested.of = "txs" -> GetTxs(up)
      [] requested.of = "txsFrom" -> GetTxsFrom(up)
      [] requested.of = "powerEvents" -> GetPowerEvent(up)
      [] requested.of = "blocks" -> GetBlocks(up)
      [] requested.of = "votes" -> GetVotes(up)
      [] requested.of = "grants" -> GetGrants(up)
      [] requested.of = "inactive" -> GetGrantsInactive(up)
      [] requested.of = "owned" -> GetByOwner(up)
      [] requested.of = "assets" -> GetByContractType(up)
      [] requested.of = "validators" -> GetValidators(up)
      [] requested.of = "params" -> GetParams(up)
      [] requested.of = "proposals" -> GetProposals(up)
      [] requested.of = "contracts" -> GetContracts(up)

\* What the client has of an answer.
Receive(a) ==
    /\ received' = received \union ToSet(a.page)
    /\ twice' = twice \union (received \intersect ToSet(a.page))
    /\ cursor' = IF a.next = 0 THEN <<>> ELSE <<[id |-> a.next, rank |-> docs[a.next]]>>
    /\ atEnd' = (a.next = 0)

AskPage(up) ==
    /\ ~atEnd /\ docs # <<>>
    /\ Receive(Answer(up))
    /\ first' = IF first = 0 THEN Len(docs) ELSE first
    /\ UNCHANGED <<docs, requested, touched, pageChanges>>

AskNext == \E up \in BOOLEAN : AskPage(up)

PagingNext ==
    \/ \E r \in 1 .. MaxRank : StoreDoc(r) \/ \E i \in Ids : ChangeDoc(i, r)
    \/ AskNext

PagingSpec == PagingInit /\ [][PagingNext]_pagingVars

-----------------------------------------------------------------------------
\* Keys and answers are of documents that are there.
PagingTypeOK ==
    /\ cursor # <<>> => Key.id \in Ids
    /\ twice \subseteq received /\ received \subseteq Ids
    /\ atEnd => cursor = <<>>

\* The lists whose nextKey is the key they are sorted by.
Keyed == requested.of \in {"votes", "blocks", "proposals", "params", "contracts"}

\* vote.service.ts:106-156, proposal.service.ts:91-134, block.service.ts:132-177,
\* param.service.ts:99-114, smart-contracts.service.ts:82-120: with the last page the
\* client has every document there was at the first, whatever was stored meanwhile.
NothingMissed == Keyed /\ atEnd => 1 .. first \subseteq received \union touched

\* The same: no document comes twice.
NothingTwice == Keyed => twice \subseteq touched

\* Of two documents the later _id has the higher rank; validators: the lower.
InOrder(i, k) ==
    i # k => IF requested.of = "validators" THEN (i < k) = (docs[i] > docs[k]) /\ docs[i] # docs[k]
                                       ELSE (i < k) = (docs[i] < docs[k]) /\ docs[i] # docs[k]

Regular(i) == \A k \in Ids : InOrder(i, k)

\* transaction.service.ts:164-181,438-443, feegrant.service.ts:107-139,
\* asset.service.ts:243-256, validator.service.ts:103-117: a document whose _id is in
\* order with the ranks of all others is returned, and once; only the others may be
\* missed or come twice.
RegularIsListed ==
    touched = {} => \A i \in Ids : Regular(i) => /\ atEnd /\ i <= first => i \in received
                                                /\ i \notin twice

\* The lists of the APIs, page by page while documents are stored and changed: a client that asks
\* to the end has had each document once, where the keys allow it
\* (transaction.service.ts:121-550, vote.service.ts:79-175).
PagesAreWhole ==
    /\ PagingTypeOK
    /\ NothingMissed
    /\ NothingTwice
    /\ RegularIsListed
=============================================================================
