--------------------------- MODULE ServicesProofs ---------------------------
(* Theorems about services beside the two pipelines, for every number of       *)
(* requests, handlers, blocks and failures.  The services share no variable,   *)
(* so each section stands by itself.  Those of assets, contracts, codes and    *)
(* accounts are in AssetProofs.                                                *)
EXTENDS ArchiveTxs, AuraTransactions, ChainDatabases, DelayJobs, Paging, Proposals, TxIndexes, Votes, Websocket,
        BullQueueProofs, SequenceTheorems, FiniteSetTheorems, WellFoundedInduction, TLAPS

-----------------------------------------------------------------------------
(* The databases of the chains (ChainDatabases).                               *)

\* Every adapter a request may use is one of a service, and so are its reads.
DatabaseInv == DatabaseTypeOK /\ ReadsItsChain

LEMMA InitDatabaseInv == DatabaseInit => DatabaseInv
<1> SUFFICES ASSUME DatabaseInit PROVE DatabaseInv
  OBVIOUS
<1>1. DatabaseTypeOK
  BY ChainDatabasesAssumption DEF DatabaseInit, DatabaseTypeOK, Request
<1>2. ReadsItsChain
  BY DEF DatabaseInit, ReadsItsChain
<1> QED
  BY <1>1, <1>2 DEF DatabaseInv

\* What a request reads is of its own chain, or is nothing that has a chain.
OfItsChain(r, what, c) ==
    request[r].chain \in {c, AnyChain} \/ <<request[r].of, what>> \in Chainless

\* A request that goes on is a request.
LEMMA RequestLemma ==
    ASSUME NEW q \in Request, NEW next \in 0 .. 3,
           NEW reads \in SUBSET ((Adapters \union {"assetCount"}) \X Chains)
    PROVE  /\ [q EXCEPT !.at = next, !.reads = reads] \in Request
           /\ [q EXCEPT !.at = next, !.reads = reads].at = next
           /\ [q EXCEPT !.at = next, !.reads = reads].reads = reads
           /\ [q EXCEPT !.at = next, !.reads = reads].of = q.of
           /\ [q EXCEPT !.at = next, !.reads = reads].chain = q.chain
BY DEF Request

\* A read that is right leaves a request right, and the others alone.
LEMMA ReadsLemma ==
    ASSUME DatabaseInv, NEW r \in Requests, NEW what \in Adapters \union {"assetCount"}, NEW c \in Chains,
           NEW next \in 0 .. 3, Reads(r, what, c, next), OfItsChain(r, what, c),
           request[r].chain = AnyChain => next # 2
    PROVE  /\ request' \in [Requests -> Request]
           /\ \A s \in Requests :
                 request'[s].chain = AnyChain => request'[s].of = "owned" /\ request'[s].at # 2
           /\ ReadsItsChain'
<1> USE DEF DatabaseInv, DatabaseTypeOK, Reads
<1>1. /\ \A s \in Requests \ {r} : request'[s] = request[s]
      /\ request'[r].of = request[r].of /\ request'[r].chain = request[r].chain
      /\ request'[r].at = next
      /\ request'[r].reads = request[r].reads \union {<<what, c>>}
  BY DEF Request
<1>2. request' \in [Requests -> Request]
  <2> DEFINE new == [request[r] EXCEPT !.at = next, !.reads = @ \union {<<what, c>>}]
  <2>1. request[r] \in Request
    OBVIOUS
  <2>2. new \in Request
    <3>1. request[r].reads \union {<<what, c>>} \in SUBSET ((Adapters \union {"assetCount"}) \X Chains)
      BY <2>1 DEF Request
    <3> QED
      BY <2>1, <3>1, RequestLemma
  <2>3. request' = [request EXCEPT ![r] = new]
    OBVIOUS
  <2> HIDE DEF new
  <2> QED
    BY <2>2, <2>3
<1>3. \A s \in Requests :
         request'[s].chain = AnyChain => request'[s].of = "owned" /\ request'[s].at # 2
  BY <1>1
<1>4. ReadsItsChain'
  <2> SUFFICES ASSUME NEW s \in Requests, NEW read \in request'[s].reads
               PROVE  \/ request'[s].chain \in {read[2], AnyChain}
                      \/ <<request'[s].of, read[1]>> \in Chainless
    BY DEF ReadsItsChain, Chainless
  <2>1. CASE s = r /\ read = <<what, c>>
    BY <1>1, <2>1 DEF OfItsChain
  <2>2. CASE read \in request[s].reads
    BY <1>1, <2>2 DEF ReadsItsChain
  <2> QED
    BY <1>1, <2>1, <2>2
<1> QED
  BY <1>2, <1>3, <1>4

\* useDb and a query in one stretch: of the chain of the request, if it has one.
LEMMA ReadOwnLemma ==
    ASSUME DatabaseInv, NEW r \in Requests, NEW a \in Adapters, NEW next \in 0 .. 3, ReadOwn(r, a, next),
           request[r].of # "owned" \/ request[r].at = 2
    PROVE  /\ model' \in [Adapters -> Chains]
           /\ request' \in [Requests -> Request]
           /\ \A s \in Requests :
                 request'[s].chain = AnyChain => request'[s].of = "owned" /\ request'[s].at # 2
           /\ ReadsItsChain'
           /\ request[r].chain \in Chains
<1>1. request[r].chain \in Chains
  BY DEF DatabaseInv, DatabaseTypeOK, Request
<1>2. request[r].chain # AnyChain
  BY DEF DatabaseInv, DatabaseTypeOK
<1>3. model' \in [Adapters -> Chains]
  BY <1>1 DEF ReadOwn, UseDb, DatabaseInv, DatabaseTypeOK
<1> QED
  BY <1>1, <1>2, <1>3, ReadsLemma DEF ReadOwn, OfItsChain

LEMMA ServeStep ==
    ASSUME DatabaseInv, NEW r \in Requests, Serve(r)
    PROVE  DatabaseInv'
<1> DEFINE Good == /\ model' \in [Adapters -> Chains]
                   /\ request' \in [Requests -> Request]
                   /\ \A s \in Requests :
                         request'[s].chain = AnyChain => request'[s].of = "owned" /\ request'[s].at # 2
                   /\ ReadsItsChain'
           CachesGood == /\ foundCache' \in [Chains \union {AnyChain} -> Chains \union {Nothing}]
                         /\ \A c \in Chains : foundCache'[c] \in {c, Nothing}
                         /\ countCache' \in Chains \union {Nothing}
<1>0. /\ {"account", "validator", "vote", "asset", "statistics", "holder", "single"} = Adapters
      /\ 0 \in 0 .. 3 /\ 2 \in 0 .. 3 /\ 3 \in 0 .. 3
  BY DEF Adapters
<1>1. CASE GetAccountInfo(r) \/ GetAccountDelegationInfo(r)
  <2>1. ReadOwn(r, "account", 0) /\ request[r].of # "owned"
    BY <1>1 DEF GetAccountInfo, GetAccountDelegationInfo, Is
  <2>2. Good /\ request[r].chain \in Chains
    BY <1>0, <2>1, ReadOwnLemma
  <2>3. (chainAccounts \union crawls \subseteq Chains)' /\ UNCHANGED <<foundCache, countCache>>
    BY <1>1, <2>2 DEF GetAccountInfo, GetAccountDelegationInfo, DatabaseInv, DatabaseTypeOK
  <2> QED
    BY <2>2, <2>3 DEF DatabaseInv, DatabaseTypeOK
<1>2. CASE \/ GetAccountStake(r) \/ GetByAddress(r) \/ GetByCondition(r) \/ GetValidatorVote(r)
           \/ CountVotes(r) \/ GetTopAccounts(r) \/ GetCw20HolderChangePercent(r) \/ GetSingle(r)
  <2>1. /\ request[r].of # "owned"
        /\ \E a \in Adapters, next \in 0 .. 3 : ReadOwn(r, a, next)
    BY <1>0, <1>2
    DEF GetAccountStake, GetByAddress, GetByCondition, GetValidatorVote, CountVotes, GetTopAccounts,
        GetCw20HolderChangePercent, GetSingle, Is
  <2>2. Good
    <3>1. PICK a \in Adapters, next \in 0 .. 3 : ReadOwn(r, a, next)
      BY <2>1
    <3> HIDE DEF Good
    <3>2. Good
      <4> USE DEF Good
      <4> QED
        BY <2>1, <3>1, ReadOwnLemma
    <3> QED
      BY <3>2
  <2>3. UNCHANGED <<chainAccounts, crawls, foundCache, countCache>>
    BY <1>2
    DEF GetAccountStake, GetByAddress, GetByCondition, GetValidatorVote, CountVotes, GetTopAccounts,
        GetCw20HolderChangePercent, GetSingle
  <2> QED
    BY <2>2, <2>3 DEF DatabaseInv, DatabaseTypeOK
<1>3. CASE StakeValidators(r)
  <2>1. /\ Reads(r, "validator", model["validator"], 0)
        /\ OfItsChain(r, "validator", model["validator"])
        /\ model["validator"] \in Chains
    BY <1>0, <1>3 DEF StakeValidators, OfItsChain, Chainless, Is, DatabaseInv, DatabaseTypeOK
  <2>2. UNCHANGED <<model, chainAccounts, crawls, foundCache, countCache>>
    BY <1>3 DEF StakeValidators
  <2>3. Good
    BY <1>0, <2>1, <2>2, ReadsLemma DEF DatabaseInv, DatabaseTypeOK
  <2> QED
    BY <2>2, <2>3 DEF DatabaseInv, DatabaseTypeOK
<1>4. CASE FindOwned(r)
  <2> DEFINE c == request[r].chain
             there == IF c = AnyChain THEN model["asset"] ELSE c
  <2>0. c \in Chains \union {AnyChain} /\ there \in Chains
    BY <1>0 DEF DatabaseInv, DatabaseTypeOK, Request
  <2>1. CASE foundCache[c] # Nothing
    <3>1. foundCache[c] \in Chains /\ c \in {foundCache[c], AnyChain}
      BY <2>0, <2>1 DEF DatabaseInv, DatabaseTypeOK
    <3>2. /\ Reads(r, "asset", foundCache[c], IF c = AnyChain THEN 3 ELSE 2)
          /\ UNCHANGED <<model, foundCache, countCache, chainAccounts, crawls>>
      BY <1>4, <2>1 DEF FindOwned
    <3>3. Good
      <4>1. OfItsChain(r, "asset", foundCache[c])
        BY <3>1 DEF OfItsChain
      <4>2. CASE c = AnyChain
        <5>1. Reads(r, "asset", foundCache[c], 3)
          BY <3>2, <4>2
        <5> QED
          <6>1. /\ request' \in [Requests -> Request]
                /\ \A s \in Requests :
                      request'[s].chain = AnyChain => request'[s].of = "owned" /\ request'[s].at # 2
                /\ ReadsItsChain'
            BY <1>0, <3>1, <4>1, <5>1, ReadsLemma
          <6> QED
            BY <3>2, <6>1 DEF DatabaseInv, DatabaseTypeOK
      <4>3. CASE c # AnyChain
        <5>1. Reads(r, "asset", foundCache[c], 2)
          BY <3>2, <4>3
        <5> QED
          BY <1>0, <3>1, <3>2, <4>1, <4>3, <5>1, ReadsLemma DEF DatabaseInv, DatabaseTypeOK
      <4> QED
        BY <4>2, <4>3
    <3> QED
      BY <3>2, <3>3 DEF DatabaseInv, DatabaseTypeOK
  <2>2. CASE foundCache[c] = Nothing
    <3>1. /\ model' = [model EXCEPT !["asset"] = there]
          /\ Reads(r, "asset", there, 3)
          /\ foundCache' = [foundCache EXCEPT ![c] = there]
          /\ UNCHANGED <<countCache, chainAccounts, crawls>>
      BY <1>4, <2>2 DEF FindOwned, UseDb
    <3>2. OfItsChain(r, "asset", there)
      BY DEF OfItsChain
    <3>3. Good
      <4>1. model' \in [Adapters -> Chains]
        BY <1>0, <2>0, <3>1 DEF DatabaseInv, DatabaseTypeOK
      <4>2. /\ "asset" \in Adapters \union {"assetCount"}
            /\ request[r].chain = AnyChain => 3 # 2
        BY <1>0
      <4>3. /\ request' \in [Requests -> Request]
            /\ \A s \in Requests :
                  request'[s].chain = AnyChain => request'[s].of = "owned" /\ request'[s].at # 2
            /\ ReadsItsChain'
        BY <1>0, <2>0, <3>1, <3>2, <4>2, ReadsLemma
      <4> QED
        BY <4>1, <4>3
    <3>4. CachesGood
      BY <2>0, <3>1, ChainDatabasesAssumption DEF DatabaseInv, DatabaseTypeOK
    <3> QED
      BY <3>1, <3>3, <3>4 DEF DatabaseInv, DatabaseTypeOK
  <2> QED
    BY <2>1, <2>2
<1>5. CASE CountOwned(r)
  <2>1. CASE Is(r, "owned", 2)
    <3>1. /\ ReadOwn(r, "asset", 0) /\ request[r].at = 2
          /\ UNCHANGED <<countCache, chainAccounts, crawls, foundCache>>
      BY <1>5, <2>1 DEF CountOwned, Is
    <3>2. Good
      BY <1>0, <3>1, ReadOwnLemma
    <3> QED
      BY <3>1, <3>2 DEF DatabaseInv, DatabaseTypeOK
  <2>2. CASE ~Is(r, "owned", 2)
    <3>1. /\ countCache' \in Chains
          /\ Reads(r, "assetCount", countCache', 0)
          /\ request[r].of = "owned"
          /\ UNCHANGED <<model, chainAccounts, crawls, foundCache>>
      BY <1>0, <1>5, <2>2 DEF CountOwned, Is, DatabaseInv, DatabaseTypeOK
    <3>2. OfItsChain(r, "assetCount", countCache')
      BY <3>1 DEF OfItsChain, Chainless
    <3>3. Good
      <4>1. /\ request' \in [Requests -> Request]
            /\ \A s \in Requests :
                  request'[s].chain = AnyChain => request'[s].of = "owned" /\ request'[s].at # 2
            /\ ReadsItsChain'
        BY <1>0, <3>1, <3>2, ReadsLemma
      <4> QED
        BY <3>1, <4>1 DEF DatabaseInv, DatabaseTypeOK
    <3> QED
      BY <3>1, <3>3 DEF DatabaseInv, DatabaseTypeOK
  <2> QED
    BY <2>1, <2>2
<1> QED
  BY <1>1, <1>2, <1>3, <1>4, <1>5 DEF Serve

LEMMA NextDatabaseInv == DatabaseInv /\ [DatabaseNext]_databaseVars => DatabaseInv'
<1> SUFFICES ASSUME DatabaseInv, [DatabaseNext]_databaseVars PROVE DatabaseInv'
  OBVIOUS
<1>1. ASSUME NEW r \in Requests, NEW h \in ApiCalls, NEW c \in Chains \union {AnyChain}, Ask(r, h, c)
      PROVE  DatabaseInv'
  <2> DEFINE new == [of |-> h, chain |-> c, at |-> 1, reads |-> {}]
  <2>1. new \in Request
    BY DEF Request
  <2>2. request' = [request EXCEPT ![r] = new] /\ (c = AnyChain => h = "owned")
    BY <1>1 DEF Ask
  <2>3. new.reads = {} /\ new.chain = c /\ new.of = h /\ new.at = 1
    OBVIOUS
  <2> HIDE DEF new
  <2>4. \A s \in Requests : request'[s] = IF s = r THEN new ELSE request[s]
    BY <2>2 DEF DatabaseInv, DatabaseTypeOK
  <2>5. ReadsItsChain'
    BY <2>3, <2>4 DEF DatabaseInv, ReadsItsChain, Chainless
  <2>6. (request \in [Requests -> Request])'
    BY <2>1, <2>2 DEF DatabaseInv, DatabaseTypeOK
  <2>7. \A s \in Requests :
            request'[s].chain = AnyChain => request'[s].of = "owned" /\ request'[s].at # 2
    BY <2>2, <2>3, <2>4 DEF DatabaseInv, DatabaseTypeOK
  <2> QED
    BY <1>1, <2>5, <2>6, <2>7 DEF Ask, DatabaseInv, DatabaseTypeOK
<1>2. CASE ExpireCache
  <2>1. /\ foundCache' \in [Chains \union {AnyChain} -> Chains \union {Nothing}]
        /\ \A c \in Chains : foundCache'[c] \in {c, Nothing}
        /\ countCache' \in Chains \union {Nothing}
    BY <1>2 DEF ExpireCache, DatabaseInv, DatabaseTypeOK
  <2> QED
    BY <1>2, <2>1 DEF ExpireCache, DatabaseInv, DatabaseTypeOK, ReadsItsChain, Chainless
<1>3. ASSUME NEW c \in Chains, AskForCrawl(c)
      PROVE  DatabaseInv'
  BY <1>3 DEF AskForCrawl, DatabaseInv, DatabaseTypeOK, ReadsItsChain, Chainless
<1>4. CASE UNCHANGED databaseVars
  BY <1>4 DEF databaseVars, DatabaseInv, DatabaseTypeOK, ReadsItsChain, Chainless
<1> QED
  BY <1>1, <1>2, <1>3, <1>4, ServeStep DEF DatabaseNext

\* Whatever requests of other chains come between the stretches of a request, what
\* it reads is of its own chain, save for the two reads that know no chain.
THEOREM RequestsReadTheirChain == DatabaseSpec => []ReadsItsChain
<1>1. DatabaseInv => ReadsItsChain
  BY DEF DatabaseInv
<1> QED
  BY <1>1, InitDatabaseInv, NextDatabaseInv, PTL DEF DatabaseSpec
-----------------------------------------------------------------------------
(* The archive of blocks (ArchiveBlocks).                                      *)

\* A list without one of its elements has the others.
LEMMA RemoveLemma ==
    ASSUME NEW D, NEW s \in Seq(D), NEW i \in DOMAIN s
    PROVE  /\ s[i] \in D
           /\ RemoveAt(s, i) \in Seq(D)
           /\ InFlight(s) = InFlight(RemoveAt(s, i)) \union {s[i]}
<1> DEFINE front == SubSeq(s, 1, i - 1)
           back  == SubSeq(s, i + 1, Len(s))
<1>0. /\ DOMAIN s = 1 .. Len(s) /\ Len(s) \in Nat /\ i \in 1 .. Len(s)
      /\ \A j \in 1 .. Len(s) : s[j] \in D
  OBVIOUS
<1>1. /\ front \in Seq(D) /\ DOMAIN front = 1 .. (i - 1)
      /\ \A j \in 1 .. (i - 1) : front[j] = s[j]
  BY <1>0
<1>2. /\ back \in Seq(D) /\ DOMAIN back = 1 .. (Len(s) - i)
      /\ \A j \in 1 .. (Len(s) - i) : back[j] = s[i + j]
  BY <1>0
<1> HIDE DEF front, back
<1>3. front \o back \in Seq(D) /\ InFlight(front \o back) = InFlight(front) \union InFlight(back)
  BY <1>1, <1>2, SendLemma
<1>4. RemoveAt(s, i) = front \o back
  BY DEF RemoveAt, front, back
<1>5. InFlight(front) = {s[j] : j \in 1 .. (i - 1)}
  BY <1>1 DEF InFlight
<1>6. InFlight(back) = {s[j] : j \in (i + 1) .. Len(s)}
  <2>1. InFlight(back) \subseteq {s[j] : j \in (i + 1) .. Len(s)}
    <3> SUFFICES ASSUME NEW k \in 1 .. (Len(s) - i)
                 PROVE  back[k] \in {s[j] : j \in (i + 1) .. Len(s)}
      BY <1>2 DEF InFlight
    <3>1. i + k \in (i + 1) .. Len(s) /\ back[k] = s[i + k]
      BY <1>0, <1>2
    <3> QED
      BY <3>1
  <2>2. {s[j] : j \in (i + 1) .. Len(s)} \subseteq InFlight(back)
    <3> SUFFICES ASSUME NEW j \in (i + 1) .. Len(s)
                 PROVE  s[j] \in InFlight(back)
      OBVIOUS
    <3>1. j - i \in 1 .. (Len(s) - i) /\ i + (j - i) = j
      BY <1>0
    <3> QED
      BY <1>2, <3>1 DEF InFlight
  <2> QED
    BY <2>1, <2>2
<1>7. InFlight(s) = {s[j] : j \in 1 .. (i - 1)} \union {s[i]} \union {s[j] : j \in (i + 1) .. Len(s)}
  <2>1. \A j : j \in 1 .. Len(s) <=> j \in 1 .. (i - 1) \/ j = i \/ j \in (i + 1) .. Len(s)
    BY <1>0
  <2> QED
    BY <1>0, <2>1 DEF InFlight
<1> QED
  BY <1>0, <1>3, <1>4, <1>5, <1>6, <1>7

\* A batch has a lowest block.
LEMMA MinLemma ==
    ASSUME NEW S, S \subseteq Nat, S # {}
    PROVE  Min(S) \in S /\ \A x \in S : Min(S) <= x
<1>1. \E x \in S : \A y \in S : x <= y
  BY LeastLemma
<1> QED
  BY <1>1 DEF Min

Excused == lostCopies \union refusedCopies

\* What a step may do to a block: it leaves its collection for good, it is sent off from
\* there only, it is archived from a copy only, and a copy that is lost leaves a trace.
Relocates ==
    /\ blocks' \subseteq blocks
    /\ Archived \subseteq Archived' /\ Archived' \subseteq Archived \union Copies
    /\ Copies' \subseteq Copies \union blocks
    /\ Excused \subseteq Excused'
    /\ Copies \subseteq Copies' \union Archived' \union Excused'

BlocksInv == BlocksTypeOK /\ NoBlockVanishes /\ SentBeforeDeleted

\* What the lists of batches hold.
LEMMA BatchesLemma ==
    ASSUME BlocksTypeOK
    PROVE  /\ insertSends \in Seq(SUBSET Heights) /\ inserting \in Seq(SUBSET Heights)
           /\ moveTxSends \in Seq(SUBSET Heights)
           /\ insertQueue \in Seq(JobOf(SUBSET Heights)) /\ moveTxQueue \in Seq(JobOf(SUBSET Heights))
           /\ UNION InFlight(insertSends) \subseteq Heights
           /\ UNION InFlight(inserting) \subseteq Heights
           /\ UNION InFlight(moveTxSends) \subseteq Heights
           /\ UNION Waiting(insertQueue) \subseteq Heights
           /\ Copies \subseteq Heights
           /\ Archived \subseteq Heights
<1>1. /\ insertSends \in Seq(SUBSET Heights) /\ inserting \in Seq(SUBSET Heights)
      /\ moveTxSends \in Seq(SUBSET Heights)
      /\ insertQueue \in Seq(JobOf(SUBSET Heights)) /\ moveTxQueue \in Seq(JobOf(SUBSET Heights))
  BY DEF BlocksTypeOK
<1>2. /\ InFlight(insertSends) \subseteq SUBSET Heights
      /\ InFlight(inserting) \subseteq SUBSET Heights
      /\ InFlight(moveTxSends) \subseteq SUBSET Heights
  BY <1>1 DEF InFlight
<1>3. Waiting(insertQueue) \subseteq SUBSET Heights
  BY <1>1, WaitingType
<1>4. Archived \subseteq Heights
  BY DEF BlocksTypeOK, Archived
<1>5. \A X : X \subseteq SUBSET Heights => UNION X \subseteq Heights
  OBVIOUS
<1>6. /\ UNION InFlight(insertSends) \subseteq Heights
      /\ UNION InFlight(inserting) \subseteq Heights
      /\ UNION InFlight(moveTxSends) \subseteq Heights
      /\ UNION Waiting(insertQueue) \subseteq Heights
  BY <1>2, <1>3, <1>5
<1>7. Copies \subseteq Heights
  BY <1>6 DEF Copies
<1> QED
  BY <1>1, <1>4, <1>6, <1>7

\* Where nothing happens to the lists, nothing happens to the copies.
LEMMA CopiesStayLemma ==
    ASSUME UNCHANGED <<insertSends, insertQueue, inserting, archive>>
    PROVE  Copies' = Copies /\ Archived' = Archived
BY DEF Copies, Archived

LEMMA InitBlocksInv == ArchiveBlocksInit => BlocksInv
<1> SUFFICES ASSUME ArchiveBlocksInit PROVE BlocksInv
  OBVIOUS
<1>1. BlocksTypeOK
  BY ArchiveAssumption, EmptyLemma DEF ArchiveBlocksInit, BlocksTypeOK, IdleMover
<1>2. NoBlockVanishes
  BY DEF ArchiveBlocksInit, NoBlockVanishes
<1>3. SentBeforeDeleted
  BY DEF ArchiveBlocksInit, SentBeforeDeleted, IdleMover
<1> QED
  BY <1>1, <1>2, <1>3 DEF BlocksInv

\* The moving process: a batch is sent off when its handler starts to await the delete.
LEMMA CopyOldestStep ==
    ASSUME BlocksInv, NEW m \in Movers, CopyOldest(m)
    PROVE  BlocksTypeOK' /\ Relocates /\ SentBeforeDeleted'
<1> DEFINE oldest == Oldest(blocks)
           old == {h \in oldest : IsOld(h)}
<1>1. old \subseteq blocks /\ old \in SUBSET Heights
  BY DEF Oldest, BlocksInv, BlocksTypeOK
<1>2. /\ moveJobs > 0 /\ moveJobs' = moveJobs - 1
      /\ IF old = {} THEN UNCHANGED <<mover, insertSends>>
         ELSE /\ mover' = [mover EXCEPT ![m] = [batch |-> old, again |-> old = oldest]]
              /\ insertSends' = Append(insertSends, old)
      /\ UNCHANGED <<now, blocks, insertQueue, moveTxSends, moveTxQueue, lostCopies,
                     lostMoveTxs, moverCrashes, archiverVars>>
  BY DEF CopyOldest
<1>3. CASE old = {}
  <2>1. Copies' = Copies /\ Archived' = Archived
    BY <1>2, <1>3, CopiesStayLemma DEF archiverVars
  <2>2. BlocksTypeOK'
    BY <1>2, <1>3 DEF BlocksInv, BlocksTypeOK, archiverVars
  <2> QED
    BY <1>2, <1>3, <2>1, <2>2 DEF BlocksInv, Relocates, Excused, SentBeforeDeleted, archiverVars
<1>4. CASE old # {}
  <2> DEFINE work == [batch |-> old, again |-> old = oldest]
  <2>0. BlocksTypeOK
    BY DEF BlocksInv
  <2>a. /\ mover' = [mover EXCEPT ![m] = work]
        /\ insertSends' = Append(insertSends, old)
    BY <1>2, <1>4
  <2>b. work \in [batch : SUBSET Heights, again : BOOLEAN] /\ work.batch = old
    BY <1>1
  <2> HIDE DEF old, work
  <2>1. /\ insertSends' \in Seq(SUBSET Heights)
        /\ InFlight(insertSends') = InFlight(insertSends) \union {old}
    <3>1. insertSends \in Seq(SUBSET Heights)
      BY <2>0, BatchesLemma
    <3> QED
      BY <1>1, <2>a, <3>1, SendOneLemma
  <2>2. Copies' = Copies \union old
    BY <1>2, <2>1 DEF Copies, archiverVars
  <2>3. Archived' = Archived
    BY <1>2 DEF Archived, archiverVars
  <2>4. BlocksTypeOK'
    <3>1. mover' \in [Movers -> [batch : SUBSET Heights, again : BOOLEAN]]
      BY <2>a, <2>b DEF BlocksInv, BlocksTypeOK
    <3> QED
      BY <1>2, <2>1, <3>1 DEF BlocksInv, BlocksTypeOK, archiverVars
  <2>5. SentBeforeDeleted'
    <3>1. \A n \in Movers : mover'[n].batch \subseteq mover[n].batch \union old
      BY <2>a, <2>b DEF BlocksInv, BlocksTypeOK
    <3> QED
      BY <1>2, <2>2, <2>3, <3>1 DEF BlocksInv, SentBeforeDeleted, archiverVars
  <2> QED
    BY <1>1, <1>2, <2>2, <2>3, <2>4, <2>5 DEF Relocates, Excused, archiverVars
<1> QED
  BY <1>3, <1>4

LEMMA DeleteOldestStep ==
    ASSUME BlocksInv, NEW m \in Movers, DeleteOldest(m)
    PROVE  BlocksTypeOK' /\ Relocates /\ SentBeforeDeleted'
<1> USE DEF DeleteOldest, moverVars, archiverVars
<1>1. Copies' = Copies /\ Archived' = Archived /\ Excused' = Excused
  BY CopiesStayLemma DEF Excused
<1>2. mover[m].batch \subseteq Heights
  BY DEF BlocksInv, BlocksTypeOK
<1>3. moveTxSends' \in Seq(SUBSET Heights)
  <2>1. BlocksTypeOK
    BY DEF BlocksInv
  <2> QED
    BY <1>2, <2>1, BatchesLemma, SendOneLemma
<1>4. BlocksTypeOK'
  <2>1. mover' \in [Movers -> [batch : SUBSET Heights, again : BOOLEAN]] /\ moveJobs' \in Nat
    BY DEF BlocksInv, BlocksTypeOK, IdleMover
  <2>2. blocks' \subseteq Heights
    BY DEF BlocksInv, BlocksTypeOK
  <2> QED
    BY <1>3, <2>1, <2>2 DEF BlocksInv, BlocksTypeOK
<1>5. SentBeforeDeleted'
  <2>1. \A n \in Movers : mover'[n].batch \subseteq mover[n].batch
    BY DEF BlocksInv, BlocksTypeOK, IdleMover
  <2> QED
    BY <1>1, <2>1 DEF BlocksInv, SentBeforeDeleted, Excused
<1> QED
  BY <1>1, <1>4, <1>5 DEF Relocates

\* The sends of the moving process land in order.
LEMMA MoverSendsStep ==
    ASSUME BlocksInv, InsertJobLands \/ MoveTxJobLands \/ CronMoveBlock \/ NewDay
    PROVE  BlocksTypeOK' /\ Relocates /\ SentBeforeDeleted'
<1>0. BlocksTypeOK
  BY DEF BlocksInv
<1>1. CASE InsertJobLands
  <2>1. /\ Head(insertSends) \in SUBSET Heights /\ Tail(insertSends) \in Seq(SUBSET Heights)
        /\ InFlight(insertSends) = {Head(insertSends)} \union InFlight(Tail(insertSends))
    BY <1>0, <1>1, BatchesLemma, ArriveLemma DEF InsertJobLands
  <2>2. /\ Add(insertQueue, Head(insertSends)) \in Seq(JobOf(SUBSET Heights))
        /\ Waiting(Add(insertQueue, Head(insertSends))) = Waiting(insertQueue) \union {Head(insertSends)}
    <3>1. insertQueue \in Seq(JobOf(SUBSET Heights))
      BY <1>0, BatchesLemma
    <3>2. \A d \in SUBSET Heights :
              /\ Add(insertQueue, d) \in Seq(JobOf(SUBSET Heights))
              /\ Waiting(Add(insertQueue, d)) = Waiting(insertQueue) \union {d}
      BY <3>1, AddLemma
    <3> QED
      BY <2>1, <3>2
  <2>3. Copies' = Copies /\ Archived' = Archived /\ Excused' = Excused
    BY <1>1, <2>1, <2>2 DEF InsertJobLands, Copies, Archived, Excused, archiverVars
  <2> QED
    BY <1>1, <2>1, <2>2, <2>3
    DEF InsertJobLands, BlocksInv, BlocksTypeOK, Relocates, SentBeforeDeleted, Excused, archiverVars
<1>2. CASE MoveTxJobLands
  <2>1. Head(moveTxSends) \in SUBSET Heights /\ Tail(moveTxSends) \in Seq(SUBSET Heights)
    BY <1>0, <1>2, BatchesLemma, ArriveLemma DEF MoveTxJobLands
  <2>2. Add(moveTxQueue, Head(moveTxSends)) \in Seq(JobOf(SUBSET Heights))
    BY <1>0, <2>1, BatchesLemma, AddLemma
  <2>3. Copies' = Copies /\ Archived' = Archived /\ Excused' = Excused
    BY <1>2, CopiesStayLemma DEF MoveTxJobLands, Excused, archiverVars
  <2> QED
    BY <1>2, <2>1, <2>2, <2>3
    DEF MoveTxJobLands, BlocksInv, BlocksTypeOK, Relocates, SentBeforeDeleted, Excused, archiverVars
<1>3. CASE CronMoveBlock
  <2>1. Copies' = Copies /\ Archived' = Archived /\ Excused' = Excused
    BY <1>3, CopiesStayLemma DEF CronMoveBlock, Excused, archiverVars
  <2> QED
    BY <1>3, <2>1
    DEF CronMoveBlock, BlocksInv, BlocksTypeOK, Relocates, SentBeforeDeleted, Excused, archiverVars
<1>4. CASE NewDay
  <2>1. Copies' = Copies /\ Archived' = Archived /\ Excused' = Excused
    BY <1>4, CopiesStayLemma DEF NewDay, Excused, moverVars, archiverVars
  <2>2. now' \in 0 .. MaxDay
    BY <1>0, <1>4, ArchiveAssumption DEF NewDay, BlocksTypeOK
  <2> QED
    BY <1>4, <2>1, <2>2
    DEF NewDay, BlocksInv, BlocksTypeOK, Relocates, SentBeforeDeleted, Excused, moverVars, archiverVars
<1> QED
  BY <1>1, <1>2, <1>3, <1>4

LEMMA CrashMoverStep ==
    ASSUME BlocksInv, CrashMover
    PROVE  BlocksTypeOK' /\ Relocates /\ SentBeforeDeleted'
<1>0. BlocksTypeOK
  BY DEF BlocksInv
<1>1. /\ lostCopies' = lostCopies \union UNION InFlight(insertSends)
      /\ insertSends' = <<>> /\ moveTxSends' = <<>>
      /\ UNCHANGED <<now, moveJobs, insertQueue, moveTxQueue, archiverVars>>
  BY DEF CrashMover
<1>2. PICK done \in SUBSET {mover[m].batch : m \in Movers} :
          /\ blocks' = blocks \ UNION done
          /\ lostMoveTxs' = lostMoveTxs \union (UNION InFlight(moveTxSends))
                                       \union (blocks \intersect UNION done)
  BY DEF CrashMover
<1>3. mover' = [m \in Movers |-> IdleMover]
  BY DEF CrashMover
<1>4. Copies' = (UNION Waiting(insertQueue)) \union (UNION InFlight(inserting))
  BY <1>1, EmptyLemma DEF Copies, archiverVars
<1>5. Archived' = Archived
  BY <1>1 DEF Archived, archiverVars
<1>6. Relocates
  <2>1. Copies' \subseteq Copies /\ Excused \subseteq Excused'
    BY <1>1, <1>4 DEF Copies, Excused, archiverVars
  <2>2. Copies \subseteq Copies' \union Excused'
    BY <1>1, <1>4 DEF Copies, Excused
  <2> QED
    BY <1>2, <1>5, <2>1, <2>2 DEF Relocates
<1>7. BlocksTypeOK'
  <2>1. /\ lostCopies' \subseteq Heights /\ lostMoveTxs' \subseteq Heights /\ blocks' \subseteq Heights
        /\ refusedCopies' \subseteq Heights
    BY <1>0, <1>1, <1>2, BatchesLemma DEF BlocksTypeOK, archiverVars
  <2>2. mover' \in [Movers -> [batch : SUBSET Heights, again : BOOLEAN]]
    BY <1>3 DEF IdleMover
  <2>3. <<>> \in Seq(SUBSET Heights)
    BY EmptyLemma
  <2> QED
    BY <1>0, <1>1, <2>1, <2>2, <2>3 DEF BlocksTypeOK, archiverVars
<1>8. SentBeforeDeleted'
  BY <1>3 DEF SentBeforeDeleted, IdleMover
<1> QED
  BY <1>6, <1>7, <1>8

\* The archiving process: a batch that is not stored leaves a trace.
LEMMA StartInsertStep ==
    ASSUME BlocksInv, StartInsert
    PROVE  BlocksTypeOK' /\ Relocates /\ SentBeforeDeleted'
<1>0. BlocksTypeOK
  BY DEF BlocksInv
<1>1. /\ Head(insertQueue).data \in SUBSET Heights
      /\ Tail(insertQueue) \in Seq(JobOf(SUBSET Heights))
      /\ Waiting(insertQueue) = {Head(insertQueue).data} \union Waiting(Tail(insertQueue))
  BY <1>0, BatchesLemma, TakeLemma DEF StartInsert
<1>2. /\ Append(inserting, Head(insertQueue).data) \in Seq(SUBSET Heights)
      /\ InFlight(Append(inserting, Head(insertQueue).data))
            = InFlight(inserting) \union {Head(insertQueue).data}
  <2>1. inserting \in Seq(SUBSET Heights)
    BY <1>0, BatchesLemma
  <2> QED
    BY <1>1, <2>1, SendOneLemma
<1>3. Copies' = Copies /\ Archived' = Archived /\ Excused' = Excused
  BY <1>1, <1>2 DEF StartInsert, Copies, Archived, Excused, moverVars
<1> QED
  BY <1>1, <1>2, <1>3
  DEF StartInsert, BlocksInv, BlocksTypeOK, Relocates, SentBeforeDeleted, Excused, moverVars

\* Archiving copies of blocks archives these blocks.
LEMMA ArchivedLemma ==
    ASSUME NEW X, archive' = archive \union {CopyOf(h) : h \in X}
    PROVE  Archived' = Archived \union X
<1>1. \A h : CopyOf(h).height = h
  BY DEF CopyOf
<1>2. \A h \in X : CopyOf(h) \in archive'
  OBVIOUS
<1>3. X \subseteq Archived'
  BY <1>1, <1>2 DEF Archived
<1>4. Archived \subseteq Archived'
  BY DEF Archived
<1>5. Archived' \subseteq Archived \union X
  BY <1>1 DEF Archived
<1> QED
  BY <1>3, <1>4, <1>5

\* A batch whose bulkWrite ends, or is refused, is one of those that are awaited.
LEMMA InsertCopiesStep ==
    ASSUME BlocksInv, NEW i \in DOMAIN inserting, InsertCopies(i)
    PROVE  BlocksTypeOK' /\ Relocates /\ SentBeforeDeleted'
<1> DEFINE batch == inserting[i]
<1>0. BlocksTypeOK
  BY DEF BlocksInv
<1>1. /\ batch \subseteq Heights
      /\ RemoveAt(inserting, i) \in Seq(SUBSET Heights)
      /\ InFlight(inserting) = InFlight(RemoveAt(inserting, i)) \union {batch}
  BY <1>0, BatchesLemma, RemoveLemma
<1>2. /\ archive' = archive \union {CopyOf(h) : h \in batch}
      /\ inserting' = RemoveAt(inserting, i)
      /\ UNCHANGED <<now, blocks, insertQueue, moveTxQueue, lostCopies, moverVars, refusedCopies,
                     archiverCrashes>>
  BY DEF InsertCopies
<1> HIDE DEF batch
<1>3. Archived' = Archived \union batch
  BY <1>2, ArchivedLemma
<1>4. Copies' \subseteq Copies /\ Copies = Copies' \union batch /\ Excused' = Excused
  BY <1>1, <1>2 DEF Copies, Excused, moverVars
<1>5. BlocksTypeOK'
  <2>1. archive' \subseteq [height : Heights, time : Nat]
    BY <1>0, <1>1, <1>2, ArchiveAssumption DEF BlocksTypeOK, CopyOf, Heights
  <2> QED
    BY <1>0, <1>1, <1>2, <2>1 DEF BlocksTypeOK, moverVars
<1>6. SentBeforeDeleted'
  BY <1>2, <1>3, <1>4 DEF BlocksInv, SentBeforeDeleted, Excused, moverVars
<1> QED
  BY <1>2, <1>3, <1>4, <1>5, <1>6 DEF Relocates

LEMMA RefuseCopiesStep ==
    ASSUME BlocksInv, NEW i \in DOMAIN inserting, RefuseCopies(i)
    PROVE  BlocksTypeOK' /\ Relocates /\ SentBeforeDeleted'
<1> DEFINE batch == inserting[i]
           duplicate == Min(batch \intersect Archived)
           stored == {h \in batch : h < duplicate}
           refused == {h \in batch : h > duplicate}
<1>0. BlocksTypeOK
  BY DEF BlocksInv
<1>1. /\ batch \subseteq Heights
      /\ RemoveAt(inserting, i) \in Seq(SUBSET Heights)
      /\ InFlight(inserting) = InFlight(RemoveAt(inserting, i)) \union {batch}
  BY <1>0, BatchesLemma, RemoveLemma
<1>2. batch \subseteq Nat /\ duplicate \in Archived /\ duplicate \in Nat
  <2>1. batch \subseteq Nat
    BY <1>1, ArchiveAssumption DEF Heights
  <2>2. batch \intersect Archived # {}
    BY DEF RefuseCopies
  <2> HIDE DEF batch
  <2>3. duplicate \in batch \intersect Archived
    BY <2>1, <2>2, MinLemma
  <2> QED
    BY <2>1, <2>3
<1>3. /\ archive' = archive \union {CopyOf(h) : h \in stored}
      /\ refusedCopies' = refusedCopies \union refused
      /\ lostCopies' = lostCopies \union UNION InFlight(RemoveAt(inserting, i))
      /\ inserting' = <<>>
      /\ UNCHANGED <<now, blocks, insertQueue, moveTxQueue, moverVars, archiverCrashes>>
  BY DEF RefuseCopies
<1>4. batch = stored \union refused \union (batch \intersect {duplicate})
  <2>1. ASSUME NEW h \in batch
        PROVE  h < duplicate \/ h > duplicate \/ h = duplicate
    <3> HIDE DEF duplicate, batch
    <3> QED
      BY <1>2
  <2> HIDE DEF duplicate, batch
  <2> QED
    BY <2>1
<1> HIDE DEF batch, duplicate, stored, refused
<1>5. Archived' = Archived \union stored
  BY <1>3, ArchivedLemma
<1>6. /\ Copies' \subseteq Copies
      /\ Copies = Copies' \union batch \union (UNION InFlight(RemoveAt(inserting, i)))
  BY <1>1, <1>3, EmptyLemma DEF Copies, moverVars
<1>7. Excused' = Excused \union refused \union (UNION InFlight(RemoveAt(inserting, i)))
  BY <1>3 DEF Excused
<1>8. stored \subseteq batch /\ refused \subseteq batch
  BY DEF stored, refused
<1>9. Relocates
  BY <1>2, <1>3, <1>4, <1>5, <1>6, <1>7, <1>8 DEF Relocates
<1>10. BlocksTypeOK'
  <2>1. archive' \subseteq [height : Heights, time : Nat]
    <3>1. stored \subseteq Heights /\ archive \subseteq [height : Heights, time : Nat]
      BY <1>0, <1>1, <1>8 DEF BlocksTypeOK
    <3>2. \A h \in Heights : CopyOf(h) \in [height : Heights, time : Nat]
      BY ArchiveAssumption DEF CopyOf, Heights
    <3>3. {CopyOf(h) : h \in stored} \subseteq [height : Heights, time : Nat]
      BY <3>1, <3>2
    <3> QED
      BY <1>3, <3>1, <3>3
  <2>2. lostCopies' \union refusedCopies' \union lostMoveTxs' \subseteq Heights
    <3>1. UNION InFlight(RemoveAt(inserting, i)) \subseteq Copies
      BY <1>6
    <3>2. UNION InFlight(RemoveAt(inserting, i)) \subseteq Heights /\ refused \subseteq Heights
      BY <1>0, <1>1, <1>8, <3>1, BatchesLemma
    <3> QED
      BY <1>0, <1>3, <3>2 DEF BlocksTypeOK, moverVars
  <2>3. <<>> \in Seq(SUBSET Heights)
    BY EmptyLemma
  <2> QED
    BY <1>0, <1>3, <2>1, <2>2, <2>3 DEF BlocksTypeOK, moverVars
<1>11. SentBeforeDeleted'
  <2>1. Archived \union Copies \union Excused \subseteq Archived' \union Copies' \union Excused'
    BY <1>9 DEF Relocates
  <2> QED
    BY <1>3, <2>1 DEF BlocksInv, SentBeforeDeleted, Excused, moverVars
<1> QED
  BY <1>9, <1>10, <1>11

LEMMA CrashArchiverStep ==
    ASSUME BlocksInv, CrashArchiver
    PROVE  BlocksTypeOK' /\ Relocates /\ SentBeforeDeleted'
<1>0. BlocksTypeOK
  BY DEF BlocksInv
<1>1. /\ lostCopies' = lostCopies \union UNION InFlight(inserting)
      /\ inserting' = <<>>
      /\ UNCHANGED <<now, blocks, insertQueue, moveTxQueue, moverVars, archive, refusedCopies>>
  BY DEF CrashArchiver
<1>2. Archived' = Archived
  BY <1>1 DEF Archived
<1>3. Copies' \subseteq Copies /\ Copies = Copies' \union (UNION InFlight(inserting))
  BY <1>1, EmptyLemma DEF Copies, moverVars
<1>4. Excused' = Excused \union (UNION InFlight(inserting))
  BY <1>1 DEF Excused
<1>5. BlocksTypeOK'
  <2>1. lostCopies' \subseteq Heights
    BY <1>0, <1>1, BatchesLemma DEF BlocksTypeOK
  <2>2. <<>> \in Seq(SUBSET Heights)
    BY EmptyLemma
  <2> QED
    BY <1>0, <1>1, <2>1, <2>2 DEF BlocksTypeOK, moverVars
<1>6. SentBeforeDeleted'
  <2>1. Archived \union Copies \union Excused \subseteq Archived' \union Copies' \union Excused'
    BY <1>2, <1>3, <1>4
  <2> QED
    BY <1>1, <2>1 DEF BlocksInv, SentBeforeDeleted, Excused, moverVars
<1> QED
  BY <1>1, <1>2, <1>3, <1>4, <1>5, <1>6 DEF Relocates

LEMMA BlocksStep ==
    ASSUME BlocksInv, [BlocksNext]_blockArchiveVars
    PROVE  BlocksTypeOK' /\ Relocates /\ SentBeforeDeleted'
<1>1. CASE BlocksNext
  BY <1>1, CopyOldestStep, DeleteOldestStep, MoverSendsStep, CrashMoverStep, StartInsertStep,
     InsertCopiesStep, RefuseCopiesStep, CrashArchiverStep
  DEF BlocksNext, MoverNext, ArchiverNext
<1>2. CASE UNCHANGED blockArchiveVars
  <2>1. Copies' = Copies /\ Archived' = Archived /\ Excused' = Excused
    BY <1>2, CopiesStayLemma DEF blockArchiveVars, Excused, moverVars, archiverVars
  <2> QED
    BY <1>2, <2>1
    DEF blockArchiveVars, BlocksInv, BlocksTypeOK, Relocates, SentBeforeDeleted, moverVars, archiverVars
<1> QED
  BY <1>1, <1>2

\* Only what a handler awaits the delete of is deleted.
LEMMA DeletedLemma ==
    ASSUME BlocksInv, [BlocksNext]_blockArchiveVars, NEW h \in blocks \ blocks'
    PROVE  \E m \in Movers : h \in mover[m].batch
<1>1. CASE \E m \in Movers : DeleteOldest(m)
  BY <1>1 DEF DeleteOldest
<1>2. CASE CrashMover
  <2>1. PICK done \in SUBSET {mover[m].batch : m \in Movers} : blocks' = blocks \ UNION done
    BY <1>2 DEF CrashMover
  <2> QED
    BY <2>1
<1>3. ASSUME UNCHANGED blocks PROVE FALSE
  BY <1>3
<1> QED
  BY <1>1, <1>2, <1>3
  DEF BlocksNext, MoverNext, ArchiverNext, NewDay, CronMoveBlock, CopyOldest, InsertJobLands,
      MoveTxJobLands, StartInsert, InsertCopies, RefuseCopies, CrashArchiver, blockArchiveVars

LEMMA NextBlocksInv == BlocksInv /\ [BlocksNext]_blockArchiveVars => BlocksInv'
<1> SUFFICES ASSUME BlocksInv, [BlocksNext]_blockArchiveVars PROVE BlocksInv'
  OBVIOUS
<1>1. BlocksTypeOK' /\ Relocates /\ SentBeforeDeleted'
  BY BlocksStep
<1>2. blocks \ blocks' \subseteq Archived \union Copies \union Excused
  BY DeletedLemma DEF BlocksInv, SentBeforeDeleted, Excused
<1>3. NoBlockVanishes'
  BY <1>1, <1>2 DEF BlocksInv, NoBlockVanishes, Relocates, Excused
<1> QED
  BY <1>1, <1>3 DEF BlocksInv

\* However handlers overlap and processes die, a block that has left its collection is
\* archived, or its copy is on its way, or it was lost with a trace.
THEOREM DeletedBlocksAreCopied == BlocksSpec => []NoBlockVanishes
<1>1. BlocksInv => NoBlockVanishes
  BY DEF BlocksInv
<1> QED
  BY <1>1, InitBlocksInv, NextBlocksInv, PTL DEF BlocksSpec

\* The places of the abstract move.
LEMMA PlaceLemma ==
    /\ \A h \in Heights :
          /\ h \in Archived => Place[h] = "archived"
          /\ h \notin Archived /\ h \in Copies => Place[h] = "copied"
          /\ h \notin Archived \union Copies /\ h \in blocks => Place[h] = "stored"
          /\ h \notin Archived \union Copies \union blocks => Place[h] = "gone"
    /\ Place \in [Heights -> {"stored", "copied", "archived", "gone"}]
BY DEF Place

LEMMA MoveInitRefined == ArchiveBlocksInit => Move!RelocationInit
<1> SUFFICES ASSUME ArchiveBlocksInit PROVE Move!RelocationInit
  OBVIOUS
<1>1. Archived = {} /\ Copies = {} /\ blocks = Heights
  BY EmptyLemma DEF ArchiveBlocksInit, Archived, Copies
<1>2. Place = [h \in Heights |-> "stored"]
  BY <1>1 DEF Place
<1> QED
  BY <1>2 DEF Move!RelocationInit, ArchiveBlocksInit

LEMMA MoveStepRefined ==
    BlocksInv /\ BlocksInv' /\ [BlocksNext]_blockArchiveVars => [Move!Relocate]_Move!relocationVars
<1> SUFFICES ASSUME BlocksInv, BlocksInv', [BlocksNext]_blockArchiveVars
             PROVE  Move!Relocate
  BY DEF Move!relocationVars
<1>1. Relocates
  BY BlocksStep
<1>2. /\ Excused \subseteq Excused'
      /\ Excused' \subseteq Heights
  BY <1>1 DEF Relocates, Excused, BlocksInv, BlocksTypeOK
<1>3. Place' \in [Heights -> {"stored", "copied", "archived", "gone"}]
  BY DEF Place
<1>4. ASSUME NEW h \in Heights
      PROVE  Place'[h] \in Move!MayGo(Place[h], h, Excused')
  <2> DEFINE P == Place'[h]
  <2>0. /\ h \in Archived' => P = "archived"
        /\ h \notin Archived' /\ h \in Copies' => P = "copied"
        /\ h \notin Archived' \union Copies' /\ h \in blocks' => P = "stored"
        /\ h \notin Archived' \union Copies' \union blocks' => P = "gone" /\ h \in Excused'
    BY DEF Place, BlocksInv, NoBlockVanishes, Excused
  <2>1. CASE h \in Archived
    <3>1. Place[h] = "archived" /\ P = "archived"
      BY <1>1, <2>0, <2>1, PlaceLemma DEF Relocates
    <3> QED
      BY <3>1 DEF Move!MayGo
  <2>2. CASE h \notin Archived /\ h \in Copies
    <3>1. Place[h] = "copied"
      BY <2>2, PlaceLemma
    <3>2. P \in {"copied", "archived"} \/ (P \in {"stored", "gone"} /\ h \in Excused')
      BY <1>1, <2>0, <2>2 DEF Relocates
    <3> QED
      BY <3>1, <3>2 DEF Move!MayGo
  <2>3. CASE h \notin Archived \union Copies /\ h \in blocks
    <3>1. Place[h] = "stored"
      BY <2>3, PlaceLemma
    <3>2. P \in {"stored", "copied"} \/ (P = "gone" /\ h \in Excused')
      BY <1>1, <2>0, <2>3 DEF Relocates
    <3> QED
      BY <3>1, <3>2 DEF Move!MayGo
  <2>4. CASE h \notin Archived \union Copies \union blocks
    <3>1. Place[h] = "gone" /\ P = "gone"
      BY <1>1, <2>0, <2>4, PlaceLemma DEF Relocates
    <3> QED
      BY <3>1 DEF Move!MayGo
  <2> QED
    BY <2>1, <2>2, <2>3, <2>4
<1> QED
  BY <1>2, <1>3, <1>4 DEF Move!Relocate, Excused

\* The archive of blocks, with its overlapping handlers and its crashes, does nothing that
\* the abstract move does not allow.
THEOREM ArchiveImplementsMove == BlocksSpec => ImplementsMove
<1>1. BlocksSpec => []BlocksInv
  BY InitBlocksInv, NextBlocksInv, PTL DEF BlocksSpec
<1> QED
  BY <1>1, MoveInitRefined, MoveStepRefined, PTL
  DEF BlocksSpec, ImplementsMove, Move!RelocationSpec

-----------------------------------------------------------------------------
(* The transactions of aura-network (AuraTransactions).                        *)

AuraInv == AuraTypeOK /\ ListsAreAnswers /\ SavedOrToDo

\* A job of queue q is of block b.
Has(q, b) == \E s \in InFlight(q) : s.of = b

LEMMA OnTheWayLemma ==
    ASSUME NEW b
    PROVE  OnTheWay(b) <=> \/ Has(crawlSends, b) \/ Has(txSends, b)
                           \/ Has(auraCrawlJobs, b) \/ Has(auraTxJobs, b)
                           \/ atCrawl # <<>> /\ atCrawl[1].job.of = b /\ atCrawl[1].step # "done"
                           \/ atTx # <<>> /\ atTx[1].job.of = b /\ atTx[1].step # "done"
<1>1. \A q : ToSet(q) = InFlight(q)
  BY DEF ToSet, InFlight
<1> QED
  BY <1>1 DEF OnTheWay, Has

LEMMA OnTheWayNextLemma ==
    ASSUME NEW b
    PROVE  OnTheWay(b)' <=> \/ Has(crawlSends', b) \/ Has(txSends', b)
                            \/ Has(auraCrawlJobs', b) \/ Has(auraTxJobs', b)
                            \/ atCrawl' # <<>> /\ atCrawl'[1].job.of = b /\ atCrawl'[1].step # "done"
                            \/ atTx' # <<>> /\ atTx'[1].job.of = b /\ atTx'[1].step # "done"
<1>1. \A q : ToSet(q) = InFlight(q)
  BY DEF ToSet, InFlight
<1> QED
  BY <1>1 DEF OnTheWay, Has

\* What tx_search has for a block is of that block.
LEMMA FirstPageLemma == \A b \in AuraBlocks : FirstPage(b) \subseteq AuraTxs
<1> SUFFICES ASSUME NEW b \in AuraBlocks PROVE FirstPage(b) \subseteq AuraTxs
  OBVIOUS
<1> DEFINE n == IF Len(InBlock[b]) < PerPage THEN Len(InBlock[b]) ELSE PerPage
           page == SubSeq(InBlock[b], 1, n)
<1>1. InBlock[b] \in Seq(ToSet(InBlock[b]))
  BY AuraAssumption
<1>2. n \in Nat /\ n <= Len(InBlock[b]) /\ DOMAIN InBlock[b] = 1 .. Len(InBlock[b])
  BY <1>1, AuraAssumption
<1>3. page \in Seq(ToSet(InBlock[b]))
  <2> HIDE DEF n
  <2>1. \A i \in 1 .. n : InBlock[b][i] \in ToSet(InBlock[b])
    BY <1>1, <1>2
  <2> QED
    BY <1>2, <2>1, SubSeqProperties
<1>4. FirstPage(b) = ToSet(page)
  BY DEF FirstPage
<1>5. ToSet(page) \subseteq ToSet(InBlock[b])
  <2> HIDE DEF page
  <2>1. \A i \in DOMAIN page : page[i] \in ToSet(InBlock[b])
    BY <1>3
  <2> QED
    BY <2>1 DEF ToSet
<1>6. ToSet(InBlock[b]) \subseteq AuraTxs
  BY DEF AuraTxs
<1> QED
  BY <1>4, <1>5, <1>6

\* A job that stalled is back in front of its queue, or in the failed set.
LEMMA StalledLemma ==
    ASSUME NEW q \in Seq(AuraJobs), NEW steps, NEW at \in Seq(AuraWork(steps)), NEW name
    PROVE  /\ Stalled(at) \o q \in Seq(AuraJobs)
           /\ StalledTwice(name, at) \subseteq {name} \X AuraBlocks
           /\ InFlight(q) \subseteq InFlight(Stalled(at) \o q)
           /\ \A s \in InFlight(Stalled(at) \o q) \ InFlight(q) :
                 at # <<>> /\ s.of = at[1].job.of /\ s.list = at[1].job.list
           /\ at # <<>> => \/ Has(Stalled(at) \o q, at[1].job.of)
                           \/ <<name, at[1].job.of>> \in StalledTwice(name, at)
<1>1. ASSUME NEW i \in DOMAIN at
      PROVE  at[i].job \in AuraJobs
  <2>1. at[i] \in AuraWork(steps)
    OBVIOUS
  <2> QED
    BY <2>1 DEF AuraWork
<1>2. StalledTwice(name, at) \subseteq {name} \X AuraBlocks
  BY <1>1 DEF StalledTwice, AuraJobs
<1>3. at # <<>> => 1 \in DOMAIN at
  OBVIOUS
<1>4. CASE at = <<>> \/ at[1].job.stalled
  <2>1. Stalled(at) = <<>>
    BY <1>4 DEF Stalled
  <2>2. Stalled(at) \o q = q
    BY <2>1
  <2>3. at # <<>> => <<name, at[1].job.of>> \in StalledTwice(name, at)
    BY <1>3, <1>4 DEF StalledTwice
  <2> QED
    BY <1>2, <2>2, <2>3
<1>5. CASE at # <<>> /\ ~at[1].job.stalled
  <2> DEFINE again == [at[1].job EXCEPT !.stalled = TRUE]
             front == <<again>>
  <2>1. again \in AuraJobs /\ again.of = at[1].job.of /\ again.list = at[1].job.list
    BY <1>1, <1>3, <1>5 DEF AuraJobs
  <2>2. Stalled(at) = front
    BY <1>5 DEF Stalled
  <2> HIDE DEF again
  <2>3. front \in Seq(AuraJobs) /\ InFlight(front) = {again}
    BY <2>1 DEF InFlight
  <2> HIDE DEF front
  <2>4. /\ front \o q \in Seq(AuraJobs)
        /\ InFlight(front \o q) = InFlight(front) \union InFlight(q)
    BY <2>3, SendLemma
  <2>5. /\ Stalled(at) \o q \in Seq(AuraJobs)
        /\ InFlight(Stalled(at) \o q) = {again} \union InFlight(q)
    BY <2>2, <2>3, <2>4
  <2>6. Has(Stalled(at) \o q, at[1].job.of)
    BY <2>1, <2>5 DEF Has
  <2>7. ASSUME NEW s \in InFlight(Stalled(at) \o q) \ InFlight(q)
        PROVE  at # <<>> /\ s.of = at[1].job.of /\ s.list = at[1].job.list
    <3>1. s = again
      BY <2>5
    <3> QED
      BY <1>5, <2>1, <3>1
  <2>8. InFlight(q) \subseteq InFlight(Stalled(at) \o q)
    BY <2>5
  <2>9. Stalled(at) \o q \in Seq(AuraJobs)
    BY <2>5
  <2> QED
    BY <1>2, <2>6, <2>7, <2>8, <2>9
<1> QED
  BY <1>4, <1>5

LEMMA InitAuraInv == AuraInit => AuraInv /\ AuraAccounted /\ InsertedLast
<1> SUFFICES ASSUME AuraInit PROVE AuraInv /\ AuraAccounted /\ InsertedLast
  OBVIOUS
<1>1. AuraTypeOK
  <2>1. \A D : <<>> \in Seq(D)
    BY EmptyLemma
  <2> QED
    BY <2>1 DEF AuraInit, AuraTypeOK
<1>2. ListsAreAnswers
  BY DEF AuraInit, ListsAreAnswers, ToSet
<1>3. SavedOrToDo /\ AuraAccounted /\ InsertedLast
  BY DEF AuraInit, SavedOrToDo, AuraAccounted, InsertedLast
<1> QED
  BY <1>1, <1>2, <1>3 DEF AuraInv

\* What is active, and what a new job is.
LEMMA AuraJobLemma == \A b \in AuraBlocks, list \in SUBSET AuraTxs : AuraJob(b, list) \in AuraJobs
BY DEF AuraJob, AuraJobs

LEMMA AuraWorkLemma ==
    ASSUME AuraTypeOK
    PROVE  /\ atBlock # <<>> => /\ atBlock[1] \in AuraWork({"insert", "done"})
                                /\ atBlock[1].job \in AuraJobs /\ atBlock[1].job.of \in AuraBlocks
           /\ atCrawl # <<>> => /\ atCrawl[1] \in AuraWork({"fetch", "done"})
                                /\ atCrawl[1].job \in AuraJobs /\ atCrawl[1].job.of \in AuraBlocks
           /\ atTx # <<>> => /\ atTx[1] \in AuraWork({"find", "save", "fail"})
                             /\ atTx[1].job \in AuraJobs /\ atTx[1].job.of \in AuraBlocks
<1>1. /\ atBlock # <<>> => atBlock[1] \in AuraWork({"insert", "done"})
      /\ atCrawl # <<>> => atCrawl[1] \in AuraWork({"fetch", "done"})
      /\ atTx # <<>> => atTx[1] \in AuraWork({"find", "save", "fail"})
  BY DEF AuraTypeOK
<1> QED
  BY <1>1 DEF AuraWork, AuraJobs

LEMMA ListsLemma ==
    ListsAreAnswers <=> /\ \A s \in InFlight(txSends) \union InFlight(auraTxJobs) : s.list \in answers[s.of]
                        /\ atTx # <<>> => atTx[1].job.list \in answers[atTx[1].job.of]
<1>1. \A q : ToSet(q) = InFlight(q)
  BY DEF ToSet, InFlight
<1> QED
  BY <1>1 DEF ListsAreAnswers

LEMMA ListsNextLemma ==
    ListsAreAnswers' <=> /\ \A s \in InFlight(txSends') \union InFlight(auraTxJobs') : s.list \in answers'[s.of]
                         /\ atTx' # <<>> => atTx'[1].job.list \in answers'[atTx'[1].job.of]
<1>1. \A q : ToSet(q) = InFlight(q)
  BY DEF ToSet, InFlight
<1> QED
  BY <1>1 DEF ListsAreAnswers

\* What is traced of a job stays traced, once the traces that last do.
Keeps ==
    \A b \in AuraBlocks : \A t \in ToSet(InBlock[b]) : Traced(b, t) => Traced(b, t)'

LEMMA KeepsLemma ==
    ASSUME txDb \subseteq txDb', lostSends \subseteq lostSends', failedJobs \subseteq failedJobs',
           \A b \in AuraBlocks : answers[b] \subseteq answers'[b],
           \A b \in AuraBlocks : \A t \in ToSet(InBlock[b]) : OnTheWay(b) => Traced(b, t)'
    PROVE  Keeps
BY DEF Keeps, Traced

\* handle.block touches nothing that a trace is made of, but for the job it creates.
LEMMA AuraBlockStep ==
    ASSUME AuraInv,
           \/ FindAuraBlock \/ InsertAuraBlock \/ AuraBlockFails \/ CompleteAuraBlock
           \/ \E b \in AuraBlocks : HandOverBlock(b)
    PROVE  AuraInv' /\ Keeps
<1> DEFINE Rest == UNCHANGED <<txSends, auraCrawlJobs, auraTxJobs, atCrawl, atTx, txDb, answers, lostSends>>
<1>0. AuraTypeOK
  BY DEF AuraInv
<1>1. ASSUME Rest, crawlSends' \in Seq(AuraJobs), InFlight(crawlSends) \subseteq InFlight(crawlSends'),
             blockJobs' \in Seq(AuraJobs), atBlock' \in Seq(AuraWork({"insert", "done"})),
             blockDb' \subseteq AuraBlocks,
             failedJobs \subseteq failedJobs', failedJobs' \subseteq {"block", "crawl", "handle"} \X AuraBlocks
      PROVE  AuraInv' /\ Keeps
  <2>1. AuraTypeOK'
    BY <1>0, <1>1 DEF AuraTypeOK
  <2>2. ListsAreAnswers' /\ SavedOrToDo'
    BY <1>1 DEF AuraInv, ListsAreAnswers, SavedOrToDo
  <2>3. ASSUME NEW b, OnTheWay(b) PROVE OnTheWay(b)'
    BY <1>1, <2>3, OnTheWayLemma, OnTheWayNextLemma DEF Has
  <2>4. Keeps
    BY <1>1, <2>3, KeepsLemma DEF Traced
  <2> QED
    BY <2>1, <2>2, <2>4 DEF AuraInv
<1>2. CASE FindAuraBlock
  <2> DEFINE job == Head(blockJobs)
             work == [job |-> job, step |-> IF job.of \in blockDb THEN "done" ELSE "insert", todo |-> {}]
  <2>1. /\ blockJobs # <<>>
        /\ atBlock' = <<work>> /\ blockJobs' = Tail(blockJobs)
        /\ crawlSends' = IF InBlock[job.of] = <<>> THEN crawlSends
                         ELSE Append(crawlSends, AuraJob(job.of, {}))
        /\ UNCHANGED <<failedJobs, blockDb>> /\ Rest
    BY <1>2 DEF FindAuraBlock, history
  <2>2. blockJobs \in Seq(AuraJobs) /\ crawlSends \in Seq(AuraJobs)
    BY <1>0 DEF AuraTypeOK
  <2>3. job \in AuraJobs /\ blockJobs' \in Seq(AuraJobs)
    BY <2>1, <2>2, ArriveLemma
  <2>4. work \in AuraWork({"insert", "done"})
    BY <2>3 DEF AuraWork
  <2>5. AuraJob(job.of, {}) \in AuraJobs
    BY <2>3, AuraJobLemma DEF AuraJobs
  <2> HIDE DEF job, work
  <2>6. crawlSends' \in Seq(AuraJobs) /\ InFlight(crawlSends) \subseteq InFlight(crawlSends')
    BY <2>1, <2>2, <2>5, SendOneLemma
  <2>7. atBlock' \in Seq(AuraWork({"insert", "done"}))
    BY <2>1, <2>4
  <2> QED
    BY <1>0, <1>1, <2>1, <2>3, <2>6, <2>7 DEF AuraTypeOK
<1>3. CASE InsertAuraBlock
  <2>1. /\ atBlock # <<>>
        /\ atBlock' = <<[atBlock[1] EXCEPT !.step = "done"]>>
        /\ blockDb' = blockDb \union {atBlock[1].job.of}
        /\ UNCHANGED <<blockJobs, crawlSends, failedJobs>> /\ Rest
    BY <1>3 DEF InsertAuraBlock, waits, auraSends, history
  <2>2. [atBlock[1] EXCEPT !.step = "done"] \in AuraWork({"insert", "done"})
    BY <1>0, <2>1, AuraWorkLemma DEF AuraWork
  <2>3. blockDb' \subseteq AuraBlocks /\ atBlock' \in Seq(AuraWork({"insert", "done"}))
    BY <1>0, <2>1, <2>2, AuraWorkLemma DEF AuraTypeOK
  <2> QED
    BY <1>0, <1>1, <2>1, <2>3 DEF AuraTypeOK
<1>4. CASE AuraBlockFails
  <2>1. /\ blockJobs' \in {blockJobs, Tail(blockJobs)} /\ (blockJobs = <<>> => blockJobs' = blockJobs)
        /\ atBlock' = <<>> /\ UNCHANGED <<blockDb, crawlSends>> /\ Rest
        /\ failedJobs \subseteq failedJobs'
    BY <1>4 DEF AuraBlockFails, auraSends, history
  <2>2. failedJobs' \subseteq {"block", "crawl", "handle"} \X AuraBlocks
    <3>1. failedJobs \subseteq {"block", "crawl", "handle"} \X AuraBlocks /\ blockJobs \in Seq(AuraJobs)
      BY <1>0 DEF AuraTypeOK
    <3>2. blockJobs # <<>> => Head(blockJobs) \in AuraJobs
      BY <3>1
    <3>3. blockJobs # <<>> => Head(blockJobs).of \in AuraBlocks
      BY <3>2 DEF AuraJobs
    <3> QED
      BY <1>0, <1>4, <3>1, <3>3, AuraWorkLemma DEF AuraBlockFails
  <2>3. blockJobs' \in Seq(AuraJobs)
    <3>1. blockJobs \in Seq(AuraJobs)
      BY <1>0 DEF AuraTypeOK
    <3> QED
      BY <2>1, <3>1
  <2>4. atBlock' \in Seq(AuraWork({"insert", "done"}))
    BY <2>1, EmptyLemma
  <2> QED
    BY <1>0, <1>1, <2>1, <2>2, <2>3, <2>4 DEF AuraTypeOK
<1>5. CASE CompleteAuraBlock
  <2>1. atBlock' = <<>> /\ UNCHANGED <<blockJobs, blockDb, crawlSends, failedJobs>> /\ Rest
    BY <1>5 DEF CompleteAuraBlock, waits, auraSends, history
  <2>2. atBlock' \in Seq(AuraWork({"insert", "done"}))
    BY <2>1, EmptyLemma
  <2> QED
    BY <1>0, <1>1, <2>1, <2>2 DEF AuraTypeOK
<1>6. ASSUME NEW b \in AuraBlocks, HandOverBlock(b)
      PROVE  AuraInv' /\ Keeps
  <2>1. /\ blockJobs' = Append(blockJobs, AuraJob(b, {}))
        /\ UNCHANGED <<atBlock, blockDb, crawlSends, failedJobs>> /\ Rest
    BY <1>6 DEF HandOverBlock, auraSends
  <2>2. blockJobs' \in Seq(AuraJobs)
    <3>1. AuraJob(b, {}) \in AuraJobs /\ blockJobs \in Seq(AuraJobs)
      BY <1>0, AuraJobLemma DEF AuraTypeOK
    <3> QED
      BY <2>1, <3>1
  <2> QED
    BY <1>0, <1>1, <2>1, <2>2 DEF AuraTypeOK
<1> QED
  BY <1>2, <1>3, <1>4, <1>5, <1>6

\* A createJob that lands, and a job that starts, stay on the way.
LEMMA AuraCrawlStep ==
    ASSUME AuraInv, SendLands \/ StartAuraCrawl \/ FetchByHeight \/ FetchByHeightNull \/ CompleteAuraCrawl
    PROVE  AuraInv' /\ Keeps
<1>0. /\ AuraTypeOK
      /\ crawlSends \in Seq(AuraJobs) /\ auraCrawlJobs \in Seq(AuraJobs)
      /\ txSends \in Seq(AuraJobs) /\ auraTxJobs \in Seq(AuraJobs)
  BY DEF AuraInv, AuraTypeOK
<1>1. CASE SendLands /\ crawlSends' # crawlSends
  <2>1. /\ crawlSends # <<>> /\ crawlSends' = Tail(crawlSends)
        /\ auraCrawlJobs' = Append(auraCrawlJobs, Head(crawlSends))
        /\ UNCHANGED <<txSends, auraTxJobs, blockJobs, atBlock, atCrawl, atTx, blockDb, txDb, failedJobs, history>>
    BY <1>1 DEF SendLands
  <2>2. /\ Head(crawlSends) \in AuraJobs /\ crawlSends' \in Seq(AuraJobs)
        /\ InFlight(crawlSends) = {Head(crawlSends)} \union InFlight(crawlSends')
    BY <1>0, <2>1, ArriveLemma
  <2>3. /\ auraCrawlJobs' \in Seq(AuraJobs)
        /\ InFlight(auraCrawlJobs') = InFlight(auraCrawlJobs) \union {Head(crawlSends)}
    BY <1>0, <2>1, <2>2, SendOneLemma
  <2>4. AuraInv'
    BY <2>1, <2>2, <2>3 DEF AuraInv, AuraTypeOK, ListsAreAnswers, SavedOrToDo, history
  <2>5. ASSUME NEW b, OnTheWay(b) PROVE OnTheWay(b)'
    BY <2>1, <2>2, <2>3, <2>5, OnTheWayLemma, OnTheWayNextLemma DEF Has
  <2> QED
    BY <2>1, <2>4, <2>5, KeepsLemma DEF Traced, history
<1>2. CASE SendLands /\ crawlSends' = crawlSends
  <2>1. /\ txSends # <<>> /\ txSends' = Tail(txSends)
        /\ auraTxJobs' = Append(auraTxJobs, Head(txSends))
        /\ UNCHANGED <<crawlSends, auraCrawlJobs, blockJobs, atBlock, atCrawl, atTx, blockDb, txDb, failedJobs,
                       history>>
    <3>1. crawlSends # <<>> => Tail(crawlSends) # crawlSends
      BY <1>0
    <3> QED
      BY <1>2, <3>1 DEF SendLands
  <2>2. /\ Head(txSends) \in AuraJobs /\ txSends' \in Seq(AuraJobs)
        /\ InFlight(txSends) = {Head(txSends)} \union InFlight(txSends')
    BY <1>0, <2>1, ArriveLemma
  <2>3. /\ auraTxJobs' \in Seq(AuraJobs)
        /\ InFlight(auraTxJobs') = InFlight(auraTxJobs) \union {Head(txSends)}
    BY <1>0, <2>1, <2>2, SendOneLemma
  <2>4. AuraInv'
    <3>1. AuraTypeOK' /\ SavedOrToDo'
      BY <2>1, <2>2, <2>3 DEF AuraInv, AuraTypeOK, SavedOrToDo, history
    <3>2. InFlight(txSends') \union InFlight(auraTxJobs') = InFlight(txSends) \union InFlight(auraTxJobs)
      BY <2>2, <2>3
    <3>3. ListsAreAnswers'
      BY <2>1, <3>2, ListsLemma, ListsNextLemma DEF AuraInv, history
    <3> QED
      BY <3>1, <3>3 DEF AuraInv
  <2>5. ASSUME NEW b, OnTheWay(b) PROVE OnTheWay(b)'
    BY <2>1, <2>2, <2>3, <2>5, OnTheWayLemma, OnTheWayNextLemma DEF Has
  <2> QED
    BY <2>1, <2>4, <2>5, KeepsLemma DEF Traced, history
<1>3. CASE StartAuraCrawl
  <2> DEFINE job == Head(auraCrawlJobs)
             work == [job |-> job, step |-> "fetch", todo |-> {}]
  <2>1. /\ auraCrawlJobs # <<>> /\ atCrawl = <<>>
        /\ atCrawl' = <<work>> /\ auraCrawlJobs' = Tail(auraCrawlJobs)
        /\ UNCHANGED <<blockJobs, auraTxJobs, atBlock, atTx, auraSends, blockDb, txDb, failedJobs, history>>
    BY <1>3 DEF StartAuraCrawl
  <2>2. /\ job \in AuraJobs /\ auraCrawlJobs' \in Seq(AuraJobs)
        /\ InFlight(auraCrawlJobs) = {job} \union InFlight(auraCrawlJobs')
    BY <1>0, <2>1, ArriveLemma
  <2>3. /\ work \in AuraWork({"fetch", "done"})
        /\ atCrawl' # <<>> /\ atCrawl'[1].job = job /\ atCrawl'[1].step # "done"
    BY <2>1, <2>2 DEF AuraWork
  <2> HIDE DEF job, work
  <2>4. AuraInv'
    <3>1. atCrawl' \in Seq(AuraWork({"fetch", "done"}))
      BY <2>1, <2>3
    <3> QED
      BY <2>1, <2>2, <3>1 DEF AuraInv, AuraTypeOK, ListsAreAnswers, SavedOrToDo, history, auraSends
  <2>5. ASSUME NEW b, OnTheWay(b) PROVE OnTheWay(b)'
    BY <2>1, <2>2, <2>3, <2>5, OnTheWayLemma, OnTheWayNextLemma DEF Has, auraSends
  <2> QED
    BY <2>1, <2>4, <2>5, KeepsLemma DEF Traced, history
<1>4. CASE FetchByHeight
  <2> DEFINE of == atCrawl[1].job.of
  <2>1. PICK list \in {FirstPage(of), {}} :
            /\ txSends' = Append(txSends, AuraJob(of, list))
            /\ answers' = [answers EXCEPT ![of] = @ \union {list}]
    BY <1>4 DEF FetchByHeight
  <2>2. /\ atCrawl # <<>> /\ atCrawl' = <<[atCrawl[1] EXCEPT !.step = "done"]>>
        /\ UNCHANGED <<waits, atBlock, atTx, crawlSends, blockDb, txDb, failedJobs, lostSends>>
    BY <1>4 DEF FetchByHeight
  <2>3. of \in AuraBlocks /\ list \in SUBSET AuraTxs /\ answers \in [AuraBlocks -> SUBSET SUBSET AuraTxs]
    BY <1>0, <2>2, AuraWorkLemma, FirstPageLemma DEF AuraTypeOK
  <2> DEFINE job == AuraJob(of, list)
  <2>4. job \in AuraJobs /\ job.of = of /\ job.list = list
    BY <2>3, AuraJobLemma DEF AuraJob
  <2> HIDE DEF job, of
  <2>5. /\ txSends' \in Seq(AuraJobs)
        /\ InFlight(txSends') = InFlight(txSends) \union {job}
    BY <1>0, <2>1, <2>4, SendOneLemma DEF job
  <2>6. /\ answers' \in [AuraBlocks -> SUBSET SUBSET AuraTxs]
        /\ \A b \in AuraBlocks : answers[b] \subseteq answers'[b]
        /\ list \in answers'[of]
    BY <2>1, <2>3
  <2>7. AuraTypeOK' /\ SavedOrToDo'
    <3>1. atCrawl' \in Seq(AuraWork({"fetch", "done"}))
      <4>1. [atCrawl[1] EXCEPT !.step = "done"] \in AuraWork({"fetch", "done"})
        BY <1>0, <2>2, AuraWorkLemma DEF AuraWork
      <4> QED
        BY <2>2, <4>1
    <3> QED
      BY <1>0, <2>2, <2>5, <2>6, <3>1 DEF AuraInv, AuraTypeOK, SavedOrToDo, waits
  <2>8. ListsAreAnswers'
    <3>1. ASSUME NEW s \in InFlight(txSends') \union InFlight(auraTxJobs') PROVE s.list \in answers'[s.of]
      <4>1. CASE s = job
        BY <2>4, <2>6, <4>1
      <4>2. CASE s \in InFlight(txSends) \union InFlight(auraTxJobs)
        <5>1. s \in AuraJobs
          BY <1>0, <4>2 DEF InFlight
        <5>2. s.of \in AuraBlocks /\ s.list \in answers[s.of]
          BY <4>2, <5>1, ListsLemma DEF AuraInv, AuraJobs
        <5> QED
          BY <2>6, <5>2
      <4> QED
        BY <2>2, <2>5, <4>1, <4>2 DEF waits
    <3>2. atTx' # <<>> => atTx'[1].job.list \in answers'[atTx'[1].job.of]
      BY <1>0, <2>2, <2>6, AuraWorkLemma DEF AuraInv, ListsAreAnswers
    <3> QED
      BY <3>1, <3>2, ListsNextLemma
  <2>9. ASSUME NEW b, OnTheWay(b) PROVE OnTheWay(b)'
    BY <2>2, <2>4, <2>5, <2>9, OnTheWayLemma, OnTheWayNextLemma DEF Has, waits, of
  <2> QED
    BY <2>2, <2>6, <2>7, <2>8, <2>9, KeepsLemma DEF AuraInv, Traced
<1>5. CASE FetchByHeightNull
  <2> DEFINE of == atCrawl[1].job.of
  <2>1. /\ atCrawl # <<>> /\ atCrawl' = <<>>
        /\ failedJobs' = failedJobs \union {<<"crawl", of>>}
        /\ UNCHANGED <<waits, atBlock, atTx, auraSends, blockDb, txDb, history>>
    BY <1>5 DEF FetchByHeightNull
  <2>2. of \in AuraBlocks
    BY <1>0, <2>1, AuraWorkLemma
  <2>3. AuraInv'
    <3>1. atCrawl' \in Seq(AuraWork({"fetch", "done"}))
      BY <2>1, EmptyLemma
    <3>2. failedJobs' \subseteq {"block", "crawl", "handle"} \X AuraBlocks
      BY <1>0, <2>1, <2>2 DEF AuraTypeOK
    <3> QED
      BY <2>1, <3>1, <3>2 DEF AuraInv, AuraTypeOK, ListsAreAnswers, SavedOrToDo, history, auraSends, waits
  <2>4. ASSUME NEW b, OnTheWay(b) PROVE OnTheWay(b)' \/ <<"crawl", b>> \in failedJobs'
    BY <2>1, <2>4, OnTheWayLemma, OnTheWayNextLemma DEF Has, auraSends, waits
  <2> QED
    BY <2>1, <2>3, <2>4, KeepsLemma DEF Traced, history
<1>6. CASE CompleteAuraCrawl
  <2>1. /\ atCrawl[1].step = "done" /\ atCrawl' = <<>>
        /\ UNCHANGED <<waits, atBlock, atTx, auraSends, blockDb, txDb, failedJobs, history>>
    BY <1>6 DEF CompleteAuraCrawl
  <2>2. AuraInv'
    <3>1. atCrawl' \in Seq(AuraWork({"fetch", "done"}))
      BY <2>1, EmptyLemma
    <3> QED
      BY <2>1, <3>1 DEF AuraInv, AuraTypeOK, ListsAreAnswers, SavedOrToDo, history, auraSends, waits
  <2>3. ASSUME NEW b, OnTheWay(b) PROVE OnTheWay(b)'
    BY <2>1, <2>3, OnTheWayLemma, OnTheWayNextLemma DEF Has, auraSends, waits
  <2> QED
    BY <2>1, <2>2, <2>3, KeepsLemma DEF Traced, history
<1> QED
  BY <1>1, <1>2, <1>3, <1>4, <1>5, <1>6

\* A list that is handled is stored, fails, or did not have the transaction.
LEMMA AuraTxStep ==
    ASSUME AuraInv,
           \/ RejectList \/ AnnounceList \/ FindList \/ EndList
           \/ \E b \in AuraBlocks : \E t \in ToSet(InBlock[b]) : SaveTx(t) \/ SaveTxFails(t)
    PROVE  AuraInv' /\ Keeps
<1> DEFINE Rest == UNCHANGED <<blockJobs, auraCrawlJobs, atBlock, atCrawl, auraSends, blockDb, answers, lostSends>>
           steps == {"find", "save", "fail"}
<1>0. AuraTypeOK /\ auraTxJobs \in Seq(AuraJobs) /\ txSends \in Seq(AuraJobs)
  BY DEF AuraInv, AuraTypeOK
<1>1. CASE RejectList \/ AnnounceList
  <2> DEFINE job == Head(auraTxJobs)
             work == [job |-> job, step |-> "find", todo |-> {}]
  <2>1. /\ atTx = <<>> /\ auraTxJobs # <<>> /\ auraTxJobs' = Tail(auraTxJobs)
        /\ Rest /\ UNCHANGED txDb
        /\ \/ atTx' = atTx /\ failedJobs' = failedJobs \union {<<"handle", job.of>>}
           \/ atTx' = <<work>> /\ failedJobs' = failedJobs /\ job.list \intersect Undecodable = {}
    BY <1>1 DEF RejectList, AnnounceList, history
  <2>2. /\ job \in AuraJobs /\ auraTxJobs' \in Seq(AuraJobs)
        /\ InFlight(auraTxJobs) = {job} \union InFlight(auraTxJobs')
    BY <1>0, <2>1, ArriveLemma
  <2>3. job.of \in AuraBlocks /\ work \in AuraWork(steps) /\ work.job = job /\ work.step = "find" /\ work.todo = {}
    BY <2>2 DEF AuraJobs, AuraWork
  <2>4. job.list \in answers[job.of]
    BY <2>2, ListsLemma DEF AuraInv
  <2> HIDE DEF job, work
  <2>5. AuraTypeOK' /\ SavedOrToDo'
    <3>1. atTx' \in Seq(AuraWork(steps))
      <4>1. CASE atTx' = <<work>>
        BY <2>3, <4>1
      <4>2. CASE atTx' = atTx
        BY <2>1, <4>2, EmptyLemma
      <4> QED
        BY <2>1, <4>1, <4>2
    <3>2. failedJobs' \subseteq {"block", "crawl", "handle"} \X AuraBlocks
      BY <1>0, <2>1, <2>3 DEF AuraTypeOK
    <3> QED
      BY <1>0, <2>1, <2>2, <2>3, <3>1, <3>2 DEF AuraTypeOK, SavedOrToDo, auraSends
  <2>6. ListsAreAnswers'
    BY <2>1, <2>2, <2>3, <2>4, ListsLemma, ListsNextLemma DEF AuraInv, auraSends
  <2>7. ASSUME NEW b, OnTheWay(b) PROVE OnTheWay(b)' \/ <<"handle", b>> \in failedJobs'
    <3>1. CASE job.of = b
      <4>1. CASE atTx' = <<work>>
        <5>1. atTx' # <<>> /\ atTx'[1].job.of = b /\ atTx'[1].step # "done"
          BY <2>3, <3>1, <4>1
        <5> QED
          BY <5>1, OnTheWayNextLemma
      <4>2. CASE failedJobs' = failedJobs \union {<<"handle", job.of>>}
        BY <3>1, <4>2
      <4> QED
        BY <2>1, <4>1, <4>2
    <3>2. CASE job.of # b
      BY <2>1, <2>2, <2>7, <3>2, OnTheWayLemma, OnTheWayNextLemma DEF Has, auraSends
    <3> QED
      BY <3>1, <3>2
  <2> QED
    BY <2>1, <2>5, <2>6, <2>7, KeepsLemma DEF AuraInv, Traced
<1>2. ASSUME atTx # <<>>, NEW work, atTx' = <<work>>, work \in AuraWork(steps), work.job = atTx[1].job,
             work.todo \subseteq atTx[1].job.list,
             work.step = "save" => atTx[1].job.list \subseteq txDb' \union work.todo,
             Rest, UNCHANGED <<auraTxJobs, failedJobs>>, txDb \subseteq txDb', txDb' \subseteq AuraTxs
      PROVE  AuraInv' /\ Keeps
  <2>1. AuraTypeOK' /\ SavedOrToDo'
    <3>1. atTx' \in Seq(AuraWork(steps)) /\ atTx' # <<>> /\ atTx'[1] = work
      BY <1>2
    <3> QED
      BY <1>0, <1>2, <3>1 DEF AuraTypeOK, SavedOrToDo, auraSends
  <2>2. ListsAreAnswers'
    BY <1>2, ListsLemma, ListsNextLemma DEF AuraInv, auraSends
  <2>3. ASSUME NEW b, OnTheWay(b) PROVE OnTheWay(b)'
    <3>1. work.step # "done" /\ atTx' # <<>> /\ atTx'[1] = work
      BY <1>2 DEF AuraWork
    <3> QED
      BY <1>2, <2>3, <3>1, OnTheWayLemma, OnTheWayNextLemma DEF auraSends
  <2> QED
    BY <1>2, <2>1, <2>2, <2>3, KeepsLemma DEF AuraInv, Traced
<1>3. atTx # <<>> => /\ atTx[1] \in AuraWork(steps) /\ atTx[1].job \in AuraJobs /\ atTx[1].job.of \in AuraBlocks
                     /\ atTx[1].job.list \subseteq AuraTxs /\ txDb \subseteq AuraTxs
                     /\ atTx[1].todo \subseteq atTx[1].job.list
  BY <1>0, AuraWorkLemma DEF AuraTypeOK, AuraJobs
<1>4. CASE FindList
  <2>1. /\ atTx # <<>>
        /\ Rest /\ UNCHANGED <<auraTxJobs, failedJobs, txDb>>
        /\ \/ atTx' = <<[atTx[1] EXCEPT !.step = "save", !.todo = atTx[1].job.list \ txDb]>>
           \/ atTx' = <<[atTx[1] EXCEPT !.step = "fail"]>>
    BY <1>4 DEF FindList, waits, history
  <2>2. CASE atTx' = <<[atTx[1] EXCEPT !.step = "save", !.todo = atTx[1].job.list \ txDb]>>
    <3> DEFINE work == [atTx[1] EXCEPT !.step = "save", !.todo = atTx[1].job.list \ txDb]
    <3>1. /\ work \in AuraWork(steps) /\ work.job = atTx[1].job
          /\ work.step = "save" /\ work.todo = atTx[1].job.list \ txDb
      BY <1>3, <2>1 DEF AuraWork
    <3> HIDE DEF work
    <3> QED
      BY <1>2, <1>3, <2>1, <2>2, <3>1 DEF work
  <2>3. CASE atTx' = <<[atTx[1] EXCEPT !.step = "fail"]>>
    <3> DEFINE work == [atTx[1] EXCEPT !.step = "fail"]
    <3>1. /\ work \in AuraWork(steps) /\ work.job = atTx[1].job
          /\ work.step = "fail" /\ work.todo = atTx[1].todo
      BY <1>3, <2>1 DEF AuraWork
    <3> HIDE DEF work
    <3> QED
      BY <1>2, <1>3, <2>1, <2>3, <3>1 DEF work
  <2> QED
    BY <2>1, <2>2, <2>3
<1>5. ASSUME NEW b \in AuraBlocks, NEW t \in ToSet(InBlock[b]), SaveTx(t)
      PROVE  AuraInv' /\ Keeps
  <2> DEFINE work == [atTx[1] EXCEPT !.todo = @ \ {t}]
  <2>1. /\ atTx # <<>> /\ t \in atTx[1].todo /\ atTx' = <<work>> /\ txDb' = txDb \union {t}
        /\ Rest /\ UNCHANGED <<auraTxJobs, failedJobs>>
    BY <1>5 DEF SaveTx, waits, history
  <2>2. /\ work \in AuraWork(steps) /\ work.job = atTx[1].job
        /\ work.step = atTx[1].step /\ work.todo = atTx[1].todo \ {t}
    BY <1>3, <2>1 DEF AuraWork
  <2> HIDE DEF work
  <2>3. work.step = "save" => atTx[1].job.list \subseteq txDb' \union work.todo
    BY <2>1, <2>2 DEF AuraInv, SavedOrToDo
  <2>4. txDb' \subseteq AuraTxs
    BY <1>3, <2>1
  <2> QED
    BY <1>2, <1>3, <2>1, <2>2, <2>3, <2>4
<1>6. ASSUME NEW b \in AuraBlocks, NEW t \in ToSet(InBlock[b]), SaveTxFails(t)
      PROVE  AuraInv' /\ Keeps
  <2> DEFINE work == [atTx[1] EXCEPT !.todo = @ \ {t}, !.step = "fail"]
  <2>1. /\ atTx # <<>> /\ t \in atTx[1].todo /\ atTx' = <<work>>
        /\ Rest /\ UNCHANGED <<auraTxJobs, failedJobs, txDb>>
    BY <1>6 DEF SaveTxFails, waits, history
  <2>2. /\ work \in AuraWork(steps) /\ work.job = atTx[1].job
        /\ work.step = "fail" /\ work.todo = atTx[1].todo \ {t}
    BY <1>3, <2>1 DEF AuraWork
  <2> HIDE DEF work
  <2> QED
    BY <1>2, <1>3, <2>1, <2>2
<1>7. CASE EndList
  <2> DEFINE job == atTx[1].job
  <2>1. /\ atTx # <<>> /\ atTx[1].step # "find" /\ atTx[1].todo = {} /\ atTx' = <<>>
        /\ failedJobs' = IF atTx[1].step = "save" THEN failedJobs
                         ELSE failedJobs \union {<<"handle", job.of>>}
        /\ Rest /\ UNCHANGED <<auraTxJobs, txDb>>
    BY <1>7 DEF EndList, waits, history
  <2>2. AuraTypeOK' /\ SavedOrToDo'
    <3>1. atTx' \in Seq(AuraWork(steps)) /\ failedJobs' \subseteq {"block", "crawl", "handle"} \X AuraBlocks
      BY <1>0, <1>3, <2>1, EmptyLemma DEF AuraTypeOK
    <3> QED
      BY <1>0, <2>1, <3>1 DEF AuraTypeOK, SavedOrToDo, auraSends
  <2>3. ListsAreAnswers'
    BY <2>1, ListsLemma, ListsNextLemma DEF AuraInv, auraSends
  <2>4. ASSUME NEW b \in AuraBlocks, NEW t \in ToSet(InBlock[b]), OnTheWay(b)
        PROVE  Traced(b, t)'
    <3>1. CASE job.of = b /\ atTx[1].step = "save"
      <4>1. job.list \subseteq txDb /\ job.list \in answers[b]
        BY <2>1, <3>1 DEF AuraInv, SavedOrToDo, ListsAreAnswers
      <4> QED
        BY <2>1, <4>1 DEF Traced
    <3>2. CASE job.of = b /\ atTx[1].step # "save"
      BY <2>1, <3>2 DEF Traced
    <3>3. CASE job.of # b
      <4>1. OnTheWay(b)'
        BY <2>1, <2>4, <3>3, OnTheWayLemma, OnTheWayNextLemma DEF auraSends
      <4> QED
        BY <4>1 DEF Traced
    <3> QED
      BY <3>1, <3>2, <3>3
  <2>5. failedJobs \subseteq failedJobs'
    BY <2>1
  <2> QED
    BY <2>1, <2>2, <2>3, <2>4, <2>5, KeepsLemma DEF AuraInv
<1> QED
  BY <1>1, <1>4, <1>5, <1>6, <1>7

\* A death puts each job back, or in the failed set, and loses what was on its way to Redis.
LEMMA CrashAuraStep ==
    ASSUME AuraInv, CrashAura
    PROVE  AuraInv' /\ Keeps
<1>0. /\ AuraTypeOK
      /\ blockJobs \in Seq(AuraJobs) /\ auraCrawlJobs \in Seq(AuraJobs) /\ auraTxJobs \in Seq(AuraJobs)
      /\ crawlSends \in Seq(AuraJobs) /\ txSends \in Seq(AuraJobs)
      /\ atBlock \in Seq(AuraWork({"insert", "done"})) /\ atCrawl \in Seq(AuraWork({"fetch", "done"}))
      /\ atTx \in Seq(AuraWork({"find", "save", "fail"}))
  BY DEF AuraInv, AuraTypeOK
<1>1. /\ blockJobs' = Stalled(atBlock) \o blockJobs
      /\ auraCrawlJobs' = Stalled(atCrawl) \o auraCrawlJobs
      /\ auraTxJobs' = Stalled(atTx) \o auraTxJobs
      /\ atBlock' = <<>> /\ atCrawl' = <<>> /\ atTx' = <<>>
      /\ failedJobs' = failedJobs \union StalledTwice("block", atBlock) \union StalledTwice("crawl", atCrawl)
                                  \union StalledTwice("handle", atTx)
      /\ lostSends' = lostSends \union {s.of : s \in ToSet(crawlSends \o txSends)}
      /\ crawlSends' = <<>> /\ txSends' = <<>>
      /\ UNCHANGED <<blockDb, txDb, answers>>
  BY DEF CrashAura
<1>2. /\ blockJobs' \in Seq(AuraJobs)
      /\ StalledTwice("block", atBlock) \subseteq {"block"} \X AuraBlocks
  BY <1>0, <1>1, StalledLemma
<1>3. /\ auraCrawlJobs' \in Seq(AuraJobs)
      /\ StalledTwice("crawl", atCrawl) \subseteq {"crawl"} \X AuraBlocks
      /\ InFlight(auraCrawlJobs) \subseteq InFlight(auraCrawlJobs')
      /\ atCrawl # <<>> => \/ Has(auraCrawlJobs', atCrawl[1].job.of)
                           \/ <<"crawl", atCrawl[1].job.of>> \in failedJobs'
  BY <1>0, <1>1, StalledLemma
<1>4. /\ auraTxJobs' \in Seq(AuraJobs)
      /\ StalledTwice("handle", atTx) \subseteq {"handle"} \X AuraBlocks
      /\ InFlight(auraTxJobs) \subseteq InFlight(auraTxJobs')
      /\ \A s \in InFlight(auraTxJobs') \ InFlight(auraTxJobs) :
            atTx # <<>> /\ s.of = atTx[1].job.of /\ s.list = atTx[1].job.list
      /\ atTx # <<>> => \/ Has(auraTxJobs', atTx[1].job.of)
                        \/ <<"handle", atTx[1].job.of>> \in failedJobs'
  BY <1>0, <1>1, StalledLemma
<1>5. ToSet(crawlSends \o txSends) = InFlight(crawlSends) \union InFlight(txSends)
  <2>1. InFlight(crawlSends \o txSends) = InFlight(crawlSends) \union InFlight(txSends)
    BY <1>0, SendLemma
  <2> QED
    BY <2>1 DEF ToSet, InFlight
<1>6. \A s \in InFlight(crawlSends) \union InFlight(txSends) : s.of \in AuraBlocks /\ s.of \in lostSends'
  <2>1. InFlight(crawlSends) \union InFlight(txSends) \subseteq AuraJobs
    BY <1>0 DEF InFlight
  <2> QED
    BY <1>1, <1>5, <2>1 DEF AuraJobs
<1>7. AuraTypeOK' /\ SavedOrToDo'
  <2>1. lostSends' \subseteq AuraBlocks
    BY <1>0, <1>1, <1>5, <1>6 DEF AuraTypeOK
  <2>2. failedJobs' \subseteq {"block", "crawl", "handle"} \X AuraBlocks
    BY <1>0, <1>1, <1>2, <1>3, <1>4 DEF AuraTypeOK
  <2>3. \A D : <<>> \in Seq(D)
    BY EmptyLemma
  <2> QED
    BY <1>0, <1>1, <1>2, <1>3, <1>4, <2>1, <2>2, <2>3 DEF AuraTypeOK, SavedOrToDo
<1>8. ListsAreAnswers'
  <2>1. \A s \in InFlight(auraTxJobs') : s.list \in answers[s.of]
    BY <1>4, ListsLemma DEF AuraInv
  <2>2. InFlight(txSends') = {}
    BY <1>1, EmptyLemma
  <2> QED
    BY <1>1, <2>1, <2>2, ListsNextLemma
<1>9. ASSUME NEW b \in AuraBlocks, NEW t \in ToSet(InBlock[b]), OnTheWay(b)
      PROVE  Traced(b, t)'
  <2>1. CASE Has(crawlSends, b) \/ Has(txSends, b)
    BY <1>6, <2>1 DEF Has, Traced
  <2>2. CASE Has(auraCrawlJobs, b) \/ Has(auraTxJobs, b)
    <3>1. OnTheWay(b)'
      BY <1>3, <1>4, <2>2, OnTheWayNextLemma DEF Has
    <3> QED
      BY <3>1 DEF Traced
  <2>3. CASE (atCrawl # <<>> /\ atCrawl[1].job.of = b) \/ (atTx # <<>> /\ atTx[1].job.of = b)
    <3>1. OnTheWay(b)' \/ <<"crawl", b>> \in failedJobs' \/ <<"handle", b>> \in failedJobs'
      BY <1>3, <1>4, <2>3, OnTheWayNextLemma
    <3> QED
      BY <3>1 DEF Traced
  <2> QED
    BY <1>9, <2>1, <2>2, <2>3, OnTheWayLemma
<1>10. failedJobs \subseteq failedJobs' /\ lostSends \subseteq lostSends'
  BY <1>1
<1> QED
  BY <1>1, <1>7, <1>8, <1>9, <1>10, KeepsLemma DEF AuraInv

LEMMA AuraInvStep ==
    ASSUME AuraInv, [AuraNext]_auraVars
    PROVE  AuraInv' /\ Keeps
<1>1. CASE AuraNext
  BY <1>1, AuraBlockStep, AuraCrawlStep, AuraTxStep, CrashAuraStep DEF AuraNext, AuraStep
<1>2. CASE UNCHANGED auraVars
  <2>1. AuraInv'
    BY <1>2 DEF auraVars, AuraInv, AuraTypeOK, ListsAreAnswers, SavedOrToDo
  <2>2. Keeps
    BY <1>2 DEF auraVars, Keeps, Traced, OnTheWay
  <2> QED
    BY <2>1, <2>2
<1> QED
  BY <1>1, <1>2

\* A block is inserted last: the job for its transactions was created with the find.
LEMMA InsertedLastStep ==
    ASSUME AuraInv, Keeps, AuraAccounted, InsertedLast, [AuraNext]_auraVars
    PROVE  AuraAccounted' /\ InsertedLast'
<1>0. AuraTypeOK /\ blockDb \subseteq AuraBlocks
  BY DEF AuraInv, AuraTypeOK
<1>1. ASSUME NEW b \in blockDb', NEW t \in ToSet(InBlock[b])
      PROVE  Traced(b, t)'
  <2>1. b \in blockDb \/ (atBlock # <<>> /\ b = atBlock[1].job.of)
    BY DEF AuraNext, AuraStep, SendLands, FindAuraBlock, InsertAuraBlock, AuraBlockFails, CompleteAuraBlock,
           StartAuraCrawl, FetchByHeight, FetchByHeightNull, CompleteAuraCrawl, RejectList, AnnounceList, FindList, EndList,
           SaveTx, SaveTxFails, CrashAura, HandOverBlock, auraVars
  <2>2. Traced(b, t) /\ b \in AuraBlocks
    BY <1>0, <2>1, AuraWorkLemma DEF AuraAccounted, InsertedLast
  <2> QED
    BY <2>2 DEF Keeps
<1>2. ASSUME NEW b \in AuraBlocks, atBlock' # <<>>, atBlock'[1].job.of = b, NEW t \in ToSet(InBlock[b])
      PROVE  Traced(b, t)'
  <2>1. CASE FindAuraBlock
    <3>1. /\ blockJobs # <<>> /\ b = Head(blockJobs).of
          /\ crawlSends' = IF InBlock[b] = <<>> THEN crawlSends ELSE Append(crawlSends, AuraJob(b, {}))
      BY <1>2, <2>1 DEF FindAuraBlock
    <3>2. crawlSends \in Seq(AuraJobs)
      BY <1>0 DEF AuraTypeOK
    <3>3. InBlock[b] # <<>>
      BY DEF ToSet
    <3>4. AuraJob(b, {}) \in AuraJobs /\ AuraJob(b, {}).of = b
      BY AuraJobLemma DEF AuraJob
    <3>5. InFlight(crawlSends') = InFlight(crawlSends) \union {AuraJob(b, {})}
      BY <3>1, <3>2, <3>3, <3>4, SendOneLemma
    <3>6. Has(crawlSends', b)
      BY <3>4, <3>5 DEF Has
    <3>7. OnTheWay(b)'
      BY <3>6, OnTheWayNextLemma
    <3> QED
      BY <3>7 DEF Traced
  <2>2. CASE ~FindAuraBlock
    <3>1. atBlock # <<>> /\ b = atBlock[1].job.of
      <4>1. CASE InsertAuraBlock
        BY <1>0, <1>2, <4>1, AuraWorkLemma DEF InsertAuraBlock, AuraWork
      <4>2. CASE ~InsertAuraBlock
        <5>1. atBlock' \in {atBlock, <<>>}
          BY <2>2, <4>2
          DEF AuraNext, AuraStep, SendLands, AuraBlockFails, CompleteAuraBlock,
              StartAuraCrawl, FetchByHeight, FetchByHeightNull, CompleteAuraCrawl, RejectList, AnnounceList, FindList, EndList,
              SaveTx, SaveTxFails, CrashAura, HandOverBlock, auraVars
        <5> QED
          BY <1>2, <5>1
      <4> QED
        BY <4>1, <4>2
    <3>2. Traced(b, t)
      BY <3>1 DEF InsertedLast
    <3> QED
      BY <3>2 DEF Keeps
  <2> QED
    BY <2>1, <2>2
<1>3. AuraAccounted'
  BY <1>1 DEF AuraAccounted
<1> QED
  BY <1>2, <1>3 DEF InsertedLast

-----------------------------------------------------------------------------
(* How often a block's list is announced (AuraTransactions).  Jobs are counted *)
(* in each queue: what is to come and what has been is at most what came.      *)

\* The jobs of a queue that are of block b.
OfBlock(q, b) == {i \in DOMAIN q : q[i].of = b}
Times(q, b) == Cardinality(OfBlock(q, b))

\* An active job of crawl.transaction has still to send the list of block b.
Fetching(b) == IF atCrawl # <<>> /\ atCrawl[1].step = "fetch" /\ atCrawl[1].job.of = b THEN 1 ELSE 0

\* The announcements of block b that are still to come, unless a process dies.
ToAnnounce(b) ==
    Times(blockJobs, b) + Times(crawlSends, b) + Times(auraCrawlJobs, b) + Fetching(b)
        + Times(txSends, b) + Times(auraTxJobs, b)

CountTypes == announced \in [AuraBlocks -> Nat] /\ handOvers \in [AuraBlocks -> Nat] /\ auraCrashes \in Nat
CountedAtMost == \A b \in AuraBlocks : announced[b] + ToAnnounce(b) <= handOvers[b] + 3 * auraCrashes
CountInv == CountTypes /\ CountedAtMost

LEMMA TimesLemma ==
    ASSUME NEW q \in Seq(AuraJobs), NEW b
    PROVE  IsFiniteSet(OfBlock(q, b)) /\ Times(q, b) \in Nat
<1>1. IsFiniteSet(1 .. Len(q)) /\ DOMAIN q = 1 .. Len(q)
  BY FS_Interval
<1>2. IsFiniteSet(OfBlock(q, b))
  BY <1>1, FS_Subset DEF OfBlock
<1> QED
  BY <1>2, FS_CardinalityType DEF Times

LEMMA TimesNoneLemma == \A b : Times(<<>>, b) = 0
<1>1. \A b : OfBlock(<<>>, b) = {}
  BY DEF OfBlock
<1> QED
  BY <1>1, FS_EmptySet DEF Times

LEMMA TimesAppendLemma ==
    ASSUME NEW q \in Seq(AuraJobs), NEW s \in AuraJobs, NEW b
    PROVE  Times(Append(q, s), b) = IF s.of = b THEN Times(q, b) + 1 ELSE Times(q, b)
<1> DEFINE n == Len(q)
           new == Append(q, s)
<1>1. /\ n \in Nat /\ DOMAIN q = 1 .. n /\ DOMAIN new = 1 .. n + 1
      /\ \A i \in 1 .. n : new[i] = q[i]
      /\ new[n + 1] = s
  OBVIOUS
<1> HIDE DEF n, new
<1>2. OfBlock(new, b) = IF s.of = b THEN OfBlock(q, b) \union {n + 1} ELSE OfBlock(q, b)
  BY <1>1 DEF OfBlock
<1>3. n + 1 \notin OfBlock(q, b) /\ IsFiniteSet(OfBlock(q, b))
  <2>1. n + 1 \notin OfBlock(q, b)
    BY <1>1 DEF OfBlock
  <2> QED
    BY <2>1, TimesLemma
<1>4. Times(new, b) = IF s.of = b THEN Times(q, b) + 1 ELSE Times(q, b)
  BY <1>2, <1>3, FS_AddElement DEF Times
<1> QED
  BY <1>4 DEF new

LEMMA TimesTailLemma ==
    ASSUME NEW q \in Seq(AuraJobs), q # <<>>, NEW b
    PROVE  Times(q, b) = IF Head(q).of = b THEN Times(Tail(q), b) + 1 ELSE Times(Tail(q), b)
<1> DEFINE n == Len(q)
           rest == Tail(q)
           later == OfBlock(q, b) \ {1}
           shift == [i \in later |-> i - 1]
<1>1. /\ n \in Nat \ {0} /\ DOMAIN q = 1 .. n
      /\ rest \in Seq(AuraJobs) /\ DOMAIN rest = 1 .. n - 1
      /\ \A i \in 1 .. n - 1 : rest[i] = q[i + 1]
      /\ Head(q) = q[1]
  OBVIOUS
<1> HIDE DEF n, rest
<1>2. later \subseteq 2 .. n /\ \A i \in later : q[i].of = b
  BY <1>1 DEF OfBlock
<1>3. ASSUME NEW i \in later PROVE i - 1 \in OfBlock(rest, b)
  <2>1. i \in 2 .. n /\ q[i].of = b
    BY <1>2
  <2>2. i - 1 \in 1 .. n - 1 /\ rest[i - 1] = q[(i - 1) + 1] /\ (i - 1) + 1 = i
    BY <1>1, <2>1
  <2> QED
    BY <1>1, <2>1, <2>2 DEF OfBlock
<1>4. ASSUME NEW j \in OfBlock(rest, b) PROVE j + 1 \in later /\ (j + 1) - 1 = j
  <2>1. j \in 1 .. n - 1 /\ rest[j].of = b
    BY <1>1 DEF OfBlock
  <2>2. j + 1 \in 1 .. n /\ j + 1 # 1 /\ q[j + 1].of = b /\ (j + 1) - 1 = j
    BY <1>1, <2>1
  <2> QED
    BY <1>1, <2>2 DEF OfBlock
<1>5. shift \in Bijection(later, OfBlock(rest, b))
  <2>1. shift \in [later -> OfBlock(rest, b)]
    BY <1>3
  <2>2. \A i, j \in later : shift[i] = shift[j] => i = j
    <3> HIDE DEF later
    <3> QED
      BY <1>2
  <2>3. \A j \in OfBlock(rest, b) : \E i \in later : shift[i] = j
    BY <1>4
  <2> HIDE DEF shift, later
  <2> QED
    BY <2>1, <2>2, <2>3 DEF Bijection, Injection, Surjection, IsInjective
<1>6. IsFiniteSet(OfBlock(q, b)) /\ IsFiniteSet(later)
  BY TimesLemma, FS_RemoveElement
<1>7. Cardinality(OfBlock(rest, b)) = Cardinality(later)
  <2> HIDE DEF later, shift
  <2> QED
    BY <1>5, <1>6, FS_Bijection DEF ExistsBijection
<1>8. 1 \in OfBlock(q, b) <=> Head(q).of = b
  BY <1>1 DEF OfBlock
<1>9. Cardinality(later) = IF Head(q).of = b THEN Cardinality(OfBlock(q, b)) - 1 ELSE Cardinality(OfBlock(q, b))
  BY <1>6, <1>8, FS_RemoveElement
<1>10. Times(q, b) \in Nat
  BY TimesLemma
<1>11. Times(q, b) = IF Head(q).of = b THEN Times(rest, b) + 1 ELSE Times(rest, b)
  <2> HIDE DEF later
  <2> QED
    BY <1>7, <1>9, <1>10 DEF Times
<1> QED
  BY <1>11 DEF rest

\* A job that stalled is one job more of its queue.
LEMMA TimesStalledLemma ==
    ASSUME NEW q \in Seq(AuraJobs), NEW steps, NEW at \in Seq(AuraWork(steps)), NEW b
    PROVE  Times(Stalled(at) \o q, b) <= Times(q, b) + 1
<1>1. CASE Stalled(at) = <<>>
  <2>1. Stalled(at) \o q = q
    BY <1>1
  <2> QED
    BY <2>1, TimesLemma
<1>2. CASE Stalled(at) # <<>>
  <2> DEFINE again == [at[1].job EXCEPT !.stalled = TRUE]
             new == <<again>> \o q
  <2>1. Stalled(at) = <<again>> /\ at # <<>>
    BY <1>2 DEF Stalled
  <2>2. again \in AuraJobs
    <3>1. at[1] \in AuraWork(steps)
      BY <2>1
    <3> QED
      BY <3>1 DEF AuraWork, AuraJobs
  <2> HIDE DEF again
  <2>3. new \in Seq(AuraJobs) /\ new # <<>> /\ Tail(new) = q
    BY <2>2
  <2> HIDE DEF new
  <2>4. Times(q, b) \in Nat
    BY TimesLemma
  <2>5. Times(new, b) <= Times(q, b) + 1
    <3>1. Times(new, b) = IF Head(new).of = b THEN Times(Tail(new), b) + 1 ELSE Times(Tail(new), b)
      BY <2>3, TimesTailLemma
    <3>2. Times(new, b) \in {Times(q, b), Times(q, b) + 1}
      BY <2>3, <3>1
    <3> QED
      BY <2>4, <3>2
  <2> QED
    BY <2>1, <2>5 DEF new
<1> QED
  BY <1>1, <1>2

LEMMA InitCountInv == AuraInit => CountInv
<1> SUFFICES ASSUME AuraInit PROVE CountInv
  OBVIOUS
<1>1. CountTypes
  BY DEF AuraInit, CountTypes
<1>2. \A b : Times(blockJobs, b) = 0 /\ Times(crawlSends, b) = 0 /\ Times(auraCrawlJobs, b) = 0
             /\ Times(txSends, b) = 0 /\ Times(auraTxJobs, b) = 0 /\ Fetching(b) = 0
  BY TimesNoneLemma DEF AuraInit, Fetching
<1>3. CountedAtMost
  BY <1>2 DEF AuraInit, CountedAtMost, ToAnnounce
<1> QED
  BY <1>1, <1>3 DEF CountInv

\* A job leaves one place before it is at the next, and none makes two of it but a death.
LEMMA CountStep ==
    ASSUME AuraInv, CountInv, [AuraNext]_auraVars
    PROVE  CountInv'
<1>0. /\ AuraTypeOK /\ CountTypes
      /\ blockJobs \in Seq(AuraJobs) /\ auraCrawlJobs \in Seq(AuraJobs) /\ auraTxJobs \in Seq(AuraJobs)
      /\ crawlSends \in Seq(AuraJobs) /\ txSends \in Seq(AuraJobs)
  BY DEF AuraInv, AuraTypeOK, CountInv
<1>1. AuraTypeOK' /\ CountTypes'
  <2>1. AuraTypeOK'
    BY AuraInvStep DEF AuraInv
  <2>2. ASSUME CrashAura PROVE CountTypes'
    BY <1>0, <2>2 DEF CrashAura, CountTypes
  <2>3. ASSUME AnnounceList PROVE CountTypes'
    <3>1. /\ announced' = [announced EXCEPT ![Head(auraTxJobs).of] = @ + 1]
          /\ UNCHANGED <<handOvers, auraCrashes>> /\ auraTxJobs # <<>>
      BY <2>3 DEF AnnounceList, faultCounts
    <3>2. Head(auraTxJobs) \in AuraJobs
      BY <1>0, <3>1
    <3>3. Head(auraTxJobs).of \in AuraBlocks
      BY <3>2 DEF AuraJobs
    <3> QED
      BY <1>0, <3>1, <3>3 DEF CountTypes
  <2>4. ASSUME NEW b \in AuraBlocks, HandOverBlock(b) PROVE CountTypes'
    BY <1>0, <2>4 DEF HandOverBlock, CountTypes, faultCounts
  <2>5. ASSUME UNCHANGED <<announced, handOvers, auraCrashes>> PROVE CountTypes'
    BY <1>0, <2>5 DEF CountTypes
  <2>6. \/ CrashAura \/ AnnounceList \/ UNCHANGED <<announced, handOvers, auraCrashes>>
        \/ \E b \in AuraBlocks : HandOverBlock(b)
    BY DEF AuraNext, AuraStep, SendLands, FindAuraBlock, InsertAuraBlock, AuraBlockFails, CompleteAuraBlock,
           StartAuraCrawl, FetchByHeight, FetchByHeightNull, CompleteAuraCrawl, RejectList, FindList, EndList,
           SaveTx, SaveTxFails, auraVars, history, faultCounts
  <2> QED
    BY <2>1, <2>2, <2>3, <2>4, <2>5, <2>6
<1>2. /\ blockJobs' \in Seq(AuraJobs) /\ auraCrawlJobs' \in Seq(AuraJobs) /\ auraTxJobs' \in Seq(AuraJobs)
      /\ crawlSends' \in Seq(AuraJobs) /\ txSends' \in Seq(AuraJobs)
  BY <1>1 DEF AuraTypeOK
<1> SUFFICES ASSUME NEW b \in AuraBlocks
             PROVE  announced'[b] + ToAnnounce(b)' <= handOvers'[b] + 3 * auraCrashes'
  BY <1>1 DEF CountInv, CountedAtMost
<1> DEFINE Old == announced[b] + ToAnnounce(b) <= handOvers[b] + 3 * auraCrashes
           New == announced'[b] + ToAnnounce(b)' <= handOvers'[b] + 3 * auraCrashes'
           Histories == UNCHANGED <<announced, handOvers, auraCrashes>>
<1>3. Old
  BY DEF CountInv, CountedAtMost
<1>4. /\ announced[b] \in Nat /\ handOvers[b] \in Nat /\ auraCrashes \in Nat
      /\ announced'[b] \in Nat /\ handOvers'[b] \in Nat /\ auraCrashes' \in Nat
  BY <1>0, <1>1 DEF CountTypes
<1>5. /\ Times(blockJobs, b) \in Nat /\ Times(crawlSends, b) \in Nat /\ Times(auraCrawlJobs, b) \in Nat
      /\ Times(txSends, b) \in Nat /\ Times(auraTxJobs, b) \in Nat
      /\ Times(blockJobs', b) \in Nat /\ Times(crawlSends', b) \in Nat /\ Times(auraCrawlJobs', b) \in Nat
      /\ Times(txSends', b) \in Nat /\ Times(auraTxJobs', b) \in Nat
  BY <1>0, <1>2, TimesLemma
<1>6. Fetching(b) \in {0, 1} /\ Fetching(b)' \in {0, 1}
  BY DEF Fetching
<1>7. /\ ToAnnounce(b) = Times(blockJobs, b) + Times(crawlSends, b) + Times(auraCrawlJobs, b) + Fetching(b)
                             + Times(txSends, b) + Times(auraTxJobs, b)
      /\ ToAnnounce(b)' = Times(blockJobs', b) + Times(crawlSends', b) + Times(auraCrawlJobs', b) + Fetching(b)'
                              + Times(txSends', b) + Times(auraTxJobs', b)
  BY DEF ToAnnounce
<1> SUFFICES New
  OBVIOUS
<1> HIDE DEF New
<1>8. ASSUME Histories, ToAnnounce(b)' <= ToAnnounce(b)
      PROVE  New
  <2>1. ToAnnounce(b) \in Nat /\ ToAnnounce(b)' \in Nat
    BY <1>5, <1>6, <1>7
  <2> HIDE DEF Histories
  <2>2. announced'[b] = announced[b] /\ handOvers'[b] = handOvers[b] /\ auraCrashes' = auraCrashes
    BY <1>8 DEF Histories
  <2> QED
    BY <1>3, <1>4, <1>8, <2>1, <2>2 DEF New
<1>9. CASE SendLands
  <2>1. /\ Histories /\ UNCHANGED <<blockJobs, atCrawl>>
        /\ \/ /\ crawlSends # <<>> /\ crawlSends' = Tail(crawlSends)
              /\ auraCrawlJobs' = Append(auraCrawlJobs, Head(crawlSends))
              /\ UNCHANGED <<txSends, auraTxJobs>>
           \/ /\ txSends # <<>> /\ txSends' = Tail(txSends)
              /\ auraTxJobs' = Append(auraTxJobs, Head(txSends))
              /\ UNCHANGED <<crawlSends, auraCrawlJobs>>
    BY <1>9 DEF SendLands, history, faultCounts
  <2>2. Fetching(b)' = Fetching(b)
    BY <2>1 DEF Fetching
  <2>3. CASE crawlSends # <<>> /\ crawlSends' = Tail(crawlSends)
             /\ auraCrawlJobs' = Append(auraCrawlJobs, Head(crawlSends)) /\ UNCHANGED <<txSends, auraTxJobs>>
    <3>1. Head(crawlSends) \in AuraJobs
      BY <1>0, <2>3
    <3>2. Times(crawlSends', b) + Times(auraCrawlJobs', b) = Times(crawlSends, b) + Times(auraCrawlJobs, b)
      <4>1. CASE Head(crawlSends).of = b
        <5>1. /\ Times(auraCrawlJobs', b) = Times(auraCrawlJobs, b) + 1
              /\ Times(crawlSends, b) = Times(crawlSends', b) + 1
          BY <1>0, <2>3, <3>1, <4>1, TimesAppendLemma, TimesTailLemma
        <5> QED
          BY <1>5, <5>1
      <4>2. CASE Head(crawlSends).of # b
        <5>1. /\ Times(auraCrawlJobs', b) = Times(auraCrawlJobs, b)
              /\ Times(crawlSends, b) = Times(crawlSends', b)
          BY <1>0, <2>3, <3>1, <4>2, TimesAppendLemma, TimesTailLemma
        <5> QED
          BY <5>1
      <4> QED
        BY <4>1, <4>2
    <3>3. /\ Times(blockJobs', b) = Times(blockJobs, b) /\ Times(txSends', b) = Times(txSends, b)
          /\ Times(auraTxJobs', b) = Times(auraTxJobs, b)
      BY <2>1, <2>3
    <3>4. ToAnnounce(b)' <= ToAnnounce(b)
      BY <1>5, <1>6, <1>7, <2>2, <3>2, <3>3
    <3> QED
      BY <1>8, <2>1, <3>4
  <2>4. CASE txSends # <<>> /\ txSends' = Tail(txSends)
             /\ auraTxJobs' = Append(auraTxJobs, Head(txSends)) /\ UNCHANGED <<crawlSends, auraCrawlJobs>>
    <3>1. Head(txSends) \in AuraJobs
      BY <1>0, <2>4
    <3>2. Times(txSends', b) + Times(auraTxJobs', b) = Times(txSends, b) + Times(auraTxJobs, b)
      <4>1. CASE Head(txSends).of = b
        <5>1. /\ Times(auraTxJobs', b) = Times(auraTxJobs, b) + 1
              /\ Times(txSends, b) = Times(txSends', b) + 1
          BY <1>0, <2>4, <3>1, <4>1, TimesAppendLemma, TimesTailLemma
        <5> QED
          BY <1>5, <5>1
      <4>2. CASE Head(txSends).of # b
        <5>1. /\ Times(auraTxJobs', b) = Times(auraTxJobs, b)
              /\ Times(txSends, b) = Times(txSends', b)
          BY <1>0, <2>4, <3>1, <4>2, TimesAppendLemma, TimesTailLemma
        <5> QED
          BY <5>1
      <4> QED
        BY <4>1, <4>2
    <3>3. /\ Times(blockJobs', b) = Times(blockJobs, b) /\ Times(crawlSends', b) = Times(crawlSends, b)
          /\ Times(auraCrawlJobs', b) = Times(auraCrawlJobs, b)
      BY <2>1, <2>4
    <3>4. ToAnnounce(b)' <= ToAnnounce(b)
      BY <1>5, <1>6, <1>7, <2>2, <3>2, <3>3
    <3> QED
      BY <1>8, <2>1, <3>4
  <2> QED
    BY <2>1, <2>3, <2>4
<1>10. CASE FindAuraBlock
  <2>1. /\ blockJobs # <<>> /\ blockJobs' = Tail(blockJobs)
        /\ \/ crawlSends' = crawlSends
           \/ crawlSends' = Append(crawlSends, AuraJob(Head(blockJobs).of, {}))
        /\ Histories /\ UNCHANGED <<txSends, auraCrawlJobs, auraTxJobs, atCrawl>>
    BY <1>10 DEF FindAuraBlock, history, faultCounts
  <2>2. /\ AuraJob(Head(blockJobs).of, {}) \in AuraJobs
        /\ AuraJob(Head(blockJobs).of, {}).of = Head(blockJobs).of
    <3>1. Head(blockJobs) \in AuraJobs
      BY <1>0, <2>1
    <3>2. Head(blockJobs).of \in AuraBlocks
      BY <3>1 DEF AuraJobs
    <3> QED
      BY <3>2, AuraJobLemma DEF AuraJob
  <2>3. Times(blockJobs', b) + Times(crawlSends', b) <= Times(blockJobs, b) + Times(crawlSends, b)
    <3>1. CASE Head(blockJobs).of = b
      <4>1. Times(blockJobs, b) = Times(blockJobs', b) + 1
        BY <1>0, <2>1, <3>1, TimesTailLemma
      <4>2. Times(crawlSends', b) <= Times(crawlSends, b) + 1
        <5>1. Times(Append(crawlSends, AuraJob(Head(blockJobs).of, {})), b) \in Nat
              => Times(Append(crawlSends, AuraJob(Head(blockJobs).of, {})), b) <= Times(crawlSends, b) + 1
          BY <1>0, <1>5, <2>2, TimesAppendLemma
        <5>2. CASE crawlSends' = crawlSends
          BY <1>5, <5>2
        <5>3. CASE crawlSends' = Append(crawlSends, AuraJob(Head(blockJobs).of, {}))
          BY <1>5, <5>1, <5>3
        <5> QED
          BY <2>1, <5>2, <5>3
      <4> QED
        BY <1>5, <4>1, <4>2
    <3>2. CASE Head(blockJobs).of # b
      <4>1. Times(blockJobs, b) = Times(blockJobs', b)
        BY <1>0, <2>1, <3>2, TimesTailLemma
      <4>2. Times(crawlSends', b) = Times(crawlSends, b)
        <5>1. Times(Append(crawlSends, AuraJob(Head(blockJobs).of, {})), b) = Times(crawlSends, b)
          BY <1>0, <2>2, <3>2, TimesAppendLemma
        <5> QED
          BY <2>1, <5>1
      <4> QED
        BY <1>5, <4>1, <4>2
    <3> QED
      BY <3>1, <3>2
  <2>4. /\ Times(auraCrawlJobs', b) = Times(auraCrawlJobs, b) /\ Times(txSends', b) = Times(txSends, b)
        /\ Times(auraTxJobs', b) = Times(auraTxJobs, b) /\ Fetching(b)' = Fetching(b)
    BY <2>1 DEF Fetching
  <2>5. ToAnnounce(b)' <= ToAnnounce(b)
    BY <1>5, <1>6, <1>7, <2>3, <2>4
  <2> QED
    BY <1>8, <2>1, <2>5
<1>11. CASE AuraBlockFails
  <2>1. /\ \/ blockJobs # <<>> /\ blockJobs' = Tail(blockJobs)
           \/ blockJobs' = blockJobs
        /\ Histories /\ UNCHANGED <<crawlSends, txSends, auraCrawlJobs, auraTxJobs, atCrawl>>
    BY <1>11 DEF AuraBlockFails, history, auraSends
  <2>2. Times(blockJobs', b) <= Times(blockJobs, b)
    <3>1. CASE blockJobs' = blockJobs
      BY <1>5, <3>1
    <3>2. CASE blockJobs # <<>> /\ blockJobs' = Tail(blockJobs)
      <4>1. Times(blockJobs, b) = IF Head(blockJobs).of = b THEN Times(blockJobs', b) + 1 ELSE Times(blockJobs', b)
        BY <1>0, <3>2, TimesTailLemma
      <4> QED
        BY <1>5, <4>1
    <3> QED
      BY <2>1, <3>1, <3>2
  <2>3. /\ Times(crawlSends', b) = Times(crawlSends, b) /\ Times(auraCrawlJobs', b) = Times(auraCrawlJobs, b)
        /\ Times(txSends', b) = Times(txSends, b) /\ Times(auraTxJobs', b) = Times(auraTxJobs, b)
        /\ Fetching(b)' = Fetching(b)
    BY <2>1 DEF Fetching
  <2>4. ToAnnounce(b)' <= ToAnnounce(b)
    BY <1>5, <1>6, <1>7, <2>2, <2>3
  <2> QED
    BY <1>8, <2>1, <2>4
<1>12. CASE StartAuraCrawl
  <2>1. /\ auraCrawlJobs # <<>> /\ auraCrawlJobs' = Tail(auraCrawlJobs) /\ atCrawl = <<>>
        /\ atCrawl' = <<[job |-> Head(auraCrawlJobs), step |-> "fetch", todo |-> {}]>>
        /\ Histories /\ UNCHANGED <<blockJobs, crawlSends, txSends, auraTxJobs>>
    BY <1>12 DEF StartAuraCrawl, history, auraSends, faultCounts
  <2>2. Fetching(b) = 0 /\ Fetching(b)' = IF Head(auraCrawlJobs).of = b THEN 1 ELSE 0
    BY <2>1 DEF Fetching
  <2>3. Times(auraCrawlJobs', b) + Fetching(b)' = Times(auraCrawlJobs, b) + Fetching(b)
    BY <1>0, <1>5, <2>1, <2>2, TimesTailLemma
  <2>4. /\ Times(blockJobs', b) = Times(blockJobs, b) /\ Times(crawlSends', b) = Times(crawlSends, b)
        /\ Times(txSends', b) = Times(txSends, b) /\ Times(auraTxJobs', b) = Times(auraTxJobs, b)
    BY <2>1
  <2>5. ToAnnounce(b)' <= ToAnnounce(b)
    BY <1>5, <1>6, <1>7, <2>3, <2>4
  <2> QED
    BY <1>8, <2>1, <2>5
<1>13. CASE FetchByHeight
  <2> DEFINE of == atCrawl[1].job.of
  <2>1. PICK list \in {FirstPage(of), {}} : txSends' = Append(txSends, AuraJob(of, list))
    BY <1>13 DEF FetchByHeight
  <2>2. /\ atCrawl # <<>> /\ atCrawl[1].step = "fetch" /\ atCrawl' = <<[atCrawl[1] EXCEPT !.step = "done"]>>
        /\ Histories /\ UNCHANGED <<blockJobs, crawlSends, auraCrawlJobs, auraTxJobs>>
    BY <1>13 DEF FetchByHeight, waits
  <2>3. of \in AuraBlocks /\ AuraJob(of, list) \in AuraJobs /\ AuraJob(of, list).of = of
    <3>1. of \in AuraBlocks
      BY <1>0, <2>2, AuraWorkLemma
    <3>2. list \in SUBSET AuraTxs
      BY <3>1, FirstPageLemma
    <3> QED
      BY <3>1, <3>2, AuraJobLemma DEF AuraJob
  <2>4. Fetching(b)' = 0 /\ Fetching(b) = IF of = b THEN 1 ELSE 0
    <3>1. atCrawl'[1].step = "done"
      BY <1>0, <2>2, AuraWorkLemma DEF AuraWork
    <3> QED
      BY <2>2, <3>1 DEF Fetching
  <2> HIDE DEF of
  <2>5. Times(txSends', b) + Fetching(b)' = Times(txSends, b) + Fetching(b)
    <3>1. Times(txSends', b) = IF of = b THEN Times(txSends, b) + 1 ELSE Times(txSends, b)
      <4>1. /\ AuraJob(of, list) \in AuraJobs /\ AuraJob(of, list).of = of
            /\ txSends' = Append(txSends, AuraJob(of, list)) /\ txSends \in Seq(AuraJobs)
        BY <1>0, <2>1, <2>3
      <4> QED
        BY <4>1, TimesAppendLemma
    <3> QED
      BY <1>5, <2>4, <3>1
  <2>6. /\ Times(blockJobs', b) = Times(blockJobs, b) /\ Times(crawlSends', b) = Times(crawlSends, b)
        /\ Times(auraCrawlJobs', b) = Times(auraCrawlJobs, b) /\ Times(auraTxJobs', b) = Times(auraTxJobs, b)
    BY <2>2
  <2>7. ToAnnounce(b)' <= ToAnnounce(b)
    BY <1>5, <1>6, <1>7, <2>5, <2>6
  <2> QED
    BY <1>8, <2>2, <2>7
<1>14. CASE FetchByHeightNull \/ CompleteAuraCrawl
  <2>1. atCrawl' = <<>> /\ Histories /\ UNCHANGED <<blockJobs, crawlSends, auraCrawlJobs, txSends, auraTxJobs>>
    BY <1>14 DEF FetchByHeightNull, CompleteAuraCrawl, waits, auraSends, history, faultCounts
  <2>2. Fetching(b)' = 0
    BY <2>1 DEF Fetching
  <2>3. ToAnnounce(b)' <= ToAnnounce(b)
    BY <1>5, <1>6, <1>7, <2>1, <2>2
  <2> QED
    BY <1>8, <2>1, <2>3
<1>15. CASE RejectList \/ AnnounceList
  <2>1. /\ auraTxJobs # <<>> /\ auraTxJobs' = Tail(auraTxJobs)
        /\ UNCHANGED <<handOvers, auraCrashes, blockJobs, crawlSends, auraCrawlJobs, txSends, atCrawl>>
        /\ \/ announced' = announced
           \/ announced' = [announced EXCEPT ![Head(auraTxJobs).of] = @ + 1]
    BY <1>15 DEF RejectList, AnnounceList, auraSends, history, faultCounts
  <2>2. announced'[b] + Times(auraTxJobs', b) <= announced[b] + Times(auraTxJobs, b)
    <3>1. announced \in [AuraBlocks -> Nat]
      BY <1>0 DEF CountTypes
    <3>2. CASE Head(auraTxJobs).of = b
      <4>1. Times(auraTxJobs, b) = Times(auraTxJobs', b) + 1
        BY <1>0, <2>1, <3>2, TimesTailLemma
      <4>2. announced'[b] <= announced[b] + 1
        BY <1>4, <2>1, <3>1, <3>2
      <4> QED
        BY <1>4, <1>5, <4>1, <4>2
    <3>3. CASE Head(auraTxJobs).of # b
      <4>1. Times(auraTxJobs, b) = Times(auraTxJobs', b)
        BY <1>0, <2>1, <3>3, TimesTailLemma
      <4>2. announced'[b] = announced[b]
        BY <2>1, <3>1, <3>3
      <4> QED
        BY <1>4, <1>5, <4>1, <4>2
    <3> QED
      BY <3>2, <3>3
  <2>3. /\ Times(blockJobs', b) = Times(blockJobs, b) /\ Times(crawlSends', b) = Times(crawlSends, b)
        /\ Times(auraCrawlJobs', b) = Times(auraCrawlJobs, b) /\ Times(txSends', b) = Times(txSends, b)
        /\ Fetching(b)' = Fetching(b) /\ handOvers'[b] = handOvers[b] /\ auraCrashes' = auraCrashes
    BY <2>1 DEF Fetching
  <2> QED
    BY <1>3, <1>4, <1>5, <1>6, <1>7, <2>2, <2>3 DEF New
<1>16. CASE CrashAura
  <2>1. /\ blockJobs' = Stalled(atBlock) \o blockJobs
        /\ auraCrawlJobs' = Stalled(atCrawl) \o auraCrawlJobs
        /\ auraTxJobs' = Stalled(atTx) \o auraTxJobs
        /\ crawlSends' = <<>> /\ txSends' = <<>> /\ atCrawl' = <<>>
        /\ auraCrashes' = auraCrashes + 1 /\ UNCHANGED <<announced, handOvers>>
    BY <1>16 DEF CrashAura
  <2>2. /\ atBlock \in Seq(AuraWork({"insert", "done"})) /\ atCrawl \in Seq(AuraWork({"fetch", "done"}))
        /\ atTx \in Seq(AuraWork({"find", "save", "fail"}))
    BY <1>0 DEF AuraTypeOK
  <2>3. /\ Times(blockJobs', b) <= Times(blockJobs, b) + 1
        /\ Times(auraCrawlJobs', b) <= Times(auraCrawlJobs, b) + 1
        /\ Times(auraTxJobs', b) <= Times(auraTxJobs, b) + 1
    BY <1>0, <2>1, <2>2, TimesStalledLemma
  <2>4. Times(crawlSends', b) = 0 /\ Times(txSends', b) = 0 /\ Fetching(b)' = 0
    BY <2>1, TimesNoneLemma DEF Fetching
  <2>5. announced'[b] = announced[b] /\ handOvers'[b] = handOvers[b] /\ auraCrashes' = auraCrashes + 1
    BY <2>1
  <2> QED
    BY <1>3, <1>4, <1>5, <1>6, <1>7, <2>3, <2>4, <2>5 DEF New
<1>17. ASSUME NEW c \in AuraBlocks, HandOverBlock(c)
       PROVE  New
  <2>1. /\ handOvers' = [handOvers EXCEPT ![c] = @ + 1]
        /\ blockJobs' = Append(blockJobs, AuraJob(c, {}))
        /\ UNCHANGED <<crawlSends, auraCrawlJobs, txSends, auraTxJobs, atCrawl, announced, auraCrashes>>
    BY <1>17 DEF HandOverBlock, auraSends, faultCounts
  <2>2. AuraJob(c, {}) \in AuraJobs /\ AuraJob(c, {}).of = c
    BY AuraJobLemma DEF AuraJob
  <2>3. Times(blockJobs', b) <= Times(blockJobs, b) + (handOvers'[b] - handOvers[b])
    <3>1. handOvers \in [AuraBlocks -> Nat]
      BY <1>0 DEF CountTypes
    <3>2. CASE c = b
      <4>1. handOvers'[b] = handOvers[b] + 1 /\ Times(blockJobs', b) = Times(blockJobs, b) + 1
        BY <1>0, <2>1, <2>2, <3>1, <3>2, TimesAppendLemma
      <4> QED
        BY <1>4, <1>5, <4>1
    <3>3. CASE c # b
      <4>1. handOvers'[b] = handOvers[b] /\ Times(blockJobs', b) = Times(blockJobs, b)
        BY <1>0, <2>1, <2>2, <3>1, <3>3, TimesAppendLemma
      <4> QED
        BY <1>4, <1>5, <4>1
    <3> QED
      BY <3>2, <3>3
  <2>4. /\ Times(crawlSends', b) = Times(crawlSends, b) /\ Times(auraCrawlJobs', b) = Times(auraCrawlJobs, b)
        /\ Times(txSends', b) = Times(txSends, b) /\ Times(auraTxJobs', b) = Times(auraTxJobs, b)
        /\ Fetching(b)' = Fetching(b) /\ announced'[b] = announced[b] /\ auraCrashes' = auraCrashes
    BY <2>1 DEF Fetching
  <2> QED
    BY <1>3, <1>4, <1>5, <1>6, <1>7, <2>3, <2>4 DEF New
<1>18. CASE Histories /\ UNCHANGED <<blockJobs, crawlSends, auraCrawlJobs, txSends, auraTxJobs, atCrawl>>
  <2>1. ToAnnounce(b)' = ToAnnounce(b)
    BY <1>18 DEF ToAnnounce, Fetching
  <2>2. ToAnnounce(b) \in Nat
    BY <1>5, <1>6 DEF ToAnnounce
  <2> QED
    BY <1>8, <1>18, <2>1, <2>2
<1>19. \/ SendLands \/ FindAuraBlock \/ AuraBlockFails \/ StartAuraCrawl \/ FetchByHeight
       \/ FetchByHeightNull \/ CompleteAuraCrawl \/ RejectList \/ AnnounceList \/ CrashAura
       \/ \E c \in AuraBlocks : HandOverBlock(c)
       \/ Histories /\ UNCHANGED <<blockJobs, crawlSends, auraCrawlJobs, txSends, auraTxJobs, atCrawl>>
  BY DEF AuraNext, AuraStep, InsertAuraBlock, CompleteAuraBlock, FindList, EndList, SaveTx, SaveTxFails,
         auraVars, waits, auraSends, history, faultCounts
<1> QED
  BY <1>9, <1>10, <1>11, <1>12, <1>13, <1>14, <1>15, <1>16, <1>17, <1>18, <1>19

\* However often processes die and answers are null or early, a transaction of a block in
\* the collection is stored, on its way, or missing for a cause that left a trace; and its
\* block is announced as often as it came, and three times more by each death.
THEOREM EveryAuraTxAccounted == AuraSpec => []AuraTxsAccounted
<1> DEFINE Inv == AuraInv /\ AuraAccounted /\ InsertedLast /\ CountInv
<1>1. AuraInit => Inv
  BY InitAuraInv, InitCountInv
<1>2. Inv /\ [AuraNext]_auraVars => Inv'
  BY AuraInvStep, InsertedLastStep, CountStep
<1>3. Inv => AuraTxsAccounted
  <2> SUFFICES ASSUME Inv PROVE AuraTxsAccounted
    OBVIOUS
  <2>1. AnnouncedAtMost
    <3> SUFFICES ASSUME NEW b \in AuraBlocks
                 PROVE  announced[b] <= handOvers[b] + 3 * auraCrashes
      BY DEF AnnouncedAtMost
    <3>1. /\ Times(blockJobs, b) \in Nat /\ Times(crawlSends, b) \in Nat /\ Times(auraCrawlJobs, b) \in Nat
          /\ Times(txSends, b) \in Nat /\ Times(auraTxJobs, b) \in Nat /\ Fetching(b) \in Nat
      BY TimesLemma DEF AuraInv, AuraTypeOK, Fetching
    <3>2. ToAnnounce(b) \in Nat
      BY <3>1 DEF ToAnnounce
    <3>3. announced[b] + ToAnnounce(b) <= handOvers[b] + 3 * auraCrashes
      BY DEF CountInv, CountedAtMost
    <3>4. announced[b] \in Nat /\ handOvers[b] \in Nat /\ auraCrashes \in Nat
      BY DEF CountInv, CountTypes
    <3> QED
      BY <3>2, <3>3, <3>4
  <2> QED
    BY <2>1 DEF AuraInv, AuraTxsAccounted
<1> QED
  BY <1>1, <1>2, <1>3, PTL DEF AuraSpec

-----------------------------------------------------------------------------
(* The delay jobs (DelayJobs).  What the operators on bags do to the number of *)
(* copies of an element.                                                       *)
LEMMA HowManyLemma ==
    ASSUME NEW b, IsABag(b)
    PROVE  \A x : HowMany(x, b) \in Nat /\ (x \in BagToSet(b) <=> HowMany(x, b) > 0)
BY DEF IsABag, HowMany, BagToSet

LEMMA SetBagLemma ==
    ASSUME NEW S
    PROVE  /\ IsABag(SetToBag(S)) /\ BagToSet(SetToBag(S)) = S
           /\ \A x : HowMany(x, SetToBag(S)) = IF x \in S THEN 1 ELSE 0
BY DEF IsABag, SetToBag, HowMany, BagToSet

LEMMA PlusLemma ==
    ASSUME NEW a, NEW b, IsABag(a), IsABag(b)
    PROVE  /\ IsABag(a (+) b) /\ BagToSet(a (+) b) = BagToSet(a) \union BagToSet(b)
           /\ \A x : HowMany(x, a (+) b) = HowMany(x, a) + HowMany(x, b)
<1>1. /\ DOMAIN (a (+) b) = DOMAIN a \union DOMAIN b
      /\ \A x \in DOMAIN a \union DOMAIN b :
            (a (+) b)[x] = (IF x \in DOMAIN a THEN a[x] ELSE 0) + (IF x \in DOMAIN b THEN b[x] ELSE 0)
  BY DEF (+)
<1>2. \A x \in DOMAIN a : a[x] \in Nat /\ a[x] > 0
  BY DEF IsABag
<1>3. \A x \in DOMAIN b : b[x] \in Nat /\ b[x] > 0
  BY DEF IsABag
<1>4. IsABag(a (+) b)
  <2>1. \A x \in DOMAIN (a (+) b) : (a (+) b)[x] \in {n \in Nat : n > 0}
    BY <1>1, <1>2, <1>3
  <2>2. a (+) b = [x \in DOMAIN (a (+) b) |-> (a (+) b)[x]]
    BY DEF (+)
  <2> QED
    BY <2>1, <2>2 DEF IsABag
<1>5. ASSUME NEW x PROVE HowMany(x, a (+) b) = HowMany(x, a) + HowMany(x, b)
  BY <1>1, <1>2, <1>3 DEF HowMany
<1> QED
  BY <1>1, <1>4, <1>5 DEF BagToSet

LEMMA MinusLemma ==
    ASSUME NEW a, NEW b, IsABag(a), \A x \in DOMAIN b : b[x] \in Nat
    PROVE  /\ IsABag(a (-) b) /\ BagToSet(a (-) b) \subseteq BagToSet(a)
           /\ \A x : HowMany(x, a (-) b) = IF HowMany(x, a) > HowMany(x, b)
                                          THEN HowMany(x, a) - HowMany(x, b) ELSE 0
<1> DEFINE left(x) == IF x \in DOMAIN b THEN a[x] - b[x] ELSE a[x]
           D == {x \in DOMAIN a : left(x) > 0}
<1>1. a (-) b = [x \in D |-> left(x)]
  <2>1. \A x \in DOMAIN a : [y \in DOMAIN a |-> left(y)][x] = left(x)
    OBVIOUS
  <2> QED
    BY <2>1 DEF (-)
<1>2. \A x \in DOMAIN a : a[x] \in Nat /\ a[x] > 0
  BY DEF IsABag
<1>3. \A x \in D : left(x) \in {n \in Nat : n > 0}
  BY <1>2
<1>4. IsABag(a (-) b)
  <2> HIDE DEF D, left
  <2> QED
    BY <1>1, <1>3 DEF IsABag
<1>5. ASSUME NEW x PROVE HowMany(x, a (-) b) = IF HowMany(x, a) > HowMany(x, b)
                                               THEN HowMany(x, a) - HowMany(x, b) ELSE 0
  BY <1>1, <1>2 DEF HowMany
<1> QED
  BY <1>1, <1>4, <1>5 DEF BagToSet

LEMMA TakeOneLemma ==
    ASSUME NEW b, IsABag(b), NEW x \in BagToSet(b)
    PROVE  /\ IsABag(b (-) SetToBag({x})) /\ BagToSet(b (-) SetToBag({x})) \subseteq BagToSet(b)
           /\ \A y : HowMany(y, b (-) SetToBag({x})) = IF y = x THEN HowMany(y, b) - 1 ELSE HowMany(y, b)
           /\ \A y \in BagToSet(b) : y = x \/ y \in BagToSet(b (-) SetToBag({x}))
<1> DEFINE one == SetToBag({x})
<1>1. /\ \A y \in DOMAIN one : one[y] \in Nat
      /\ \A y : HowMany(y, one) = IF y = x THEN 1 ELSE 0
  BY SetBagLemma DEF SetToBag
<1>2. \A y : HowMany(y, b) \in Nat /\ (y \in BagToSet(b) <=> HowMany(y, b) > 0)
  BY HowManyLemma
<1> HIDE DEF one
<1>3. /\ IsABag(b (-) one) /\ BagToSet(b (-) one) \subseteq BagToSet(b)
      /\ \A y : HowMany(y, b (-) one) = IF HowMany(y, b) > HowMany(y, one)
                                      THEN HowMany(y, b) - HowMany(y, one) ELSE 0
  BY <1>1, MinusLemma
<1>4. \A y : HowMany(y, b (-) one) = IF y = x THEN HowMany(y, b) - 1 ELSE HowMany(y, b)
  BY <1>1, <1>2, <1>3
<1>5. \A y : y \in BagToSet(b (-) one) <=> HowMany(y, b (-) one) > 0
  BY <1>3, HowManyLemma
<1> QED
  BY <1>2, <1>3, <1>4, <1>5 DEF one

LEMMA SubBagLemma ==
    ASSUME NEW a, NEW b, IsABag(a), IsABag(b)
    PROVE  a \sqsubseteq b <=> \A x : HowMany(x, a) <= HowMany(x, b)
<1>1. \A x \in DOMAIN a : a[x] \in Nat /\ a[x] > 0
  BY DEF IsABag
<1>2. \A x \in DOMAIN b : b[x] \in Nat /\ b[x] > 0
  BY DEF IsABag
<1>3. ASSUME a \sqsubseteq b PROVE \A x : HowMany(x, a) <= HowMany(x, b)
  BY <1>1, <1>2, <1>3 DEF \sqsubseteq, HowMany
<1>4. ASSUME \A x : HowMany(x, a) <= HowMany(x, b) PROVE a \sqsubseteq b
  <2>1. ASSUME NEW x \in DOMAIN a PROVE x \in DOMAIN b /\ a[x] <= b[x]
    BY <1>1, <1>4, <2>1 DEF HowMany
  <2> QED
    BY <2>1 DEF \sqsubseteq
<1> QED
  BY <1>3, <1>4

DelayInv == DelayTypeOK /\ EntriesAreKept

Excuses(e) == <<e.kind, e.addr>> \in excusedEntries

\* A delay job that stays goes on to stay where the deletes leave a copy of it.
LEMMA JobStaysLemma ==
    ASSUME NEW e, JobStays(e), IsABag(delayJobs'),
           \A job : HowMany(job, deletes) < HowMany(job, delayJobs) => HowMany(job, deletes') < HowMany(job, delayJobs'),
           \A job : HowMany(job, deletes') \in Nat
    PROVE  JobStays(e)'
<1>1. PICK job \in BagToSet(delayJobs) :
          OfEntry(job, e) /\ job.at <= e.at /\ HowMany(job, deletes) < HowMany(job, delayJobs)
  BY DEF JobStays
<1>2. HowMany(job, deletes') < HowMany(job, delayJobs')
  BY <1>1
<1>3. job \in BagToSet(delayJobs')
  BY <1>2, HowManyLemma
<1> QED
  BY <1>1, <1>2, <1>3 DEF JobStays

LEMMA CrawlComesLemma ==
    ASSUME NEW e, CrawlComes(e),
           BagToSet(delaySends) \union BagToSet(delayCrawlJobs)
               \subseteq BagToSet(delaySends') \union BagToSet(delayCrawlJobs')
    PROVE  CrawlComes(e)'
BY DEF CrawlComes

\* An entry that no step of a crawler or of the queue touches is kept.
LEMMA UntouchedLemma ==
    ASSUME NEW e, Kept(e), UNCHANGED <<delayJobs, delaySends, deletes, delayCrawlJobs, delayWorker>>
    PROVE  Kept(e)'
BY DEF Kept, JobStays, CrawlComes, WorkerLooks

LEMMA InitDelayInv == DelayInit => DelayInv
<1> SUFFICES ASSUME DelayInit PROVE DelayInv
  OBVIOUS
<1> USE DEF DelayInit
<1>1. IsABag(EmptyBag) /\ BagToSet(EmptyBag) = {}
  BY SetBagLemma DEF EmptyBag
<1>2. EmptyBag \sqsubseteq EmptyBag
  BY <1>1 DEF \sqsubseteq, BagToSet
<1>3. ~Off.on
  BY DEF Off
<1>4. DelayTypeOK
  BY <1>1, <1>2, <1>3 DEF DelayTypeOK
<1>5. EntriesAreKept
  BY DEF EntriesAreKept
<1> QED
  BY <1>4, <1>5 DEF DelayInv

\* A crawl of the account of an entry is a job of the crawlers.
LEMMA CrawlLemma ==
    ASSUME NEW kind \in DelayKinds, NEW addr \in DelayAddresses, NEW after \in BOOLEAN, NEW left \in Nat
    PROVE  /\ NewCrawl(kind, addr, after, left) \in CrawlJob
           /\ NewCrawl(kind, addr, after, left).kind = kind /\ NewCrawl(kind, addr, after, left).addr = addr
BY DEF NewCrawl, CrawlJob

LEMMA EntryLemma ==
    \A e \in Entries : e.kind \in DelayKinds /\ e.addr \in DelayAddresses /\ e.at \in Nat
BY DelayAssumption

\* The steps of the chain.
LEMMA DelayChainStep ==
    ASSUME DelayInv, DelayChainNext
    PROVE  DelayInv'
<1> USE DEF DelayInv
<1>1. ASSUME NEW e \in Entries, Begin(e) PROVE DelayInv'
  <2> DEFINE new == NewCrawl(e.kind, e.addr, FALSE, DelayAttempts)
  <2>1. new \in CrawlJob
    <3> HIDE DEF new
    <3> QED
      BY EntryLemma, CrawlLemma, DelayAssumption DEF new
  <2>2. IsABag(delayCrawlJobs) /\ delayCrawlJobs' = delayCrawlJobs (+) SetToBag({new})
    BY <1>1 DEF Begin, DelayTypeOK
  <2>3. IsABag(delayCrawlJobs') /\ BagToSet(delayCrawlJobs') = BagToSet(delayCrawlJobs) \union {new}
    <3> HIDE DEF new
    <3> QED
      BY <2>2, PlusLemma, SetBagLemma
  <2> HIDE DEF new
  <2>4. UNCHANGED <<account, delayJobs, delaySends, deletes, delayWorker, excusedEntries>> /\ begun' = begun \union {e}
        /\ pending' = pending \union {e}
    BY <1>1 DEF Begin
  <2>5. \A w \in DelayWorkers : Of(begun, delayWorker[w].job) \subseteq Of(begun', delayWorker[w].job)
    BY <2>4 DEF Of
  <2>6. DelayTypeOK'
    BY <2>1, <2>3, <2>4, <2>5 DEF DelayTypeOK
  <2>7. ASSUME NEW d \in account, Kept(d) PROVE Kept(d)'
    BY <2>3, <2>4, <2>7 DEF Kept, JobStays, CrawlComes, WorkerLooks
  <2> QED
    BY <2>4, <2>6, <2>7 DEF EntriesAreKept
<1>2. ASSUME NEW e \in Entries, Mature(e) PROVE DelayInv'
  <2>1. UNCHANGED <<begun, account, delayJobs, delaySends, deletes, delayCrawlJobs, delayWorker, excusedEntries>>
        /\ pending' \subseteq pending
    BY <1>2 DEF Mature
  <2>2. DelayTypeOK'
    BY <2>1 DEF DelayTypeOK
  <2> QED
    BY <2>1, <2>2, UntouchedLemma DEF EntriesAreKept
<1>3. ASSUME Tick PROVE DelayInv'
  <2>1. UNCHANGED <<pending, begun, account, delayJobs, delaySends, deletes, delayCrawlJobs, delayWorker, excusedEntries>>
    BY <1>3 DEF Tick
  <2>2. DelayTypeOK'
    BY <2>1 DEF DelayTypeOK
  <2> QED
    BY <2>1, <2>2, UntouchedLemma DEF EntriesAreKept
<1> QED
  BY <1>1, <1>2, <1>3 DEF DelayChainNext

\* What a worker does is seen by the entries its change of state concerns.
LEMMA WorkerLooksLemma ==
    ASSUME NEW e, WorkerLooks(e), NEW w \in DelayWorkers,
           \A v \in DelayWorkers \ {w} : delayWorker'[v] = delayWorker[v]
    PROVE  \/ WorkerLooks(e)'
           \/ /\ delayWorker[w].on /\ OfEntry(delayWorker[w].job, e)
              /\ delayWorker[w].wrote => e \in delayWorker[w].got
BY DEF WorkerLooks

\* The states of a worker.
AtDelay == [on : {TRUE}, job : CrawlJob, wrote : BOOLEAN, got : SUBSET Entries]

LEMMA BusyLemma ==
    ASSUME DelayTypeOK, NEW w \in DelayWorkers, delayWorker[w].on
    PROVE  /\ delayWorker[w] \in AtDelay /\ delayWorker[w].job \in CrawlJob
           /\ delayWorker[w].got \subseteq Of(begun, delayWorker[w].job)
<1>1. delayWorker[w] \in {Off} \union AtDelay
  BY DEF DelayTypeOK, AtDelay
<1>2. ~Off.on
  BY DEF Off
<1> QED
  BY <1>1, <1>2 DEF DelayTypeOK, AtDelay

\* A worker that ends is off, and the others are as they were.
LEMMA OffLemma ==
    ASSUME DelayTypeOK, NEW w \in DelayWorkers, delayWorker' = [delayWorker EXCEPT ![w] = Off],
           UNCHANGED begun
    PROVE  /\ delayWorker' \in [DelayWorkers -> {Off} \union AtDelay]
           /\ \A v \in DelayWorkers : delayWorker'[v].on =>
                 delayWorker'[v].got \subseteq Of(begun', delayWorker'[v].job)
           /\ \A v \in DelayWorkers \ {w} : delayWorker'[v] = delayWorker[v]
<1>1. ~Off.on
  BY DEF Off
<1> QED
  BY <1>1 DEF DelayTypeOK, AtDelay

LEMMA ReadEntriesStep ==
    ASSUME DelayInv, NEW w \in DelayWorkers, NEW kind, ReadEntries(w, kind)
    PROVE  DelayInv'
<1> USE DEF DelayInv
<1>1. PICK job \in BagToSet(delayCrawlJobs) :
          /\ delayCrawlJobs' = delayCrawlJobs (-) SetToBag({job})
          /\ delayWorker' = [delayWorker EXCEPT ![w] =
                 [on |-> TRUE, job |-> job, wrote |-> FALSE, got |-> Of(pending, job)]]
  BY DEF ReadEntries
<1>2. UNCHANGED <<pending, begun, account, delayJobs, delaySends, deletes, excusedEntries>> /\ ~delayWorker[w].on
  BY DEF ReadEntries
<1>3. job \in CrawlJob /\ IsABag(delayCrawlJobs)
  BY DEF DelayTypeOK
<1>4. /\ IsABag(delayCrawlJobs') /\ BagToSet(delayCrawlJobs') \subseteq BagToSet(delayCrawlJobs)
      /\ \A x \in BagToSet(delayCrawlJobs) : x = job \/ x \in BagToSet(delayCrawlJobs')
  BY <1>1, <1>3, TakeOneLemma
<1>5. /\ delayWorker'[w].on /\ delayWorker'[w].job = job /\ ~delayWorker'[w].wrote
      /\ delayWorker'[w].got = Of(pending, job)
      /\ \A v \in DelayWorkers \ {w} : delayWorker'[v] = delayWorker[v]
  BY <1>1 DEF DelayTypeOK
<1>6. Of(pending, job) \subseteq Of(begun, job) /\ Of(pending, job) \subseteq Entries
  BY DEF Of, DelayTypeOK
<1>7. DelayTypeOK'
  <2>1. delayWorker' \in [DelayWorkers -> {Off} \union AtDelay]
    BY <1>1, <1>3, <1>6 DEF DelayTypeOK, AtDelay
  <2>2. \A v \in DelayWorkers : delayWorker'[v].on => delayWorker'[v].got \subseteq Of(begun', delayWorker'[v].job)
    BY <1>2, <1>5, <1>6 DEF DelayTypeOK
  <2> QED
    BY <1>2, <1>4, <2>1, <2>2 DEF DelayTypeOK, AtDelay
<1>8. ASSUME NEW e \in account, Kept(e) PROVE Kept(e)'
  <2>1. CASE JobStays(e)
    BY <1>2, <2>1 DEF Kept, JobStays
  <2>2. CASE CrawlComes(e)
    BY <1>2, <1>4, <1>5, <2>2 DEF Kept, CrawlComes, WorkerLooks
  <2>3. CASE WorkerLooks(e)
    BY <1>2, <1>5, <2>3, WorkerLooksLemma DEF Kept
  <2> QED
    BY <1>8, <2>1, <2>2, <2>3 DEF Kept
<1> QED
  BY <1>2, <1>7, <1>8 DEF EntriesAreKept

LEMMA WriteEntriesStep ==
    ASSUME DelayInv, NEW w \in DelayWorkers, WriteEntries(w)
    PROVE  DelayInv'
<1> USE DEF DelayInv
<1> DEFINE job == delayWorker[w].job
           got == delayWorker[w].got
<1>1. /\ delayWorker[w].on
      /\ account' = (account \ Of(account, job)) \union got
      /\ delayWorker' = [delayWorker EXCEPT ![w].wrote = TRUE]
      /\ UNCHANGED <<pending, begun, delayJobs, delaySends, deletes, delayCrawlJobs, excusedEntries>>
  BY DEF WriteEntries
<1>2. delayWorker[w] \in AtDelay /\ got \subseteq Of(begun, job)
  BY <1>1, BusyLemma
<1>3. /\ delayWorker'[w] \in AtDelay /\ delayWorker'[w].on /\ delayWorker'[w].job = job
      /\ delayWorker'[w].got = got
      /\ \A v \in DelayWorkers \ {w} : delayWorker'[v] = delayWorker[v]
  BY <1>1, <1>2 DEF DelayTypeOK, AtDelay
<1>4. DelayTypeOK'
  <2>1. delayWorker' \in [DelayWorkers -> {Off} \union AtDelay]
    <3>1. delayWorker' = [delayWorker EXCEPT ![w] = delayWorker'[w]]
      BY <1>1 DEF DelayTypeOK
    <3> QED
      BY <1>3, <3>1 DEF DelayTypeOK, AtDelay
  <2>2. account' \subseteq begun
    BY <1>1, <1>2 DEF DelayTypeOK, Of
  <2>3. \A v \in DelayWorkers : delayWorker'[v].on => delayWorker'[v].got \subseteq Of(begun', delayWorker'[v].job)
    BY <1>1, <1>2, <1>3 DEF DelayTypeOK
  <2> QED
    BY <1>1, <2>1, <2>2, <2>3 DEF DelayTypeOK, AtDelay
<1>5. ASSUME NEW e \in account' PROVE Kept(e)' \/ Excuses(e)
  <2>1. CASE e \in got
    <3>1. OfEntry(job, e)
      BY <1>2, <2>1 DEF Of, OfEntry
    <3> QED
      BY <1>3, <2>1, <3>1 DEF Kept, WorkerLooks
  <2>2. CASE e \notin got
    <3>1. e \in account /\ ~OfEntry(job, e)
      BY <1>1, <2>2 DEF Of, OfEntry
    <3>2. Kept(e) => Kept(e)'
      BY <1>1, <1>3, <3>1, WorkerLooksLemma DEF Kept, JobStays, CrawlComes
    <3> QED
      BY <3>1, <3>2 DEF EntriesAreKept, Excuses
  <2> QED
    BY <2>1, <2>2
<1> QED
  BY <1>1, <1>4, <1>5 DEF EntriesAreKept, Excuses

\* The delay job of an entry ends no later than the entry.
LEMMA JobsForLemma ==
    ASSUME NEW es, es \subseteq Entries
    PROVE  /\ JobsFor(es) \subseteq DelayJob
           /\ \A cj, e : e \in es /\ es \subseteq Of(es, cj) =>
                 \E job \in JobsFor(es) : OfEntry(job, e) /\ job.at <= e.at
<1>1. JobsFor(es) \subseteq DelayJob
  BY EntryLemma DEF JobsFor, DelayJob
<1>2. ASSUME NEW cj, NEW e \in es, es \subseteq Of(es, cj)
      PROVE  \E job \in JobsFor(es) : OfEntry(job, e) /\ job.at <= e.at
  <2> DEFINE ends == {d.at : d \in {f \in es : f.val = e.val}}
  <2>1. ends \subseteq Nat /\ e.at \in ends
    BY EntryLemma
  <2>2. Min(ends) \in ends /\ \A x \in ends : Min(ends) <= x
    <3> HIDE DEF ends
    <3> QED
      BY <2>1, MinLemma
  <2>3. PICK d \in es : d.val = e.val /\ d.at = Min(ends)
    BY <2>2
  <2>4. \A f \in es : f.val = d.val => d.at <= f.at
    BY <2>2, <2>3
  <2>5. [kind |-> d.kind, addr |-> d.addr, at |-> d.at] \in JobsFor(es)
    BY <2>4 DEF JobsFor
  <2>6. d.kind = e.kind /\ d.addr = e.addr
    BY <1>2 DEF Of
  <2>7. d.at <= e.at
    BY <2>1, <2>2, <2>3
  <2> QED
    BY <2>5, <2>6, <2>7 DEF OfEntry
<1> QED
  BY <1>1, <1>2

\* New delay jobs stay.
LEMMA AddedLemma ==
    ASSUME DelayTypeOK, NEW added, added \subseteq DelayJob,
           delayJobs' = delayJobs (+) SetToBag(added), UNCHANGED deletes
    PROVE  /\ IsABag(delayJobs') /\ BagToSet(delayJobs') \subseteq DelayJob
           /\ deletes' \sqsubseteq delayJobs'
           /\ \A job : HowMany(job, deletes) < HowMany(job, delayJobs) => HowMany(job, deletes') < HowMany(job, delayJobs')
           /\ \A job : HowMany(job, deletes') \in Nat
           /\ \A job \in added : job \in BagToSet(delayJobs') /\ HowMany(job, deletes') < HowMany(job, delayJobs')
<1>1. IsABag(delayJobs) /\ IsABag(deletes) /\ BagToSet(delayJobs) \subseteq DelayJob
      /\ deletes \sqsubseteq delayJobs
  BY DEF DelayTypeOK
<1>2. IsABag(SetToBag(added)) /\ BagToSet(SetToBag(added)) = added
      /\ \A x : HowMany(x, SetToBag(added)) = IF x \in added THEN 1 ELSE 0
  BY SetBagLemma
<1>3. /\ IsABag(delayJobs') /\ BagToSet(delayJobs') = BagToSet(delayJobs) \union added
      /\ \A x : HowMany(x, delayJobs') = HowMany(x, delayJobs) + HowMany(x, SetToBag(added))
  BY <1>1, <1>2, PlusLemma
<1>4. \A x : HowMany(x, deletes) <= HowMany(x, delayJobs)
  BY <1>1, SubBagLemma
<1>5. \A x : HowMany(x, deletes) \in Nat /\ HowMany(x, delayJobs) \in Nat
  BY <1>1, HowManyLemma
<1>6. \A x : /\ HowMany(x, deletes) <= HowMany(x, delayJobs')
             /\ HowMany(x, deletes) < HowMany(x, delayJobs) => HowMany(x, deletes) < HowMany(x, delayJobs')
             /\ x \in added => HowMany(x, deletes) < HowMany(x, delayJobs')
  BY <1>2, <1>3, <1>4, <1>5
<1>7. deletes \sqsubseteq delayJobs'
  BY <1>1, <1>3, <1>6, SubBagLemma
<1> QED
  BY <1>1, <1>3, <1>5, <1>6, <1>7

LEMMA AddNewJobsStep ==
    ASSUME DelayInv, NEW w \in DelayWorkers, delayWorker[w].on, AddNewJobs(w)
    PROVE  DelayInv'
<1> USE DEF DelayInv
<1> DEFINE job == delayWorker[w].job
           got == delayWorker[w].got
           dueJobs == IF job.kind = Vesting /\ job.after THEN {} ELSE JobsFor(got)
<1>1. PICK added \in SUBSET dueJobs :
          /\ delayJobs' = delayJobs (+) SetToBag(added)
          /\ excusedEntries' = IF added # dueJobs \/ (job.kind = Vesting /\ job.after /\ got # {})
                               THEN excusedEntries \union {<<job.kind, job.addr>>} ELSE excusedEntries
  BY DEF AddNewJobs
<1>2. /\ delayWorker[w].wrote /\ delayWorker' = [delayWorker EXCEPT ![w] = Off]
      /\ UNCHANGED <<pending, begun, account, delaySends, deletes, delayCrawlJobs>>
  BY DEF AddNewJobs
<1>3. delayWorker[w] \in AtDelay /\ got \subseteq Of(begun, job) /\ got \subseteq Entries
  BY BusyLemma DEF AtDelay
<1>4. got \subseteq Of(got, job)
  BY <1>3 DEF Of
<1>5. added \subseteq DelayJob
  <2>1. JobsFor(got) \subseteq DelayJob
    BY <1>3, JobsForLemma
  <2> QED
    BY <2>1
<1>6. /\ IsABag(delayJobs') /\ BagToSet(delayJobs') \subseteq DelayJob
      /\ deletes' \sqsubseteq delayJobs'
      /\ \A j : HowMany(j, deletes) < HowMany(j, delayJobs) => HowMany(j, deletes') < HowMany(j, delayJobs')
      /\ \A j : HowMany(j, deletes') \in Nat
      /\ \A j \in added : j \in BagToSet(delayJobs') /\ HowMany(j, deletes') < HowMany(j, delayJobs')
  BY <1>1, <1>2, <1>5, AddedLemma
<1>7. /\ delayWorker' \in [DelayWorkers -> {Off} \union AtDelay]
      /\ \A v \in DelayWorkers : delayWorker'[v].on =>
            delayWorker'[v].got \subseteq Of(begun', delayWorker'[v].job)
      /\ \A v \in DelayWorkers \ {w} : delayWorker'[v] = delayWorker[v]
  BY <1>2, OffLemma
<1>8. DelayTypeOK'
  BY <1>2, <1>6, <1>7 DEF DelayTypeOK, AtDelay
<1>9. ASSUME NEW e \in account, Kept(e) PROVE Kept(e)' \/ Excuses(e)'
  <2>1. CASE JobStays(e)
    BY <1>6, <2>1, JobStaysLemma DEF Kept
  <2>2. CASE CrawlComes(e)
    BY <1>2, <2>2 DEF Kept, CrawlComes
  <2>3. CASE WorkerLooks(e)
    <3>1. CASE OfEntry(job, e) /\ e \in got
      <4>1. PICK j \in JobsFor(got) : OfEntry(j, e) /\ j.at <= e.at
        BY <1>3, <1>4, <3>1, JobsForLemma
      <4>2. CASE added = JobsFor(got)
        BY <1>6, <4>1, <4>2 DEF Kept, JobStays
      <4>3. CASE added # JobsFor(got)
        <5>1. excusedEntries' = excusedEntries \union {<<job.kind, job.addr>>}
          BY <1>1, <3>1, <4>3
        <5> QED
          BY <3>1, <5>1 DEF Excuses, OfEntry
      <4> QED
        BY <4>2, <4>3
    <3> QED
      BY <1>2, <1>7, <2>3, <3>1, WorkerLooksLemma DEF Kept
  <2> QED
    BY <1>9, <2>1, <2>2, <2>3 DEF Kept
<1>10. excusedEntries \subseteq excusedEntries'
  BY <1>1
<1> QED
  BY <1>2, <1>8, <1>9, <1>10 DEF EntriesAreKept, Excuses

LEMMA DelayCrawlFailsStep ==
    ASSUME DelayInv, NEW w \in DelayWorkers, DelayCrawlFails(w)
    PROVE  DelayInv'
<1> USE DEF DelayInv
<1> DEFINE job == delayWorker[w].job
<1>1. /\ delayWorker[w].on /\ delayWorker' = [delayWorker EXCEPT ![w] = Off]
      /\ UNCHANGED <<pending, begun, account, delayJobs, delaySends, deletes>>
  BY DEF DelayCrawlFails
<1>2. job \in CrawlJob
  BY <1>1, BusyLemma
<1>3. /\ delayWorker' \in [DelayWorkers -> {Off} \union AtDelay]
      /\ \A v \in DelayWorkers : delayWorker'[v].on =>
            delayWorker'[v].got \subseteq Of(begun', delayWorker'[v].job)
      /\ \A v \in DelayWorkers \ {w} : delayWorker'[v] = delayWorker[v]
  BY <1>1, OffLemma
<1>4. /\ IsABag(delayCrawlJobs') /\ BagToSet(delayCrawlJobs') \subseteq CrawlJob
      /\ BagToSet(delayCrawlJobs) \subseteq BagToSet(delayCrawlJobs')
      /\ excusedEntries \subseteq excusedEntries'
      /\ \/ \E j \in BagToSet(delayCrawlJobs') : j.kind = job.kind /\ j.addr = job.addr
         \/ <<job.kind, job.addr>> \in excusedEntries'
  <2>1. IsABag(delayCrawlJobs) /\ BagToSet(delayCrawlJobs) \subseteq CrawlJob
    BY DEF DelayTypeOK
  <2>2. CASE job.left > 1
    <3> DEFINE again == [job EXCEPT !.left = @ - 1]
    <3>1. again \in CrawlJob /\ again.kind = job.kind /\ again.addr = job.addr
      BY <1>2, <2>2 DEF CrawlJob
    <3>2. delayCrawlJobs' = delayCrawlJobs (+) SetToBag({again}) /\ UNCHANGED excusedEntries
      BY <2>2 DEF DelayCrawlFails
    <3> HIDE DEF again
    <3>3. IsABag(delayCrawlJobs') /\ BagToSet(delayCrawlJobs') = BagToSet(delayCrawlJobs) \union {again}
      BY <2>1, <3>2, PlusLemma, SetBagLemma
    <3> QED
      BY <2>1, <3>1, <3>2, <3>3
  <2>3. CASE ~(job.left > 1)
    BY <2>1, <2>3 DEF DelayCrawlFails
  <2> QED
    BY <2>2, <2>3
<1>5. DelayTypeOK'
  BY <1>1, <1>3, <1>4 DEF DelayTypeOK, AtDelay
<1>6. ASSUME NEW e \in account, Kept(e) PROVE Kept(e)' \/ Excuses(e)'
  <2>1. CASE JobStays(e)
    BY <1>1, <2>1 DEF Kept, JobStays
  <2>2. CASE CrawlComes(e)
    BY <1>1, <1>4, <2>2 DEF Kept, CrawlComes
  <2>3. CASE WorkerLooks(e)
    <3>1. CASE OfEntry(job, e)
      BY <1>4, <3>1 DEF Kept, CrawlComes, OfEntry, Excuses
    <3> QED
      BY <1>1, <1>3, <2>3, <3>1, WorkerLooksLemma DEF Kept
  <2> QED
    BY <1>6, <2>1, <2>2, <2>3 DEF Kept
<1> QED
  BY <1>1, <1>4, <1>5, <1>6 DEF EntriesAreKept, Excuses

LEMMA CrawlerDiesStep ==
    ASSUME DelayInv, NEW w \in DelayWorkers, CrawlerDies(w)
    PROVE  DelayInv'
<1> USE DEF DelayInv
<1> DEFINE job == delayWorker[w].job
<1>1. /\ delayWorker[w].on /\ delayWorker' = [delayWorker EXCEPT ![w] = Off]
      /\ delayCrawlJobs' = delayCrawlJobs (+) SetToBag({job})
      /\ UNCHANGED <<pending, begun, account, delaySends, deletes, excusedEntries>>
  BY DEF CrawlerDies
<1>2. job \in CrawlJob /\ delayWorker[w] \in AtDelay
  BY <1>1, BusyLemma
<1>3. /\ delayWorker' \in [DelayWorkers -> {Off} \union AtDelay]
      /\ \A v \in DelayWorkers : delayWorker'[v].on =>
            delayWorker'[v].got \subseteq Of(begun', delayWorker'[v].job)
      /\ \A v \in DelayWorkers \ {w} : delayWorker'[v] = delayWorker[v]
  BY <1>1, OffLemma
<1>4. IsABag(delayCrawlJobs') /\ BagToSet(delayCrawlJobs') = BagToSet(delayCrawlJobs) \union {job}
  <2>1. IsABag(delayCrawlJobs)
    BY DEF DelayTypeOK
  <2> QED
    BY <1>1, <2>1, PlusLemma, SetBagLemma
<1>5. /\ IsABag(delayJobs') /\ BagToSet(delayJobs') \subseteq DelayJob
      /\ deletes' \sqsubseteq delayJobs'
      /\ \A j : HowMany(j, deletes) < HowMany(j, delayJobs) => HowMany(j, deletes') < HowMany(j, delayJobs')
      /\ \A j : HowMany(j, deletes') \in Nat
  <2>1. PICK added \in SUBSET (IF delayWorker[w].wrote THEN JobsFor(delayWorker[w].got) ELSE {}) :
            delayJobs' = IF job.after /\ job.kind = Vesting
                         THEN delayJobs ELSE delayJobs (+) SetToBag(added)
    BY DEF CrawlerDies
  <2>2. CASE delayJobs' = delayJobs
    <3>1. IsABag(deletes)
      BY DEF DelayTypeOK
    <3> QED
      BY <1>1, <2>2, <3>1, HowManyLemma DEF DelayTypeOK
  <2>3. CASE delayJobs' = delayJobs (+) SetToBag(added)
    <3>1. JobsFor(delayWorker[w].got) \subseteq DelayJob
      BY <1>2, JobsForLemma DEF AtDelay
    <3>2. added \subseteq DelayJob
      BY <3>1
    <3> QED
      BY <1>1, <2>3, <3>2, AddedLemma
  <2> QED
    BY <2>1, <2>2, <2>3
<1>6. DelayTypeOK'
  BY <1>1, <1>2, <1>3, <1>4, <1>5 DEF DelayTypeOK, AtDelay
<1>7. ASSUME NEW e \in account, Kept(e) PROVE Kept(e)'
  <2>1. CASE JobStays(e)
    BY <1>5, <2>1, JobStaysLemma DEF Kept
  <2>2. CASE CrawlComes(e)
    BY <1>1, <1>4, <2>2 DEF Kept, CrawlComes
  <2>3. CASE WorkerLooks(e)
    BY <1>1, <1>3, <1>4, <2>3, WorkerLooksLemma DEF Kept, CrawlComes
  <2> QED
    BY <1>7, <2>1, <2>2, <2>3 DEF Kept
<1> QED
  BY <1>1, <1>6, <1>7 DEF EntriesAreKept

\* The crawl of an entry whose delay job is due comes, and the other jobs stay.
LEMMA HandleDelayJobsStep ==
    ASSUME DelayInv, HandleDelayJobs
    PROVE  DelayInv'
<1> USE DEF DelayInv
<1> DEFINE due == [job \in {j \in FindPendingJobs : j.at < clock} |-> delayJobs[job]]
<1>1. /\ deletes = EmptyBag /\ deletes' = due /\ delaySends' = delaySends (+) due
      /\ UNCHANGED <<pending, begun, account, delayJobs, delayCrawlJobs, delayWorker, excusedEntries>>
  BY DEF HandleDelayJobs
<1>2. /\ DOMAIN due \subseteq DOMAIN delayJobs /\ \A j \in DOMAIN due : due[j] = delayJobs[j]
      /\ due = [j \in DOMAIN due |-> due[j]]
  BY DEF FindPendingJobs, BagToSet
<1> HIDE DEF due
<1>3. IsABag(delayJobs) /\ IsABag(delaySends) /\ BagToSet(delayJobs) \union BagToSet(delaySends) \subseteq DelayJob
  BY DEF DelayTypeOK
<1>4. IsABag(due)
  BY <1>2, <1>3 DEF IsABag
<1>5. IsABag(delaySends') /\ BagToSet(delaySends') = BagToSet(delaySends) \union BagToSet(due)
  BY <1>1, <1>3, <1>4, PlusLemma
<1>6. due \sqsubseteq delayJobs
  BY <1>2, <1>3 DEF \sqsubseteq, IsABag
<1>7. DelayTypeOK'
  BY <1>1, <1>2, <1>3, <1>4, <1>5, <1>6 DEF DelayTypeOK, BagToSet
<1>8. ASSUME NEW e \in account, Kept(e) PROVE Kept(e)'
  <2>1. CASE JobStays(e)
    <3>1. PICK job \in BagToSet(delayJobs) :
              OfEntry(job, e) /\ job.at <= e.at /\ HowMany(job, deletes) < HowMany(job, delayJobs)
      BY <2>1 DEF JobStays
    <3>2. CASE job \in BagToSet(due)
      BY <1>5, <3>1, <3>2 DEF Kept, CrawlComes
    <3>3. CASE job \notin BagToSet(due)
      <4>1. HowMany(job, due) = 0 /\ HowMany(job, delayJobs) > 0
        BY <1>3, <3>1, <3>3, HowManyLemma DEF HowMany, BagToSet
      <4> QED
        BY <1>1, <3>1, <4>1 DEF Kept, JobStays
    <3> QED
      BY <3>2, <3>3
  <2>2. CASE CrawlComes(e)
    BY <1>1, <1>5, <2>2 DEF Kept, CrawlComes
  <2>3. CASE WorkerLooks(e)
    BY <1>1, <2>3 DEF Kept, WorkerLooks
  <2> QED
    BY <1>8, <2>1, <2>2, <2>3 DEF Kept
<1> QED
  BY <1>1, <1>7, <1>8 DEF EntriesAreKept

LEMMA CrawlLandsStep ==
    ASSUME DelayInv, CrawlLands
    PROVE  DelayInv'
<1> USE DEF DelayInv
<1>1. PICK job \in BagToSet(delaySends) :
          /\ delaySends' = delaySends (-) SetToBag({job})
          /\ delayCrawlJobs' = delayCrawlJobs (+) SetToBag({NewCrawl(job.kind, job.addr, TRUE, 1)})
  BY DEF CrawlLands
<1>2. UNCHANGED <<pending, begun, account, delayJobs, deletes, delayWorker, excusedEntries>>
  BY DEF CrawlLands
<1>3. /\ IsABag(delaySends) /\ BagToSet(delaySends) \subseteq DelayJob
      /\ IsABag(delayCrawlJobs) /\ BagToSet(delayCrawlJobs) \subseteq CrawlJob
  BY DEF DelayTypeOK
<1> DEFINE new == NewCrawl(job.kind, job.addr, TRUE, 1)
<1>4. new \in CrawlJob /\ new.kind = job.kind /\ new.addr = job.addr
  <2>1. job.kind \in DelayKinds /\ job.addr \in DelayAddresses
    BY <1>3 DEF DelayJob
  <2> QED
    BY <2>1 DEF NewCrawl, CrawlJob
<1>5. IsABag(delayCrawlJobs') /\ BagToSet(delayCrawlJobs') = BagToSet(delayCrawlJobs) \union {new}
  <2>1. delayCrawlJobs' = delayCrawlJobs (+) SetToBag({new})
    BY <1>1
  <2> HIDE DEF new
  <2> QED
    BY <1>3, <2>1, PlusLemma, SetBagLemma
<1> HIDE DEF new
<1>6. /\ IsABag(delaySends') /\ BagToSet(delaySends') \subseteq BagToSet(delaySends)
      /\ \A x \in BagToSet(delaySends) : x = job \/ x \in BagToSet(delaySends')
  BY <1>1, <1>3, TakeOneLemma
<1>7. DelayTypeOK'
  BY <1>2, <1>3, <1>4, <1>5, <1>6 DEF DelayTypeOK
<1>8. ASSUME NEW e \in account, Kept(e) PROVE Kept(e)'
  <2>1. CrawlComes(e) => CrawlComes(e)'
    BY <1>4, <1>5, <1>6 DEF CrawlComes, OfEntry
  <2> QED
    BY <1>2, <1>8, <2>1 DEF Kept, JobStays, WorkerLooks
<1> QED
  BY <1>2, <1>7, <1>8 DEF EntriesAreKept

\* A delete takes a copy that was not counted on.
LEMMA DeleteStep ==
    ASSUME DelayInv, DeleteLands \/ DeleteFails
    PROVE  DelayInv'
<1> USE DEF DelayInv
<1>1. PICK job \in BagToSet(deletes) :
          /\ deletes' = deletes (-) SetToBag({job})
          /\ delayJobs' = delayJobs (-) SetToBag({job}) \/ delayJobs' = delayJobs
  BY DEF DeleteLands, DeleteFails
<1>2. UNCHANGED <<pending, begun, account, delaySends, delayCrawlJobs, delayWorker, excusedEntries>>
  BY DEF DeleteLands, DeleteFails
<1>3. /\ IsABag(delayJobs) /\ BagToSet(delayJobs) \subseteq DelayJob /\ IsABag(deletes)
      /\ deletes \sqsubseteq delayJobs
  BY DEF DelayTypeOK
<1>4. job \in BagToSet(delayJobs)
  BY <1>3 DEF \sqsubseteq, BagToSet
<1>5. /\ IsABag(deletes')
      /\ \A x : HowMany(x, deletes') = IF x = job THEN HowMany(x, deletes) - 1 ELSE HowMany(x, deletes)
  BY <1>1, <1>3, TakeOneLemma
<1>6. /\ IsABag(delayJobs') /\ BagToSet(delayJobs') \subseteq BagToSet(delayJobs)
      /\ \/ \A x : HowMany(x, delayJobs') = IF x = job THEN HowMany(x, delayJobs) - 1 ELSE HowMany(x, delayJobs)
         \/ \A x : HowMany(x, delayJobs') = HowMany(x, delayJobs)
  BY <1>1, <1>3, <1>4, TakeOneLemma
<1>7. \A x : HowMany(x, deletes) <= HowMany(x, delayJobs) /\ HowMany(x, deletes) \in Nat /\ HowMany(x, delayJobs) \in Nat
  BY <1>3, SubBagLemma, HowManyLemma
<1>8. \A x : /\ HowMany(x, deletes') <= HowMany(x, delayJobs')
             /\ HowMany(x, deletes) < HowMany(x, delayJobs) => HowMany(x, deletes') < HowMany(x, delayJobs')
  BY <1>5, <1>6, <1>7
<1>9. deletes' \sqsubseteq delayJobs'
  BY <1>5, <1>6, <1>8, SubBagLemma
<1>10. DelayTypeOK'
  BY <1>2, <1>3, <1>5, <1>6, <1>9 DEF DelayTypeOK
<1>11. \A x : HowMany(x, deletes') \in Nat
  BY <1>5, HowManyLemma
<1>12. ASSUME NEW e \in account, Kept(e) PROVE Kept(e)'
  BY <1>2, <1>6, <1>8, <1>11, <1>12, JobStaysLemma DEF Kept, CrawlComes, WorkerLooks
<1> QED
  BY <1>2, <1>10, <1>12 DEF EntriesAreKept

LEMMA DelayHandlerDiesStep ==
    ASSUME DelayInv, DelayHandlerDies
    PROVE  DelayInv'
<1> USE DEF DelayInv
<1>1. PICK done \in PartsOf(deletes) : delayJobs' = delayJobs (-) done
  BY DEF DelayHandlerDies
<1>2. /\ excusedEntries' = excusedEntries \union {<<job.kind, job.addr>> : job \in BagToSet(delaySends)}
      /\ delaySends' = EmptyBag /\ deletes' = EmptyBag
      /\ UNCHANGED <<pending, begun, account, delayCrawlJobs, delayWorker>>
  BY DEF DelayHandlerDies
<1>3. /\ IsABag(delayJobs) /\ BagToSet(delayJobs) \subseteq DelayJob /\ IsABag(deletes)
      /\ deletes \sqsubseteq delayJobs
  BY DEF DelayTypeOK
<1>4. /\ DOMAIN done = DOMAIN deletes
      /\ \A x \in DOMAIN done : done[x] \in Nat /\ done[x] <= deletes[x]
  BY DEF PartsOf, BagToSet
<1>5. \A x : HowMany(x, done) \in Nat /\ HowMany(x, done) <= HowMany(x, deletes)
  BY <1>4 DEF HowMany
<1>6. /\ IsABag(delayJobs') /\ BagToSet(delayJobs') \subseteq BagToSet(delayJobs)
      /\ \A x : HowMany(x, delayJobs') = IF HowMany(x, delayJobs) > HowMany(x, done)
                                        THEN HowMany(x, delayJobs) - HowMany(x, done) ELSE 0
  BY <1>1, <1>3, <1>4, MinusLemma
<1>7. \A x : HowMany(x, deletes) \in Nat /\ HowMany(x, delayJobs) \in Nat
  BY <1>3, HowManyLemma
<1>8. IsABag(EmptyBag) /\ BagToSet(EmptyBag) = {} /\ \A x : HowMany(x, EmptyBag) = 0
  BY SetBagLemma DEF EmptyBag
<1>9. \A x : HowMany(x, deletes) < HowMany(x, delayJobs) => HowMany(x, deletes') < HowMany(x, delayJobs')
  BY <1>2, <1>5, <1>6, <1>7, <1>8
<1>10. deletes' \sqsubseteq delayJobs'
  BY <1>2, <1>8 DEF \sqsubseteq, BagToSet
<1>11. DelayTypeOK'
  BY <1>2, <1>3, <1>6, <1>8, <1>10 DEF DelayTypeOK
<1>12. ASSUME NEW e \in account, Kept(e) PROVE Kept(e)' \/ Excuses(e)'
  <2>1. CASE JobStays(e)
    BY <1>2, <1>6, <1>8, <1>9, <2>1, JobStaysLemma DEF Kept
  <2>2. CASE CrawlComes(e)
    BY <1>2, <2>2 DEF Kept, CrawlComes, Excuses, OfEntry
  <2>3. CASE WorkerLooks(e)
    BY <1>2, <2>3 DEF Kept, WorkerLooks
  <2> QED
    BY <1>12, <2>1, <2>2, <2>3 DEF Kept
<1> QED
  BY <1>2, <1>11, <1>12 DEF EntriesAreKept, Excuses

LEMMA NextDelayInv == DelayInv /\ [DelayNext]_delayVars => DelayInv'
<1> SUFFICES ASSUME DelayInv, [DelayNext]_delayVars PROVE DelayInv'
  OBVIOUS
<1>1. ASSUME NEW kind, DelayCrawl(kind) PROVE DelayInv'
  <2>1. PICK w \in DelayWorkers :
            \/ ReadEntries(w, kind)
            \/ delayWorker[w].on /\ (WriteEntries(w) \/ AddNewJobs(w) \/ DelayCrawlFails(w) \/ CrawlerDies(w))
    BY <1>1 DEF DelayCrawl
  <2> QED
    BY <2>1, ReadEntriesStep, WriteEntriesStep, AddNewJobsStep, DelayCrawlFailsStep, CrawlerDiesStep
<1>2. CASE DelayHandlerNext
  BY <1>2, HandleDelayJobsStep, CrawlLandsStep, DeleteStep DEF DelayHandlerNext
<1>3. CASE UNCHANGED delayVars
  <2>1. DelayTypeOK'
    BY <1>3 DEF DelayInv, DelayTypeOK, delayVars
  <2> QED
    BY <1>3, <2>1, UntouchedLemma DEF DelayInv, EntriesAreKept, delayVars
<1> QED
  BY <1>1, <1>2, <1>3, DelayChainStep, DeleteStep, DelayHandlerDiesStep
  DEF DelayNext, CrawlUnbonds, CrawlRedelegates, CrawlAuthInfo

\* A kept entry is watched.
LEMMA KeptIsWatched == EntriesAreKept => EntriesAreWatched
BY DEF EntriesAreKept, EntriesAreWatched, Kept, Watched, JobStays, CrawlComes, WorkerLooks, OfEntry

\* Each entry an account shows will be looked at again, however crawls, deletes,
\* failures and crashes interleave (handle-delay-job.service.ts:156).
THEOREM ShownEntriesAreWatched == DelaySpec => [](DelayTypeOK /\ EntriesAreWatched)
<1>1. DelayInv => DelayTypeOK /\ EntriesAreWatched
  BY KeptIsWatched DEF DelayInv
<1> QED
  BY <1>1, InitDelayInv, NextDelayInv, PTL DEF DelaySpec

-----------------------------------------------------------------------------
(* The duplicates of votes (Votes).                                            *)
\* A vote that is about to be deleted is not the newest.
GroupIsOld ==
    \A v \in Range(votes) :
        v.id \in removal.group => \E w \in Range(votes) : w.key = v.key /\ w.id > v.id

\* The collection is in the order of its ids.
RemoveInv ==
    /\ votes \in Seq([id : 1 .. nextId - 1, key : Keys])
    /\ nextId \in Nat \ {0}
    /\ \A i, j \in DOMAIN votes : i < j => votes[i].id < votes[j].id
    /\ removal \in [i : Nat, group : SUBSET (1 .. nextId - 1), done : BOOLEAN]
    /\ GroupIsOld

\* A list without its i-th element.
LEMMA WithoutLemma ==
    ASSUME NEW D, NEW s \in Seq(D), NEW i \in DOMAIN s
    PROVE  /\ RemoveAt(s, i) \in Seq(D)
           /\ Len(RemoveAt(s, i)) = Len(s) - 1
           /\ \A j \in 1 .. Len(s) - 1 : RemoveAt(s, i)[j] = IF j < i THEN s[j] ELSE s[j + 1]
<1> DEFINE front == SubSeq(s, 1, i - 1)
           back  == SubSeq(s, i + 1, Len(s))
<1>1. /\ DOMAIN s = 1 .. Len(s) /\ Len(s) \in Nat /\ i \in 1 .. Len(s)
      /\ \A j \in 1 .. Len(s) : s[j] \in D
  OBVIOUS
<1>2. /\ front \in Seq(D) /\ DOMAIN front = 1 .. (i - 1)
      /\ \A j \in 1 .. (i - 1) : front[j] = s[j]
  BY <1>1
<1>3. /\ back \in Seq(D) /\ DOMAIN back = 1 .. (Len(s) - i)
      /\ \A j \in 1 .. (Len(s) - i) : back[j] = s[i + j]
  BY <1>1
<1> HIDE DEF front, back
<1>4. /\ front \o back \in Seq(D) /\ Len(front \o back) = Len(s) - 1
      /\ \A j \in 1 .. Len(s) - 1 : (front \o back)[j] = IF j < i THEN front[j] ELSE back[j - (i - 1)]
  <2>1. Len(front) = i - 1 /\ Len(back) = Len(s) - i
    BY <1>1, <1>2, <1>3
  <2>2. /\ front \o back \in Seq(D) /\ Len(front \o back) = Len(front) + Len(back)
        /\ \A j \in 1 .. Len(front) + Len(back) :
              (front \o back)[j] = IF j <= Len(front) THEN front[j] ELSE back[j - Len(front)]
    BY <1>2, <1>3
  <2>3. Len(front) + Len(back) = Len(s) - 1 /\ \A j \in Int : j <= i - 1 <=> j < i
    BY <1>1, <2>1
  <2> QED
    BY <2>1, <2>2, <2>3
<1>5. ASSUME NEW j \in 1 .. Len(s) - 1
      PROVE  (front \o back)[j] = IF j < i THEN s[j] ELSE s[j + 1]
  <2>1. CASE j < i
    BY <1>1, <1>2, <1>4, <2>1
  <2>2. CASE ~(j < i)
    <3>1. j - (i - 1) \in 1 .. (Len(s) - i) /\ i + (j - (i - 1)) = j + 1
      BY <1>1, <2>2
    <3> QED
      BY <1>3, <1>4, <2>2, <3>1
  <2> QED
    BY <2>1, <2>2
<1>6. RemoveAt(s, i) = front \o back
  BY DEF RemoveAt, front, back
<1> QED
  BY <1>4, <1>5, <1>6

\* What the elements of a list are, and its range.
LEMMA ElementsLemma ==
    ASSUME NEW D, NEW s \in Seq(D)
    PROVE  /\ DOMAIN s = 1 .. Len(s) /\ Len(s) \in Nat /\ DOMAIN s \subseteq Nat
           /\ \A i \in DOMAIN s : s[i] \in D
           /\ Range(s) = {s[i] : i \in DOMAIN s} /\ Range(s) \subseteq D
<1>1. /\ DOMAIN s = 1 .. Len(s) /\ Len(s) \in Nat /\ DOMAIN s \subseteq Nat
      /\ \A i \in DOMAIN s : s[i] \in D
  OBVIOUS
<1> QED
  BY <1>1 DEF Range

\* A list of some things is one of more of them.
LEMMA MoreLemma ==
    ASSUME NEW D, NEW E, NEW s \in Seq(D), D \subseteq E
    PROVE  s \in Seq(E)
OBVIOUS

\* A bounded set of numbers has a greatest one.
LEMMA GreatestLemma ==
    ASSUME NEW n \in Nat, NEW S \in SUBSET (1 .. n), S # {}
    PROVE  \E x \in S : \A y \in S : y <= x
<1> DEFINE Below == {n - x : x \in S}
<1>1. Below \in SUBSET Nat /\ Below # {}
  <2>1. \A x \in S : n - x \in Nat
    OBVIOUS
  <2> QED
    BY <2>1
<1>2. PICK b \in Below : \A c \in Below : b <= c
  BY <1>1, MinLemma
<1>3. PICK x \in S : b = n - x
  BY <1>2
<1>4. \A y \in S : y <= x
  <2> SUFFICES ASSUME NEW y \in S PROVE y <= x
    OBVIOUS
  <2>1. n - y \in Below
    OBVIOUS
  <2>2. n - x <= n - y
    BY <1>2, <1>3, <2>1
  <2>3. x \in Int /\ y \in Int /\ n \in Int
    OBVIOUS
  <2> HIDE DEF Below
  <2> QED
    BY <2>2, <2>3
<1> QED
  BY <1>4

\* Initially nothing is about to be deleted.
LEMMA InitRemove == RemoveInit => RemoveInv
<1> SUFFICES ASSUME RemoveInit PROVE RemoveInv
  OBVIOUS
<1>1. PICK n \in 0 .. MaxVotes : \E f \in [1 .. n -> Keys] : votes = [i \in 1 .. n |-> [id |-> i, key |-> f[i]]]
  BY DEF RemoveInit
<1>2. PICK f \in [1 .. n -> Keys] : votes = [i \in 1 .. n |-> [id |-> i, key |-> f[i]]]
  BY <1>1
<1>3. nextId = MaxVotes + 1 /\ MaxVotes \in Nat /\ removal = RemoverIdle
  BY RemoveAssumption DEF RemoveInit
<1>4. votes \in Seq([id : 1 .. nextId - 1, key : Keys]) /\ DOMAIN votes = 1 .. n
  BY <1>1, <1>2, <1>3
<1>5. \A i, j \in DOMAIN votes : i < j => votes[i].id < votes[j].id
  BY <1>2, <1>4
<1> QED
  BY <1>3, <1>4, <1>5 DEF RemoveInv, RemoverIdle, GroupIsOld

\* The range of a list is the set of its elements.
LEMMA ElementsOf == \A s : Range(s) = {s[i] : i \in DOMAIN s}
BY DEF Range

\* The manager inserts a vote, which is newer than all others.
LEMMA InsertStep ==
    ASSUME RemoveInv, NEW k \in Keys, InsertDuplicate(k)
    PROVE  RemoveInv' /\ Range(votes) \subseteq Range(votes')
<1> DEFINE new == [id |-> nextId, key |-> k]
           D == [id : 1 .. nextId' - 1, key : Keys]
<1>1. /\ nextId \in Nat \ {0} /\ nextId' = nextId + 1 /\ votes' = Append(votes, new) /\ removal' = removal
      /\ \A i, j \in DOMAIN votes : i < j => votes[i].id < votes[j].id
      /\ removal \in [i : Nat, group : SUBSET (1 .. nextId - 1), done : BOOLEAN]
  BY DEF InsertDuplicate, RemoveInv
<1>2. votes \in Seq([id : 1 .. nextId - 1, key : Keys])
  BY DEF RemoveInv
<1>3. [id : 1 .. nextId - 1, key : Keys] \subseteq D /\ new \in D
  BY <1>1
<1>4. /\ DOMAIN votes = 1 .. Len(votes) /\ Len(votes) \in Nat
      /\ \A i \in DOMAIN votes : votes[i] \in [id : 1 .. nextId - 1, key : Keys]
  BY <1>2, ElementsLemma
<1>5. votes \in Seq(D)
  BY <1>2, <1>3, MoreLemma
<1> HIDE DEF D
<1>6. /\ votes' \in Seq(D) /\ DOMAIN votes' = 1 .. Len(votes) + 1
      /\ \A i \in DOMAIN votes : votes'[i] = votes[i]
      /\ votes'[Len(votes) + 1] = new
  BY <1>1, <1>3, <1>5
<1>7. \A i \in DOMAIN votes : votes[i].id \in 1 .. nextId - 1
  BY <1>4
<1>8. Range(votes) = {votes[i] : i \in DOMAIN votes} /\ Range(votes') = {votes'[i] : i \in DOMAIN votes'}
  BY ElementsOf
<1>9. Range(votes') = Range(votes) \union {new}
  BY <1>4, <1>6, <1>8
<1>10. \A i, j \in DOMAIN votes' : i < j => votes'[i].id < votes'[j].id
  <2> SUFFICES ASSUME NEW i \in DOMAIN votes', NEW j \in DOMAIN votes', i < j
               PROVE  votes'[i].id < votes'[j].id
    OBVIOUS
  <2>1. i \in DOMAIN votes /\ votes'[i] = votes[i]
    BY <1>4, <1>6
  <2>2. CASE j \in DOMAIN votes
    BY <1>1, <1>6, <2>1, <2>2
  <2>3. CASE j = Len(votes) + 1
    BY <1>1, <1>6, <1>7, <2>1, <2>3
  <2> QED
    BY <1>4, <1>6, <2>2, <2>3
<1>11. GroupIsOld'
  <2>1. nextId \notin removal.group
    BY <1>1
  <2>2. GroupIsOld
    BY DEF RemoveInv
  <2> QED
    BY <1>1, <1>9, <2>1, <2>2 DEF GroupIsOld
<1>12. removal' \in [i : Nat, group : SUBSET (1 .. nextId' - 1), done : BOOLEAN]
  BY <1>1
<1> QED
  BY <1>1, <1>6, <1>9, <1>10, <1>11, <1>12 DEF RemoveInv, D

\* A start forgets what was to be deleted.
LEMMA StartRemoveStep ==
    ASSUME RemoveInv, StartRemove
    PROVE  RemoveInv' /\ votes' = votes
BY DEF RemoveInv, StartRemove, GroupIsOld

\* The votes that are to go are not the newest.
LEMMA ReadGroupStep ==
    ASSUME RemoveInv, ReadGroup
    PROVE  RemoveInv' /\ votes' = votes
<1>1. votes' = votes /\ nextId' = nextId /\ removal \in [i : Nat, group : SUBSET (1 .. nextId - 1), done : BOOLEAN]
  BY DEF ReadGroup, RemoveInv
<1>2. CASE removal.i >= Len(votes)
  <2>1. removal' = [removal EXCEPT !.done = TRUE]
    BY <1>2 DEF ReadGroup
  <2>2. removal'.group = removal.group /\ removal' \in [i : Nat, group : SUBSET (1 .. nextId - 1), done : BOOLEAN]
    BY <1>1, <2>1
  <2> QED
    BY <1>1, <2>2 DEF RemoveInv, GroupIsOld
<1>3. CASE ~(removal.i >= Len(votes))
  <2> DEFINE k == votes[removal.i + 1].key
             ids == {v.id : v \in {w \in Range(votes) : w.key = k}}
  <2>1. removal' = [removal EXCEPT !.i = @ + 1, !.group = Others(k)]
    BY <1>3 DEF ReadGroup
  <2>2. Others(k) = {d \in ids : Cardinality({c \in ids : c > d}) \in 1 .. GroupLimit - 1}
    BY DEF Others
  <2>3. /\ Range(votes) = {votes[i] : i \in DOMAIN votes}
        /\ \A v \in Range(votes) : v.id \in 1 .. nextId - 1
    <3>1. votes \in Seq([id : 1 .. nextId - 1, key : Keys])
      BY DEF RemoveInv
    <3>2. Range(votes) \subseteq [id : 1 .. nextId - 1, key : Keys]
      BY <3>1, ElementsLemma
    <3> QED
      BY <3>2, ElementsOf
  <2> HIDE DEF k
  <2>4. ids \subseteq 1 .. nextId - 1
    BY <2>3
  <2>5. \A d \in Others(k) : \E c \in ids : c > d
    <3>1. ASSUME NEW d \in Others(k), {c \in ids : c > d} = {}
          PROVE  FALSE
      <4>1. Cardinality({c \in ids : c > d}) \in 1 .. GroupLimit - 1
        BY <2>2
      <4>2. Cardinality({c \in ids : c > d}) = 0
        BY <3>1, FS_EmptySet
      <4> QED
        BY <4>1, <4>2
    <3> QED
      BY <3>1
  <2>6. removal'.group = Others(k) /\ removal' \in [i : Nat, group : SUBSET (1 .. nextId - 1), done : BOOLEAN]
    <3>1. Others(k) \subseteq 1 .. nextId - 1
      BY <2>2, <2>4
    <3> HIDE DEF ids
    <3>2. removal' = [i |-> removal.i + 1, group |-> Others(k), done |-> removal.done]
      BY <1>1, <2>1
    <3>3. removal.i + 1 \in Nat /\ removal.done \in BOOLEAN
      BY <1>1
    <3> QED
      BY <3>1, <3>2, <3>3
  <2>7. ASSUME NEW v \in Range(votes), v.id \in Others(k)
        PROVE  \E w \in Range(votes) : w.key = v.key /\ w.id > v.id
    <3>1. PICK u \in Range(votes) : u.key = k /\ u.id = v.id
      BY <2>2, <2>7
    <3>2. u = v
      <4>1. PICK i \in DOMAIN votes : v = votes[i]
        BY <2>3
      <4>2. PICK j \in DOMAIN votes : u = votes[j]
        BY <2>3
      <4>3. /\ i \in Int /\ j \in Int /\ votes[i].id \in Int /\ votes[j].id \in Int
            /\ (i < j => votes[i].id < votes[j].id) /\ (j < i => votes[j].id < votes[i].id)
        <5>1. votes[i].id \in 1 .. nextId - 1 /\ votes[j].id \in 1 .. nextId - 1
          BY <2>3, <4>1, <4>2
        <5>2. \A m, n \in DOMAIN votes : m < n => votes[m].id < votes[n].id
          BY DEF RemoveInv
        <5>3. DOMAIN votes \subseteq Nat
          <6>1. votes \in Seq([id : 1 .. nextId - 1, key : Keys])
            BY DEF RemoveInv
          <6> QED
            BY <6>1, ElementsLemma
        <5> QED
          BY <5>1, <5>2, <5>3
      <4>4. i = j
        BY <3>1, <4>1, <4>2, <4>3
      <4> QED
        BY <4>1, <4>2, <4>4
    <3>3. PICK c \in ids : c > v.id
      BY <2>5, <2>7
    <3> QED
      BY <3>1, <3>2, <3>3
  <2>8. GroupIsOld'
    BY <1>1, <2>6, <2>7 DEF GroupIsOld
  <2> QED
    BY <1>1, <2>6, <2>8 DEF RemoveInv
<1> QED
  BY <1>2, <1>3

\* One of them goes, and no other vote.
LEMMA RemoveOneStep ==
    ASSUME RemoveInv, RemoveOne
    PROVE  /\ RemoveInv'
           /\ \A v \in Range(votes) : v \in Range(votes') \/ v.id \in removal.group
<1> DEFINE d == CHOOSE x \in removal.group : \A y \in removal.group : y <= x
           D == [id : 1 .. nextId - 1, key : Keys]
           R == [i : Nat, group : SUBSET (1 .. nextId - 1), done : BOOLEAN]
<1>1. /\ nextId' = nextId /\ nextId \in Nat \ {0} /\ removal \in R /\ votes \in Seq(D)
      /\ \A i, j \in DOMAIN votes : i < j => votes[i].id < votes[j].id
      /\ removal' = [removal EXCEPT !.group = @ \ {d}]
      /\ removal.group # {}
  BY DEF RemoveOne, RemoveInv
<1>2. PICK i \in DOMAIN votes : votes[i].id = d /\ votes' = RemoveAt(votes, i)
  BY DEF RemoveOne
<1>3. d \in removal.group /\ \A y \in removal.group : y <= d
  <2>1. removal.group \in SUBSET (1 .. nextId - 1) /\ nextId - 1 \in Nat
    BY <1>1
  <2> QED
    BY <1>1, <2>1, GreatestLemma
<1> HIDE DEF d, D
<1>4. /\ votes' \in Seq(D) /\ Len(votes') = Len(votes) - 1
      /\ \A j \in 1 .. Len(votes) - 1 : votes'[j] = IF j < i THEN votes[j] ELSE votes[j + 1]
  BY <1>1, <1>2, WithoutLemma
<1>5. /\ DOMAIN votes = 1 .. Len(votes) /\ DOMAIN votes' = 1 .. Len(votes) - 1 /\ Len(votes) \in Nat
      /\ i \in 1 .. Len(votes)
  BY <1>1, <1>4
<1>6. \A j \in DOMAIN votes : votes[j] \in D /\ votes[j].id \in Int
  <2>1. \A j \in DOMAIN votes : votes[j] \in D
    BY <1>1, ElementsLemma
  <2> QED
    BY <1>1, <2>1 DEF D
<1>7. \A j, m \in DOMAIN votes' : j < m => votes'[j].id < votes'[m].id
  <2> SUFFICES ASSUME NEW j \in DOMAIN votes', NEW m \in DOMAIN votes', j < m
               PROVE  votes'[j].id < votes'[m].id
    OBVIOUS
  <2>1. \E x, y \in DOMAIN votes : x < y /\ votes'[j] = votes[x] /\ votes'[m] = votes[y]
    <3>1. CASE m < i
      BY <1>4, <1>5, <3>1
    <3>2. CASE j < i /\ ~(m < i)
      BY <1>4, <1>5, <3>2
    <3>3. CASE ~(j < i)
      <4>1. votes'[j] = votes[j + 1] /\ votes'[m] = votes[m + 1] /\ j + 1 \in DOMAIN votes /\ m + 1 \in DOMAIN votes
        BY <1>4, <1>5, <3>3
      <4> QED
        BY <1>5, <4>1
    <3> QED
      BY <1>5, <3>1, <3>2, <3>3
  <2> QED
    BY <1>1, <2>1
<1>8. Range(votes) = {votes[j] : j \in DOMAIN votes} /\ Range(votes') = {votes'[j] : j \in DOMAIN votes'}
  BY ElementsOf
<1>9. Range(votes') \subseteq Range(votes)
  <2> SUFFICES ASSUME NEW j \in DOMAIN votes'
               PROVE  votes'[j] \in Range(votes)
    BY <1>8
  <2>1. j \in DOMAIN votes /\ j + 1 \in DOMAIN votes /\ j \in 1 .. Len(votes) - 1
    BY <1>5
  <2> QED
    BY <1>4, <1>8, <2>1
<1>10. ASSUME NEW v \in Range(votes), v.id # d
       PROVE  v \in Range(votes')
  <2>1. PICK j \in DOMAIN votes : v = votes[j]
    BY <1>8
  <2>2. j # i
    BY <1>2, <1>10, <2>1
  <2>3. CASE j < i
    <3>1. j \in DOMAIN votes' /\ votes'[j] = v
      BY <1>4, <1>5, <2>1, <2>3
    <3> QED
      BY <1>8, <3>1
  <2>4. CASE j > i
    <3>1. j - 1 \in DOMAIN votes' /\ votes'[j - 1] = v
      BY <1>4, <1>5, <2>1, <2>4
    <3> QED
      BY <1>8, <3>1
  <2> QED
    BY <1>5, <2>2, <2>3, <2>4
<1>11. GroupIsOld'
  <2> SUFFICES ASSUME NEW v \in Range(votes'), v.id \in removal'.group
               PROVE  \E w \in Range(votes') : w.key = v.key /\ w.id > v.id
    BY DEF GroupIsOld
  <2>1. v \in Range(votes) /\ v.id \in removal.group /\ v.id # d
    BY <1>1, <1>9
  <2>2. PICK w \in Range(votes) : w.key = v.key /\ w.id > v.id
    BY <2>1 DEF RemoveInv, GroupIsOld
  <2>3. CASE w.id # d
    BY <1>10, <2>2, <2>3
  <2>4. CASE w.id = d
    <3>1. PICK u \in Range(votes) : u.key = w.key /\ u.id > w.id
      BY <1>3, <2>4 DEF RemoveInv, GroupIsOld
    <3>2. v.id \in Int /\ w.id \in Int /\ u.id \in Int
      BY <1>6, <1>8, <2>1
    <3>3. u.id # d /\ u.id > v.id /\ u.key = v.key
      BY <2>2, <2>4, <3>1, <3>2
    <3> QED
      BY <1>10, <3>3
  <2> QED
    BY <2>3, <2>4
<1>12. removal' \in R
  BY <1>1
<1> QED
  BY <1>1, <1>3, <1>4, <1>7, <1>10, <1>11, <1>12 DEF RemoveInv, D

\* No step deletes the newest vote of a voter.
LEMMA NextRemove ==
    ASSUME RemoveInv, [RemoveNext]_removeVars
    PROVE  /\ RemoveInv'
           /\ \A k \in Keys : \A v \in Newest(k) :
                 v \in Range(votes)' \/ \E w \in Range(votes)' : w.key = k /\ w.id > v.id
<1>1. ASSUME \A v \in Range(votes) : v \in Range(votes') \/ v.id \in removal.group
      PROVE  \A k \in Keys : \A v \in Newest(k) : v \in Range(votes')
  <2> SUFFICES ASSUME NEW k \in Keys, NEW v \in Newest(k), v \notin Range(votes')
               PROVE  FALSE
    OBVIOUS
  <2>1. v \in Range(votes) /\ v.key = k /\ \A w \in Range(votes) : w.key = k => w.id <= v.id
    BY DEF Newest
  <2>2. PICK w \in Range(votes) : w.key = v.key /\ w.id > v.id
    BY <1>1, <2>1 DEF RemoveInv, GroupIsOld
  <2>3. v.id \in Int /\ w.id \in Int
    <3>1. v \in [id : 1 .. nextId - 1, key : Keys] /\ w \in [id : 1 .. nextId - 1, key : Keys]
      BY <2>1, ElementsLemma DEF RemoveInv
    <3> QED
      BY <3>1
  <2> QED
    BY <2>1, <2>2, <2>3
<1>2. Range(votes)' = Range(votes')
  BY DEF Range
<1>3. ASSUME NEW k \in Keys, InsertDuplicate(k)
      PROVE  RemoveInv' /\ \A v \in Range(votes) : v \in Range(votes') \/ v.id \in removal.group
  BY <1>3, InsertStep
<1>4. ASSUME UNCHANGED removeVars
      PROVE  RemoveInv' /\ \A v \in Range(votes) : v \in Range(votes') \/ v.id \in removal.group
  BY <1>4 DEF removeVars, RemoveInv, GroupIsOld
<1>5. RemoveInv' /\ \A v \in Range(votes) : v \in Range(votes') \/ v.id \in removal.group
  BY <1>3, <1>4, StartRemoveStep, ReadGroupStep, RemoveOneStep DEF RemoveNext
<1> QED
  BY <1>1, <1>2, <1>5

\* The invariant has the type.
LEMMA RemoveTypes == RemoveInv => RemoveTypeOK
<1> SUFFICES ASSUME RemoveInv PROVE RemoveTypeOK
  OBVIOUS
<1>1. \A i \in DOMAIN votes : votes[i].id \in 1 .. nextId - 1 /\ votes[i].key \in Keys
  <2>1. \A i \in DOMAIN votes : votes[i] \in [id : 1 .. nextId - 1, key : Keys]
    BY ElementsLemma DEF RemoveInv
  <2> QED
    BY <2>1
<1> QED
  BY <1>1, ElementsOf DEF RemoveInv, RemoveTypeOK

-----------------------------------------------------------------------------
(* The votes of proposals (Votes).                                             *)
\* The votes of all transactions.
AllVotes == UNION {VotesIn(t) : t \in DOMAIN VoteTxs}

\* Calls and records are of votes; a call is made of a vote that was cast.
VoteTypes ==
    /\ handledTxs \subseteq DOMAIN VoteTxs /\ 1 .. Uncoded \subseteq handledTxs
    /\ calls \subseteq [vote : AllVotes, scan : BOOLEAN, found : Int]
    /\ \A c \in calls : VoteTxs[c.vote[1]].code = 0
    /\ voteRecords \in Seq([vote : AllVotes, code : Int])

\* What a call found is of its voter, and at most that.
FoundIsTheirs ==
    \A c \in calls :
        \/ c.found = -1 \/ c.found = 0
        \/ c.found \in DOMAIN voteRecords /\ KeyOf(voteRecords[c.found].vote) = KeyOf(c.vote)

\* Of a voter whose calls came one by one and in order there is at most one call...
CallsAlone ==
    \A c, d \in calls : KeyOf(c.vote) = KeyOf(d.vote) => c = d \/ KeyOf(c.vote) \in disturbed

\* ... and one record...
RecordsAlone ==
    \A i, j \in DOMAIN voteRecords :
        KeyOf(voteRecords[i].vote) = KeyOf(voteRecords[j].vote) =>
            i = j \/ KeyOf(voteRecords[i].vote) \in disturbed

\* ... which the call finds, and which is not later than it.
CallsInOrder ==
    \A c \in calls : \A i \in DOMAIN voteRecords :
        KeyOf(voteRecords[i].vote) = KeyOf(c.vote) =>
            \/ KeyOf(c.vote) \in disturbed
            \/ c.found \in {-1, i} /\ ~Later(voteRecords[i].vote, c.vote)

\* The votes that were cast in the transactions of a set.
CastIn(ts) == {v \in UNION {VotesIn(t) : t \in ts} : VoteTxs[v[1]].code = 0 \/ v[1] <= Uncoded}

\* A vote that was cast is lost, about to be written, or in a record, maybe under a later one.
VotesAreKept ==
    \A v \in CastIn(handledTxs) :
        \/ v \in lostVotes
        \/ \E c \in calls : c.vote = v
        \/ \E i \in DOMAIN voteRecords :
              /\ KeyOf(voteRecords[i].vote) = KeyOf(v)
              /\ KeyOf(v) \in disturbed \/ ~Later(v, voteRecords[i].vote)

\* The job that adds codes has read each record once, and knows its vote.
RecodingIsRead ==
    /\ \A r \in recoding :
          /\ r[1] \in DOMAIN voteRecords
          /\ r[2] = voteRecords[r[1]].vote \/ KeyOf(voteRecords[r[1]].vote) \in disturbed
          /\ VoteTxs[r[2][1]].code \in Int
    /\ \A r, s \in recoding : r[1] = s[1] => r[2] = s[2]

VotesInv ==
    /\ VoteTypes
    /\ FoundIsTheirs
    /\ CallsAlone
    /\ RecordsAlone
    /\ CallsInOrder
    /\ VotesAreKept
    /\ RecodingIsRead
    /\ CodeIsOfItsTx

\* A scan goes on after a transaction that was handled.
ScanInv == lastScanned \in handledTxs \union {0}

\* Votes have a place on the chain and a key...
LEMMA VoteLemma ==
    ASSUME NEW v \in AllVotes
    PROVE  /\ v[1] \in DOMAIN VoteTxs /\ v[1] \in Nat /\ v[2] \in Nat
           /\ v \in VotesIn(v[1]) /\ v = <<v[1], v[2]>>
           /\ VoteTxs[v[1]].code \in Nat
<1>1. PICK t \in DOMAIN VoteTxs : v \in VotesIn(t)
  BY DEF AllVotes
<1>2. PICK i \in DOMAIN VoteTxs[t].votes : v = <<t, i>>
  BY <1>1 DEF VotesIn
<1>3. t \in Nat /\ VoteTxs[t] \in [code : Nat, votes : Seq(Keys)]
  BY VotesAssumption, ElementsLemma
<1>4. i \in Nat
  BY <1>3, ElementsLemma
<1> QED
  BY <1>1, <1>2, <1>3, <1>4

\* ... and are in the order of the chain.
LEMMA LaterLemma ==
    ASSUME NEW u \in AllVotes, NEW v \in AllVotes, NEW w \in AllVotes
    PROVE  ~Later(v, v) /\ (~Later(u, v) /\ ~Later(v, w) => ~Later(u, w))
<1>1. \A a, b, c, x, y, z \in Nat :
         /\ ~(a > a \/ (a = a /\ x > x))
         /\ ~(a > b \/ (a = b /\ x > y)) /\ ~(b > c \/ (b = c /\ y > z)) => ~(a > c \/ (a = c /\ x > z))
  OBVIOUS
<1>2. u[1] \in Nat /\ u[2] \in Nat /\ v[1] \in Nat /\ v[2] \in Nat /\ w[1] \in Nat /\ w[2] \in Nat
  BY VoteLemma
<1> QED
  BY <1>1, <1>2 DEF Later

\* The votes in a set of transactions are there.
LEMMA CastLemma ==
    ASSUME NEW ts, ts \subseteq DOMAIN VoteTxs
    PROVE  /\ UNION {VotesIn(t) : t \in ts} \subseteq AllVotes
           /\ \A v : v \in UNION {VotesIn(t) : t \in ts} <=> v \in AllVotes /\ v[1] \in ts
<1>1. UNION {VotesIn(t) : t \in ts} \subseteq AllVotes
  BY DEF AllVotes
<1>2. ASSUME NEW v, NEW t \in ts, v \in VotesIn(t)
      PROVE  v[1] = t
  BY <1>2 DEF VotesIn
<1>3. \A v \in UNION {VotesIn(t) : t \in ts} : v[1] \in ts
  BY <1>2
<1>4. \A v \in AllVotes : v[1] \in ts => v \in UNION {VotesIn(t) : t \in ts}
  BY VoteLemma
<1> QED
  BY <1>1, <1>3, <1>4

\* Every vote of a set is followed by a last one of its voter, or is it.
LEMMA LastVotesLemma ==
    ASSUME NEW S, S \subseteq AllVotes, NEW v \in S
    PROVE  \E w \in LastVotes(S) : KeyOf(w) = KeyOf(v) /\ ~Later(v, w)
<1> DEFINE same == {u \in S : KeyOf(u) = KeyOf(v)}
           txs  == {u[1] : u \in same}
<1>1. same \subseteq AllVotes /\ v \in same
  OBVIOUS
<1>2. Len(VoteTxs) \in Nat /\ DOMAIN VoteTxs = 1 .. Len(VoteTxs)
  BY VotesAssumption
<1>3. txs \in SUBSET (1 .. Len(VoteTxs)) /\ txs # {}
  BY <1>1, <1>2, VoteLemma
<1>4. PICK t \in txs : \A s \in txs : s <= t
  BY <1>2, <1>3, GreatestLemma
<1> DEFINE at == {u[2] : u \in {x \in same : x[1] = t}}
<1>5. VoteTxs[t].votes \in Seq(Keys)
  <2>1. t \in DOMAIN VoteTxs
    BY <1>2, <1>3
  <2>2. VoteTxs[t] \in [code : Nat, votes : Seq(Keys)]
    BY <2>1, VotesAssumption, ElementsLemma
  <2> QED
    BY <2>2
<1>6. Len(VoteTxs[t].votes) \in Nat /\ DOMAIN VoteTxs[t].votes = 1 .. Len(VoteTxs[t].votes)
  BY <1>5, ElementsLemma
<1>7. at \in SUBSET (1 .. Len(VoteTxs[t].votes)) /\ at # {}
  <2>1. ASSUME NEW x \in same, x[1] = t
        PROVE  x[2] \in DOMAIN VoteTxs[t].votes
    BY <1>1, <2>1, VoteLemma DEF VotesIn
  <2>2. \E x \in same : x[1] = t
    OBVIOUS
  <2> QED
    BY <1>6, <2>1, <2>2
<1>8. PICK i \in at : \A j \in at : j <= i
  BY <1>6, <1>7, GreatestLemma
<1>9. PICK w \in same : w[1] = t /\ w[2] = i
  OBVIOUS
<1>10. ASSUME NEW x \in same
       PROVE  ~Later(x, w)
  <2>1. x[1] \in txs /\ x[1] <= t
    BY <1>4
  <2>2. x[1] = t => x[2] <= i
    BY <1>8
  <2>3. x[1] \in Nat /\ x[2] \in Nat /\ w[1] \in Nat /\ w[2] \in Nat
    BY <1>1, VoteLemma
  <2> HIDE DEF txs, at, same
  <2> QED
    BY <1>9, <2>1, <2>2, <2>3 DEF Later
<1> QED
  BY <1>1, <1>9, <1>10 DEF LastVotes

\* A finite set in any order.
LEMMA OrdersLemma ==
    ASSUME NEW S, IsFiniteSet(S), NEW s \in SetToSeqs(S)
    PROVE  /\ s \in Seq(S) /\ DOMAIN s = 1 .. Cardinality(S)
           /\ \A x \in S : \E i \in DOMAIN s : s[i] = x
           /\ \A i, j \in DOMAIN s : s[i] = s[j] => i = j
<1> DEFINE n == Cardinality(S)
<1>1. n \in Nat
  BY FS_CardinalityType
<1>2. s \in [1 .. n -> S] /\ \A i, j \in 1 .. n : s[i] = s[j] => i = j
  BY DEF SetToSeqs
<1>3. s \in Injection(1 .. n, S)
  BY <1>2 DEF Injection, IsInjective
<1>4. IsFiniteSet(1 .. n) /\ Cardinality(1 .. n) = n
  BY <1>1, FS_Interval
<1>5. s \in Surjection(1 .. n, S)
  BY <1>3, <1>4, FS_Injection
<1> HIDE DEF n
<1>6. s \in Seq(S) /\ DOMAIN s = 1 .. n
  BY <1>1, <1>2
<1> QED
  BY <1>2, <1>5, <1>6 DEF n, Surjection

\* The votes of the first transactions are finitely many.
LEMMA FiniteVotes ==
    IsFiniteSet(UNION {VotesIn(t) : t \in 1 .. Uncoded})
<1>1. Uncoded \in Nat /\ 1 .. Uncoded \subseteq DOMAIN VoteTxs
  BY VotesAssumption
<1>2. ASSUME NEW t \in 1 .. Uncoded
      PROVE  IsFiniteSet(VotesIn(t))
  <2>1. VoteTxs[t] \in [code : Nat, votes : Seq(Keys)]
    BY <1>1, VotesAssumption, ElementsLemma
  <2>2. VoteTxs[t].votes \in Seq(Keys)
    BY <2>1
  <2>3. DOMAIN VoteTxs[t].votes = 1 .. Len(VoteTxs[t].votes) /\ Len(VoteTxs[t].votes) \in Nat
    BY <2>2, ElementsLemma
  <2>4. IsFiniteSet(DOMAIN VoteTxs[t].votes)
    BY <2>3, FS_Interval
  <2>5. [i \in DOMAIN VoteTxs[t].votes |-> <<t, i>>] \in Surjection(DOMAIN VoteTxs[t].votes, VotesIn(t))
    BY DEF Surjection, VotesIn
  <2> QED
    BY <2>4, <2>5, FS_Surjection
<1>3. IsFiniteSet({VotesIn(t) : t \in 1 .. Uncoded})
  <2>1. IsFiniteSet(1 .. Uncoded)
    BY <1>1, FS_Interval
  <2>2. [t \in 1 .. Uncoded |-> VotesIn(t)] \in Surjection(1 .. Uncoded, {VotesIn(t) : t \in 1 .. Uncoded})
    BY DEF Surjection
  <2> QED
    BY <2>1, <2>2, FS_Surjection
<1> QED
  BY <1>2, <1>3, FS_UNION

\* The votes that are there at first are the last ones.
LEMMA InitVotes == VotesInit => VotesInv /\ ScanInv
<1> SUFFICES ASSUME VotesInit PROVE VotesInv /\ ScanInv
  OBVIOUS
<1> DEFINE cast == UNION {VotesIn(t) : t \in 1 .. Uncoded}
           last == LastVotes(cast)
<1>1. Uncoded \in Nat /\ 1 .. Uncoded \subseteq DOMAIN VoteTxs
  BY VotesAssumption
<1>2. PICK old \in SetToSeqs(last) : voteRecords = [i \in DOMAIN old |-> [vote |-> old[i], code |-> NoCode]]
  BY DEF VotesInit
<1>3. handledTxs = 1 .. Uncoded /\ calls = {} /\ recoding = {} /\ lastScanned = 0
  BY DEF VotesInit
<1>4. IsFiniteSet(last) /\ last \subseteq cast /\ cast \subseteq AllVotes
  <2>1. last \subseteq cast /\ cast \subseteq AllVotes
    BY <1>1, CastLemma DEF LastVotes
  <2> QED
    BY <2>1, FiniteVotes, FS_Subset
<1>5. \A v \in cast : \E w \in last : KeyOf(w) = KeyOf(v) /\ ~Later(v, w)
  BY <1>4, LastVotesLemma
<1>6. \A v, w \in last : KeyOf(v) = KeyOf(w) => v = w
  <2> SUFFICES ASSUME NEW v \in last, NEW w \in last, KeyOf(v) = KeyOf(w)
               PROVE  v = w
    OBVIOUS
  <2>1. ~Later(v, w) /\ ~Later(w, v)
    BY <1>4 DEF LastVotes
  <2>2. v[1] \in Nat /\ v[2] \in Nat /\ w[1] \in Nat /\ w[2] \in Nat /\ v = <<v[1], v[2]>> /\ w = <<w[1], w[2]>>
    BY <1>4, VoteLemma
  <2>3. v[1] = w[1] /\ v[2] = w[2]
    BY <2>1, <2>2 DEF Later
  <2> QED
    BY <2>2, <2>3
<1> HIDE DEF last
<1>7. /\ old \in Seq(last) /\ DOMAIN old = 1 .. Cardinality(last) /\ Cardinality(last) \in Nat
      /\ \A x \in last : \E i \in DOMAIN old : old[i] = x
      /\ \A i, j \in DOMAIN old : old[i] = old[j] => i = j
  BY <1>4, OrdersLemma, FS_CardinalityType
<1>8. \A i \in DOMAIN old : old[i] \in last
  BY <1>7, ElementsLemma
<1>9. /\ DOMAIN voteRecords = DOMAIN old
      /\ \A i \in DOMAIN old : voteRecords[i].vote = old[i] /\ voteRecords[i].code = NoCode
  BY <1>2
<1>10. VoteTypes
  <2> DEFINE D == [vote : AllVotes, code : Int]
  <2>1. \A i \in DOMAIN old : [vote |-> old[i], code |-> NoCode] \in D
    BY <1>4, <1>8 DEF NoCode
  <2> HIDE DEF D
  <2>2. voteRecords \in [1 .. Cardinality(last) -> D]
    BY <1>2, <1>7, <2>1
  <2>3. voteRecords \in Seq(D)
    BY <1>7, <2>2
  <2> QED
    BY <1>1, <1>3, <2>3 DEF VoteTypes, D
<1>11. RecordsAlone
  BY <1>6, <1>7, <1>8, <1>9 DEF RecordsAlone
<1>12. VotesAreKept
  <2> SUFFICES ASSUME NEW v \in CastIn(handledTxs)
               PROVE  \E i \in DOMAIN voteRecords :
                         KeyOf(voteRecords[i].vote) = KeyOf(v) /\ ~Later(v, voteRecords[i].vote)
    BY DEF VotesAreKept
  <2>1. v \in cast
    BY <1>3 DEF CastIn
  <2>2. PICK w \in last : KeyOf(w) = KeyOf(v) /\ ~Later(v, w)
    BY <1>5, <2>1
  <2>3. PICK i \in DOMAIN old : old[i] = w
    BY <1>7
  <2> QED
    BY <1>9, <2>2, <2>3
<1>13. CodeIsOfItsTx
  BY <1>9 DEF CodeIsOfItsTx
<1> QED
  BY <1>3, <1>10, <1>11, <1>12, <1>13
  DEF VotesInv, ScanInv, FoundIsTheirs, CallsAlone, CallsInOrder, RecodingIsRead

\* What leaves the calls, the records and the codes alone leaves everything as it was.
LEMMA SameVotes ==
    ASSUME VotesInv, UNCHANGED <<handledTxs, calls, voteRecords, recoding, lostVotes, disturbed>>
    PROVE  VotesInv'
BY DEF VotesInv, VoteTypes, FoundIsTheirs, CallsAlone, RecordsAlone, CallsInOrder, VotesAreKept, RecodingIsRead,
       CodeIsOfItsTx

\* New calls disturb what is under way, what is later, and each other.
LEMMA TakeStep ==
    ASSUME VotesInv, NEW ts \in SUBSET (DOMAIN VoteTxs), NEW scan \in BOOLEAN, Take(ts, scan),
           UNCHANGED <<voteRecords, recoding, lostVotes>>,
           handledTxs \subseteq handledTxs', handledTxs' \subseteq handledTxs \union ts
    PROVE  VotesInv'
<1> DEFINE cast == UNION {VotesIn(t) : t \in {s \in ts : VoteTxs[s].code = 0}}
           CallOf(v) == [vote |-> v, scan |-> scan, found |-> -1]
<1>1. /\ calls' = calls \union {CallOf(v) : v \in cast}
      /\ disturbed \subseteq disturbed'
      /\ \A v \in cast : Disturbs(v) \/ (\E w \in cast \ {v} : KeyOf(w) = KeyOf(v)) => KeyOf(v) \in disturbed'
  BY DEF Take
<1>2. \A v : v \in cast <=> v \in AllVotes /\ v[1] \in ts /\ VoteTxs[v[1]].code = 0
  <2> DEFINE ok == {s \in ts : VoteTxs[s].code = 0}
  <2>1. ok \subseteq DOMAIN VoteTxs /\ cast = UNION {VotesIn(t) : t \in ok}
    OBVIOUS
  <2> HIDE DEF cast, ok
  <2>2. \A v : v \in cast <=> v \in AllVotes /\ v[1] \in ok
    BY <2>1, CastLemma
  <2> QED
    BY <2>2 DEF ok
<1> HIDE DEF cast
<1>3. VoteTypes'
  <2>1. handledTxs' \subseteq DOMAIN VoteTxs /\ 1 .. Uncoded \subseteq handledTxs'
    BY DEF VotesInv, VoteTypes
  <2>2. \A v \in cast : CallOf(v) \in [vote : AllVotes, scan : BOOLEAN, found : Int] /\ CallOf(v).vote = v
    BY <1>2
  <2> HIDE DEF CallOf
  <2>3. calls' \subseteq [vote : AllVotes, scan : BOOLEAN, found : Int]
    BY <1>1, <2>2 DEF VotesInv, VoteTypes
  <2>4. \A c \in calls' : VoteTxs[c.vote[1]].code = 0
    BY <1>1, <1>2, <2>2 DEF VotesInv, VoteTypes
  <2> QED
    BY <2>1, <2>3, <2>4 DEF VotesInv, VoteTypes
<1>4. \A v \in cast : CallOf(v).vote = v /\ CallOf(v).found = -1
  OBVIOUS
<1> HIDE DEF CallOf
<1>5. FoundIsTheirs'
  BY <1>1, <1>4 DEF VotesInv, FoundIsTheirs
<1>6. CallsAlone'
  <2> SUFFICES ASSUME NEW c \in calls', NEW d \in calls', KeyOf(c.vote) = KeyOf(d.vote), c # d
               PROVE  KeyOf(c.vote) \in disturbed'
    BY DEF CallsAlone
  <2>1. ASSUME NEW v \in cast, NEW e \in calls, KeyOf(e.vote) = KeyOf(v)
        PROVE  KeyOf(v) \in disturbed'
    BY <1>1, <2>1 DEF Disturbs
  <2>2. CASE c \in calls /\ d \in calls
    BY <1>1, <2>2 DEF VotesInv, CallsAlone
  <2>3. ASSUME NEW v \in cast, NEW w \in cast, c = CallOf(v), d = CallOf(w)
        PROVE  KeyOf(c.vote) \in disturbed'
    BY <1>1, <1>4, <2>3
  <2> QED
    BY <1>1, <1>4, <2>1, <2>2, <2>3
<1>7. RecordsAlone'
  BY <1>1 DEF VotesInv, RecordsAlone
<1>8. CallsInOrder'
  <2> SUFFICES ASSUME NEW c \in calls', NEW i \in DOMAIN voteRecords,
                      KeyOf(voteRecords[i].vote) = KeyOf(c.vote), KeyOf(c.vote) \notin disturbed'
               PROVE  c.found \in {-1, i} /\ ~Later(voteRecords[i].vote, c.vote)
    BY DEF CallsInOrder
  <2>1. CASE c \in calls
    BY <1>1, <2>1 DEF VotesInv, CallsInOrder
  <2>2. ASSUME NEW v \in cast, c = CallOf(v)
        PROVE  c.found \in {-1, i} /\ ~Later(voteRecords[i].vote, c.vote)
    <3>1. ~Disturbs(v)
      BY <1>1, <1>4, <2>2
    <3> QED
      BY <1>4, <2>2, <3>1 DEF Disturbs
  <2> QED
    BY <1>1, <2>1, <2>2
<1>9. VotesAreKept'
  <2> SUFFICES ASSUME NEW v \in CastIn(handledTxs')
               PROVE  \/ v \in lostVotes
                      \/ \E c \in calls' : c.vote = v
                      \/ \E i \in DOMAIN voteRecords :
                            /\ KeyOf(voteRecords[i].vote) = KeyOf(v)
                            /\ KeyOf(v) \in disturbed' \/ ~Later(v, voteRecords[i].vote)
    BY DEF VotesAreKept
  <2>1. CASE v \in CastIn(handledTxs)
    BY <1>1, <2>1 DEF VotesInv, VotesAreKept
  <2>2. CASE v \notin CastIn(handledTxs)
    <3>1. v \in AllVotes /\ v[1] \in handledTxs' /\ (VoteTxs[v[1]].code = 0 \/ v[1] <= Uncoded)
      BY <1>3, CastLemma DEF CastIn, VoteTypes
    <3>2. v[1] \notin handledTxs
      BY <2>2, <3>1, CastLemma DEF CastIn, VotesInv, VoteTypes
    <3>3. VoteTxs[v[1]].code = 0
      <4>1. v[1] \in 1 .. Len(VoteTxs) /\ v[1] \notin 1 .. Uncoded /\ Uncoded \in Nat
        BY <3>1, <3>2, VoteLemma, VotesAssumption DEF VotesInv, VoteTypes
      <4>2. ~(v[1] <= Uncoded)
        BY <4>1
      <4> QED
        BY <3>1, <4>2
    <3>4. v \in cast
      BY <1>2, <3>1, <3>2, <3>3
    <3> QED
      BY <1>1, <1>4, <3>4
  <2> QED
    BY <2>1, <2>2
<1>10. RecodingIsRead' /\ CodeIsOfItsTx'
  BY <1>1 DEF VotesInv, RecodingIsRead, CodeIsOfItsTx
<1> QED
  BY <1>3, <1>5, <1>6, <1>7, <1>8, <1>9, <1>10 DEF VotesInv

\* The least number of a set, if there is any.
LEMMA Min0Lemma ==
    ASSUME NEW S, S \subseteq Nat, 0 \notin S
    PROVE  (Min0(S) = 0 /\ S = {}) \/ (Min0(S) \in S /\ Min0(S) # 0)
<1>1. CASE S = {}
  BY <1>1 DEF Min0
<1>2. CASE S # {}
  <2>1. \E x \in S : \A y \in S : x <= y
    BY <1>2, MinLemma
  <2>2. Min0(S) \in S
    BY <1>2, <2>1 DEF Min0
  <2> QED
    BY <2>2
<1> QED
  BY <1>1, <1>2

\* A call finds the record of its voter, if there is one.
LEMMA FindStep ==
    ASSUME VotesInv, NEW c \in calls, FindVote(c)
    PROVE  VotesInv'
<1> DEFINE theirs == {i \in DOMAIN voteRecords : KeyOf(voteRecords[i].vote) = KeyOf(c.vote)}
           m   == Min0(theirs)
           new == [c EXCEPT !.found = m]
<1>1. /\ calls' = (calls \ {c}) \union {new}
      /\ UNCHANGED <<handledTxs, voteRecords, recoding, lostVotes, disturbed>>
  BY DEF FindVote
<1>2. (m = 0 /\ theirs = {}) \/ m \in theirs
  <2>1. theirs \subseteq Nat /\ 0 \notin theirs
    <3>1. DOMAIN voteRecords = 1 .. Len(voteRecords) /\ Len(voteRecords) \in Nat
      BY ElementsLemma DEF VotesInv, VoteTypes
    <3> QED
      BY <3>1
  <2> HIDE DEF theirs
  <2> QED
    BY <2>1, Min0Lemma
<1>3. m \in Int
  BY <1>2, ElementsLemma DEF VotesInv, VoteTypes
<1> HIDE DEF m
<1>4. /\ new \in [vote : AllVotes, scan : BOOLEAN, found : Int]
      /\ new.vote = c.vote /\ new.found = m
  <2>1. c \in [vote : AllVotes, scan : BOOLEAN, found : Int]
    BY DEF VotesInv, VoteTypes
  <2> QED
    BY <1>3, <2>1
<1> HIDE DEF new
<1>5. VoteTypes'
  BY <1>1, <1>4 DEF VotesInv, VoteTypes
<1>6. FoundIsTheirs'
  BY <1>1, <1>2, <1>4 DEF VotesInv, FoundIsTheirs
<1>7. CallsAlone'
  BY <1>1, <1>4 DEF VotesInv, CallsAlone
<1>8. CallsInOrder'
  <2> SUFFICES ASSUME NEW d \in calls', NEW i \in DOMAIN voteRecords,
                      KeyOf(voteRecords[i].vote) = KeyOf(d.vote), KeyOf(d.vote) \notin disturbed
               PROVE  d.found \in {-1, i} /\ ~Later(voteRecords[i].vote, d.vote)
    BY <1>1 DEF CallsInOrder
  <2>1. CASE d \in calls
    BY <2>1 DEF VotesInv, CallsInOrder
  <2>2. CASE d = new
    <3>1. i \in theirs /\ ~Later(voteRecords[i].vote, c.vote)
      BY <1>4, <2>2 DEF VotesInv, CallsInOrder
    <3>2. m = i
      BY <1>2, <1>4, <2>2, <3>1 DEF VotesInv, RecordsAlone
    <3> QED
      BY <1>4, <2>2, <3>1, <3>2
  <2> QED
    BY <1>1, <2>1, <2>2
<1>9. VotesAreKept'
  BY <1>1, <1>4 DEF VotesInv, VotesAreKept
<1>10. RecordsAlone' /\ RecodingIsRead' /\ CodeIsOfItsTx'
  BY <1>1 DEF VotesInv, RecordsAlone, RecodingIsRead, CodeIsOfItsTx
<1> QED
  BY <1>5, <1>6, <1>7, <1>8, <1>9, <1>10 DEF VotesInv

\* A new record is that of a voter who had none, or whose calls overlapped.
LEMMA AppendStep ==
    ASSUME VotesInv, NEW c \in calls, WriteVote(c), c.found = 0
    PROVE  VotesInv'
<1> DEFINE new == [vote |-> c.vote, code |-> 0]
           D   == [vote : AllVotes, code : Int]
           n   == Len(voteRecords) + 1
<1>1. /\ calls' = calls \ {c} /\ voteRecords' = Append(voteRecords, new) /\ disturbed \subseteq disturbed'
      /\ UNCHANGED <<handledTxs, recoding, lostVotes>>
  BY DEF WriteVote
<1>2. c.vote \in AllVotes /\ VoteTxs[c.vote[1]].code = 0 /\ new \in D /\ voteRecords \in Seq(D)
  BY DEF VotesInv, VoteTypes
<1>3. new.vote = c.vote /\ new.code = 0
  OBVIOUS
<1> HIDE DEF new, D
<1>4. DOMAIN voteRecords = 1 .. Len(voteRecords) /\ Len(voteRecords) \in Nat
  BY <1>2, ElementsLemma
<1>5. /\ voteRecords' \in Seq(D) /\ voteRecords'[n] = new
      /\ DOMAIN voteRecords' = DOMAIN voteRecords \union {n} /\ n \notin DOMAIN voteRecords
      /\ \A i \in DOMAIN voteRecords : voteRecords'[i] = voteRecords[i] /\ i # 0
  <2>1. voteRecords' \in Seq(D) /\ Len(voteRecords') = n /\ voteRecords'[n] = new
    BY <1>1, <1>2
  <2>2. \A i \in 1 .. Len(voteRecords) : voteRecords'[i] = voteRecords[i]
    BY <1>1, <1>2
  <2>3. DOMAIN voteRecords' = 1 .. n
    BY <2>1
  <2> QED
    BY <1>4, <2>1, <2>2, <2>3
<1> HIDE DEF n
<1>6. \A i \in DOMAIN voteRecords : KeyOf(voteRecords[i].vote) = KeyOf(c.vote) => KeyOf(c.vote) \in disturbed
  BY <1>5 DEF VotesInv, CallsInOrder
<1>7. \A d \in calls' : d \in calls /\ (KeyOf(d.vote) = KeyOf(c.vote) => KeyOf(c.vote) \in disturbed)
  BY <1>1 DEF VotesInv, CallsAlone
<1>8. VoteTypes'
  BY <1>1, <1>5 DEF VotesInv, VoteTypes, D
<1>9. FoundIsTheirs'
  BY <1>5, <1>7 DEF VotesInv, FoundIsTheirs
<1>10. CallsAlone'
  BY <1>1, <1>7 DEF VotesInv, CallsAlone
<1>11. RecordsAlone'
  BY <1>1, <1>3, <1>5, <1>6 DEF VotesInv, RecordsAlone
<1>12. CallsInOrder'
  BY <1>1, <1>3, <1>5, <1>7 DEF VotesInv, CallsInOrder
<1>13. VotesAreKept'
  <2> SUFFICES ASSUME NEW v \in CastIn(handledTxs)
               PROVE  \/ v \in lostVotes
                      \/ \E d \in calls' : d.vote = v
                      \/ \E i \in DOMAIN voteRecords' :
                            /\ KeyOf(voteRecords'[i].vote) = KeyOf(v)
                            /\ KeyOf(v) \in disturbed' \/ ~Later(v, voteRecords'[i].vote)
    BY <1>1 DEF VotesAreKept
  <2>1. CASE v = c.vote
    BY <1>2, <1>3, <1>5, <2>1, LaterLemma
  <2>2. CASE v # c.vote
    BY <1>1, <1>5, <2>2 DEF VotesInv, VotesAreKept
  <2> QED
    BY <2>1, <2>2
<1>14. RecodingIsRead'
  BY <1>1, <1>5 DEF VotesInv, RecodingIsRead
<1>15. CodeIsOfItsTx'
  BY <1>1, <1>2, <1>3, <1>5 DEF VotesInv, CodeIsOfItsTx
<1> QED
  BY <1>8, <1>9, <1>10, <1>11, <1>12, <1>13, <1>14, <1>15 DEF VotesInv

\* A record that is updated is of the voter, and gets a later vote unless calls overlapped.
LEMMA UpdateStep ==
    ASSUME VotesInv, NEW c \in calls, WriteVote(c), c.found # 0
    PROVE  VotesInv'
<1> DEFINE new == [vote |-> c.vote, code |-> 0]
           D   == [vote : AllVotes, code : Int]
           m   == c.found
<1>1. /\ calls' = calls \ {c} /\ voteRecords' = [voteRecords EXCEPT ![m] = new]
      /\ disturbed \subseteq disturbed'
      /\ (\E r \in recoding : r[1] = m) => KeyOf(c.vote) \in disturbed'
      /\ UNCHANGED <<handledTxs, recoding, lostVotes>>
  BY DEF WriteVote
<1>2. c.vote \in AllVotes /\ VoteTxs[c.vote[1]].code = 0 /\ new \in D /\ voteRecords \in Seq(D)
  BY DEF VotesInv, VoteTypes
<1>3. new.vote = c.vote /\ new.code = 0
  OBVIOUS
<1>4. m \in DOMAIN voteRecords /\ KeyOf(voteRecords[m].vote) = KeyOf(c.vote)
  BY DEF WriteVote, VotesInv, FoundIsTheirs
<1> HIDE DEF new, D, m
<1>5. /\ voteRecords' \in Seq(D) /\ DOMAIN voteRecords' = DOMAIN voteRecords /\ voteRecords'[m] = new
      /\ \A i \in DOMAIN voteRecords : i # m => voteRecords'[i] = voteRecords[i]
  <2>1. /\ DOMAIN voteRecords' = DOMAIN voteRecords /\ voteRecords'[m] = new
        /\ \A i \in DOMAIN voteRecords : i # m => voteRecords'[i] = voteRecords[i]
    BY <1>1, <1>4
  <2>2. voteRecords' \in Seq(D)
    BY <1>1, <1>2, <1>4
  <2> QED
    BY <2>1, <2>2
<1>6. \A i \in DOMAIN voteRecords : KeyOf(voteRecords'[i].vote) = KeyOf(voteRecords[i].vote)
  BY <1>3, <1>4, <1>5
<1>7. \A d \in calls' : d \in calls /\ (KeyOf(d.vote) = KeyOf(c.vote) => KeyOf(c.vote) \in disturbed)
  BY <1>1 DEF VotesInv, CallsAlone
<1>8. KeyOf(c.vote) \in disturbed \/ ~Later(voteRecords[m].vote, c.vote)
  BY <1>4 DEF VotesInv, CallsInOrder
<1>9. VoteTypes'
  BY <1>1, <1>5 DEF VotesInv, VoteTypes, D
<1>10. FoundIsTheirs'
  BY <1>5, <1>6, <1>7 DEF VotesInv, FoundIsTheirs
<1>11. CallsAlone'
  BY <1>1, <1>7 DEF VotesInv, CallsAlone
<1>12. RecordsAlone'
  BY <1>1, <1>5, <1>6 DEF VotesInv, RecordsAlone
<1>13. CallsInOrder'
  BY <1>1, <1>3, <1>5, <1>6, <1>7 DEF VotesInv, CallsInOrder
<1>14. VotesAreKept'
  <2> SUFFICES ASSUME NEW v \in CastIn(handledTxs)
               PROVE  \/ v \in lostVotes
                      \/ \E d \in calls' : d.vote = v
                      \/ \E i \in DOMAIN voteRecords' :
                            /\ KeyOf(voteRecords'[i].vote) = KeyOf(v)
                            /\ KeyOf(v) \in disturbed' \/ ~Later(v, voteRecords'[i].vote)
    BY <1>1 DEF VotesAreKept
  <2>1. CASE v = c.vote
    BY <1>2, <1>3, <1>4, <1>5, <2>1, LaterLemma
  <2>2. ASSUME NEW d \in calls, d.vote = v, v # c.vote
        PROVE  \E e \in calls' : e.vote = v
    BY <1>1, <2>2
  <2>3. ASSUME NEW i \in DOMAIN voteRecords, KeyOf(voteRecords[i].vote) = KeyOf(v),
               KeyOf(v) \in disturbed \/ ~Later(v, voteRecords[i].vote)
        PROVE  \E j \in DOMAIN voteRecords' :
                  /\ KeyOf(voteRecords'[j].vote) = KeyOf(v)
                  /\ KeyOf(v) \in disturbed' \/ ~Later(v, voteRecords'[j].vote)
    <3>1. CASE i # m
      BY <1>1, <1>5, <2>3, <3>1
    <3>2. CASE i = m
      <4>1. v \in AllVotes /\ voteRecords[i].vote \in AllVotes
        <5>1. v \in AllVotes
          BY CastLemma DEF CastIn, VotesInv, VoteTypes
        <5>2. voteRecords[i] \in D
          BY <1>2, ElementsLemma
        <5> QED
          BY <5>1, <5>2 DEF D
      <4>2. KeyOf(v) = KeyOf(c.vote) /\ voteRecords'[i].vote = c.vote
        BY <1>3, <1>4, <1>5, <2>3, <3>2
      <4>3. KeyOf(v) \in disturbed \/ ~Later(v, c.vote)
        BY <1>2, <1>8, <2>3, <3>2, <4>1, <4>2, LaterLemma
      <4> QED
        BY <1>1, <1>5, <4>2, <4>3
    <3> QED
      BY <3>1, <3>2
  <2> QED
    BY <1>1, <2>1, <2>2, <2>3 DEF VotesInv, VotesAreKept
<1>15. RecodingIsRead'
  BY <1>1, <1>3, <1>5, <1>6 DEF VotesInv, RecodingIsRead
<1>16. CodeIsOfItsTx'
  BY <1>1, <1>2, <1>3, <1>5 DEF VotesInv, CodeIsOfItsTx
<1> QED
  BY <1>9, <1>10, <1>11, <1>12, <1>13, <1>14, <1>15, <1>16 DEF VotesInv

\* The calls that die are those of votes that are lost.
LEMMA DieStep ==
    ASSUME VotesInv, ManagerDies
    PROVE  VotesInv'
<1>1. /\ calls' = {} /\ lostVotes' = lostVotes \union {c.vote : c \in calls}
      /\ UNCHANGED <<handledTxs, voteRecords, recoding, disturbed>>
  BY DEF ManagerDies
<1>2. VoteTypes' /\ FoundIsTheirs' /\ CallsAlone' /\ CallsInOrder'
  BY <1>1 DEF VotesInv, VoteTypes, FoundIsTheirs, CallsAlone, CallsInOrder
<1>3. RecordsAlone' /\ RecodingIsRead' /\ CodeIsOfItsTx'
  BY <1>1 DEF VotesInv, RecordsAlone, RecodingIsRead, CodeIsOfItsTx
<1>4. VotesAreKept'
  BY <1>1 DEF VotesInv, VotesAreKept
<1> QED
  BY <1>2, <1>3, <1>4 DEF VotesInv

\* The job that adds codes reads each record once.
LEMMA ReadUncodedStep ==
    ASSUME VotesInv, ReadUncoded
    PROVE  VotesInv'
<1> DEFINE bare == {j \in DOMAIN voteRecords : voteRecords[j].code = NoCode}
<1>1. /\ recoding' = {<<i, voteRecords[i].vote>> : i \in bare}
      /\ UNCHANGED <<handledTxs, calls, voteRecords, lostVotes, disturbed>>
  BY DEF ReadUncoded
<1>2. bare \subseteq DOMAIN voteRecords
  OBVIOUS
<1>3. \A i \in DOMAIN voteRecords : VoteTxs[voteRecords[i].vote[1]].code \in Int
  <2> SUFFICES ASSUME NEW i \in DOMAIN voteRecords
               PROVE  VoteTxs[voteRecords[i].vote[1]].code \in Int
    OBVIOUS
  <2>1. voteRecords[i] \in [vote : AllVotes, code : Int]
    BY ElementsLemma DEF VotesInv, VoteTypes
  <2>2. voteRecords[i].vote \in AllVotes
    BY <2>1
  <2>3. VoteTxs[voteRecords[i].vote[1]].code \in Nat
    BY <2>2, VoteLemma
  <2> QED
    BY <2>3
<1> HIDE DEF bare
<1>4. RecodingIsRead'
  BY <1>1, <1>2, <1>3 DEF RecodingIsRead
<1>5. VoteTypes' /\ FoundIsTheirs' /\ CallsAlone' /\ CallsInOrder'
  BY <1>1 DEF VotesInv, VoteTypes, FoundIsTheirs, CallsAlone, CallsInOrder
<1>6. RecordsAlone' /\ CodeIsOfItsTx' /\ VotesAreKept'
  BY <1>1 DEF VotesInv, RecordsAlone, CodeIsOfItsTx, VotesAreKept
<1> QED
  BY <1>4, <1>5, <1>6 DEF VotesInv

\* It writes the code of the vote it read, and leaves the votes alone.
LEMMA WriteCodesStep ==
    ASSUME VotesInv, WriteCodes
    PROVE  VotesInv'
<1> DEFINE D == [vote : AllVotes, code : Int]
           ReadAt(i) == \E r \in recoding : r[1] = i
           CodeAt(i) == VoteTxs[(CHOOSE r \in recoding : r[1] = i)[2][1]].code
<1>1. /\ recoding' = {}
      /\ voteRecords' = [i \in DOMAIN voteRecords |->
                            IF ReadAt(i) THEN [voteRecords[i] EXCEPT !.code = CodeAt(i)] ELSE voteRecords[i]]
      /\ UNCHANGED <<handledTxs, calls, lostVotes, disturbed>>
  BY DEF WriteCodes
<1>2. voteRecords \in Seq(D)
  BY DEF VotesInv, VoteTypes
<1>3. \A i \in DOMAIN voteRecords : voteRecords[i] \in D
  BY <1>2, ElementsLemma
<1>4. ASSUME NEW i \in DOMAIN voteRecords, ReadAt(i)
      PROVE  /\ CodeAt(i) \in Int
             /\ \/ CodeAt(i) = VoteTxs[voteRecords[i].vote[1]].code
                \/ KeyOf(voteRecords[i].vote) \in disturbed
  <2> DEFINE r == CHOOSE r \in recoding : r[1] = i
  <2>1. r \in recoding /\ r[1] = i
    BY <1>4
  <2> HIDE DEF r
  <2>2. /\ VoteTxs[r[2][1]].code \in Int
        /\ r[2] = voteRecords[i].vote \/ KeyOf(voteRecords[i].vote) \in disturbed
    BY <2>1 DEF VotesInv, RecodingIsRead
  <2> QED
    BY <2>2 DEF r
<1> HIDE DEF ReadAt, CodeAt
<1>5. DOMAIN voteRecords' = DOMAIN voteRecords
  BY <1>1
<1>6. \A i \in DOMAIN voteRecords :
         /\ voteRecords'[i] \in D /\ voteRecords'[i].vote = voteRecords[i].vote
         /\ voteRecords'[i].code = IF ReadAt(i) THEN CodeAt(i) ELSE voteRecords[i].code
  <2> SUFFICES ASSUME NEW i \in DOMAIN voteRecords
               PROVE  /\ voteRecords'[i] \in D /\ voteRecords'[i].vote = voteRecords[i].vote
                      /\ voteRecords'[i].code = IF ReadAt(i) THEN CodeAt(i) ELSE voteRecords[i].code
    OBVIOUS
  <2>1. CASE ReadAt(i)
    <3>1. voteRecords'[i] = [voteRecords[i] EXCEPT !.code = CodeAt(i)]
      BY <1>1, <2>1
    <3> QED
      BY <1>3, <1>4, <2>1, <3>1
  <2>2. CASE ~ReadAt(i)
    BY <1>1, <1>3, <2>2
  <2> QED
    BY <2>1, <2>2
<1> HIDE DEF D
<1>7. voteRecords' \in Seq(D)
  <2>1. DOMAIN voteRecords = 1 .. Len(voteRecords) /\ Len(voteRecords) \in Nat
    BY <1>2, ElementsLemma
  <2>2. voteRecords' \in [1 .. Len(voteRecords) -> D]
    BY <1>1, <1>6, <2>1
  <2> QED
    BY <2>1, <2>2
<1>8. VoteTypes'
  BY <1>1, <1>7 DEF VotesInv, VoteTypes, D
<1>9. FoundIsTheirs' /\ CallsAlone' /\ CallsInOrder'
  BY <1>1, <1>5, <1>6 DEF VotesInv, FoundIsTheirs, CallsAlone, CallsInOrder
<1>10. RecordsAlone'
  BY <1>1, <1>5, <1>6 DEF VotesInv, RecordsAlone
<1>11. VotesAreKept'
  BY <1>1, <1>5, <1>6 DEF VotesInv, VotesAreKept
<1>12. CodeIsOfItsTx'
  BY <1>1, <1>4, <1>5, <1>6 DEF VotesInv, CodeIsOfItsTx
<1>13. RecodingIsRead'
  BY <1>1 DEF RecodingIsRead
<1> QED
  BY <1>8, <1>9, <1>10, <1>11, <1>12, <1>13 DEF VotesInv

\* A scan takes the votes of transactions that were handled.
LEMMA ScanStep ==
    ASSUME VotesInv, ScanInv, ScanVotes
    PROVE  VotesInv' /\ ScanInv'
<1> DEFINE found == {t \in handledTxs : t > Head(scanQueue)}
           batch == {t \in found : Cardinality({s \in found : s < t}) < ScanLimit}
           last  == CHOOSE t \in batch : \A s \in batch : s <= t
<1>1. UNCHANGED <<handledTxs, voteRecords, recoding, lostVotes>>
  BY DEF ScanVotes
<1>2. CASE batch = {}
  <2>1. UNCHANGED <<lastScanned, calls, disturbed>>
    BY <1>2 DEF ScanVotes
  <2> QED
    BY <1>1, <2>1, SameVotes DEF ScanInv
<1>3. CASE batch # {}
  <2>1. lastScanned' = last /\ Take(batch, TRUE)
    BY <1>3 DEF ScanVotes
  <2>2. batch \subseteq handledTxs /\ handledTxs \subseteq DOMAIN VoteTxs
    BY DEF VotesInv, VoteTypes
  <2>3. Len(VoteTxs) \in Nat /\ DOMAIN VoteTxs = 1 .. Len(VoteTxs)
    BY VotesAssumption
  <2> HIDE DEF batch
  <2>4. batch \in SUBSET (1 .. Len(VoteTxs))
    BY <2>2, <2>3
  <2>5. last \in batch
    BY <1>3, <2>3, <2>4, GreatestLemma
  <2> HIDE DEF last
  <2>6. VotesInv'
    BY <1>1, <2>1, <2>2, TakeStep
  <2> QED
    BY <1>1, <2>1, <2>2, <2>5, <2>6 DEF ScanInv
<1> QED
  BY <1>2, <1>3

\* Every step keeps the invariant.
LEMMA NextVotes ==
    ASSUME VotesInv, ScanInv, [VotesNext]_voteVars
    PROVE  VotesInv' /\ ScanInv'
<1>1. ASSUME NEW t \in DOMAIN VoteTxs, HandleTx(t)
      PROVE  VotesInv' /\ ScanInv'
  <2>1. /\ handledTxs' = handledTxs \union {t} /\ Take({t}, FALSE)
        /\ UNCHANGED <<voteRecords, recoding, lostVotes, lastScanned>>
    BY <1>1 DEF HandleTx
  <2>2. VotesInv'
    BY <2>1, TakeStep
  <2> QED
    BY <2>1, <2>2 DEF ScanInv
<1>2. ASSUME NEW c \in calls, FindVote(c) \/ WriteVote(c)
      PROVE  VotesInv' /\ ScanInv'
  <2>1. UNCHANGED <<handledTxs, lastScanned>>
    BY <1>2 DEF FindVote, WriteVote
  <2>2. VotesInv'
    BY <1>2, FindStep, AppendStep, UpdateStep
  <2> QED
    BY <2>1, <2>2 DEF ScanInv
<1>3. ASSUME ManagerDies
      PROVE  VotesInv' /\ ScanInv'
  BY <1>3, DieStep DEF ManagerDies, ScanInv
<1>4. ASSUME StartScan
      PROVE  VotesInv' /\ ScanInv'
  BY <1>4, SameVotes DEF StartScan, ScanInv
<1>5. ASSUME ReadUncoded
      PROVE  VotesInv' /\ ScanInv'
  BY <1>5, ReadUncodedStep DEF ReadUncoded, ScanInv
<1>6. ASSUME WriteCodes
      PROVE  VotesInv' /\ ScanInv'
  BY <1>6, WriteCodesStep DEF WriteCodes, ScanInv
<1>7. ASSUME UNCHANGED voteVars
      PROVE  VotesInv' /\ ScanInv'
  BY <1>7, SameVotes DEF voteVars, ScanInv
<1> QED
  BY <1>1, <1>2, <1>3, <1>4, <1>5, <1>6, <1>7, ScanStep DEF VotesNext, ManagerNext

\* What the invariant says of a voter.
LEMMA VotesLemma ==
    ASSUME VotesInv, ScanInv
    PROVE  VotesTypeOK /\ LastVoteOnce /\ EveryVoterIsStored
<1>1. /\ DOMAIN voteRecords = 1 .. Len(voteRecords) /\ Len(voteRecords) \in Nat
      /\ \A i \in DOMAIN voteRecords : voteRecords[i].vote \in AllVotes
  <2>1. /\ DOMAIN voteRecords = 1 .. Len(voteRecords) /\ Len(voteRecords) \in Nat
        /\ \A i \in DOMAIN voteRecords : voteRecords[i] \in [vote : AllVotes, code : Int]
    BY ElementsLemma DEF VotesInv, VoteTypes
  <2> QED
    BY <2>1
<1>2. VotesTypeOK
  <2>1. \A c \in calls : c.found \in -1 .. Len(voteRecords)
    BY <1>1 DEF VotesInv, FoundIsTheirs
  <2>2. \A i \in DOMAIN voteRecords : voteRecords[i].vote \in VotesIn(voteRecords[i].vote[1])
    BY <1>1, VoteLemma
  <2> QED
    BY <2>1, <2>2 DEF VotesInv, VoteTypes, ScanInv, VotesTypeOK
<1>3. \A k : Cast(k) = {v \in CastIn(handledTxs) : KeyOf(v) = k}
  BY DEF Cast, CastIn
<1>4. ASSUME NEW k \in Keys, \A c \in calls : KeyOf(c.vote) # k, NEW v \in Cast(k) \ lostVotes
      PROVE  \E i \in RecordsOf(k) : k \in disturbed \/ ~Later(v, voteRecords[i].vote)
  BY <1>3, <1>4 DEF VotesInv, VotesAreKept, RecordsOf
<1>5. EveryVoterIsStored
  BY <1>4 DEF EveryVoterIsStored
<1>6. LastVoteOnce
  <2> SUFFICES ASSUME NEW k \in Keys \ disturbed
               PROVE  /\ Cardinality(RecordsOf(k)) <= 1
                      /\ /\ \A c \in calls : KeyOf(c.vote) # k
                         /\ Cast(k) \ lostVotes # {}
                         /\ Cast(k) \intersect lostVotes = {}
                         => \E i \in RecordsOf(k) : \A v \in Cast(k) : ~Later(v, voteRecords[i].vote)
    BY DEF LastVoteOnce
  <2>1. \A i, j \in RecordsOf(k) : i = j
    BY DEF VotesInv, RecordsAlone, RecordsOf
  <2>2. Cardinality(RecordsOf(k)) <= 1
    <3>1. CASE RecordsOf(k) = {}
      BY <3>1, FS_EmptySet
    <3>2. ASSUME NEW i \in RecordsOf(k)
          PROVE  Cardinality(RecordsOf(k)) <= 1
      <4>1. RecordsOf(k) = {i}
        BY <2>1
      <4> QED
        BY <4>1, FS_Singleton
    <3> QED
      BY <3>1, <3>2
  <2>3. ASSUME \A c \in calls : KeyOf(c.vote) # k, Cast(k) \ lostVotes # {}, Cast(k) \intersect lostVotes = {}
        PROVE  \E i \in RecordsOf(k) : \A v \in Cast(k) : ~Later(v, voteRecords[i].vote)
    <3>1. \A v \in Cast(k) : \E i \in RecordsOf(k) : ~Later(v, voteRecords[i].vote)
      BY <1>4, <2>3
    <3>2. PICK i \in RecordsOf(k) : TRUE
      BY <2>3, <3>1
    <3> QED
      BY <2>1, <3>1, <3>2
  <2> QED
    BY <2>2, <2>3
<1> QED
  BY <1>2, <1>5, <1>6

\* With calls of the manager that nobody orders, a scan of old transactions, a job that adds codes
\* and one that deletes duplicates: a voter whose calls did not overlap has one vote, the last
\* one cast, with the code of its transaction; no vote is dropped silently, and the newest of a voter's
\* votes is never deleted.
THEOREM VotesGoRight == VotesSpec /\ RemoveSpec => VotesAreRight
<1>1. VotesInit /\ RemoveInit => VotesInv /\ ScanInv /\ RemoveInv
  BY InitVotes, InitRemove
<1>2. VotesInv /\ ScanInv /\ [VotesNext]_voteVars => VotesInv' /\ ScanInv'
  BY NextVotes
<1>3. RemoveInv /\ [RemoveNext]_removeVars => RemoveInv'
  BY NextRemove
<1>4. RemoveInv /\ [RemoveNext]_removeVars
      => [\A k \in Keys : \A v \in Newest(k) :
             v \in Range(votes)' \/ \E w \in Range(votes)' : w.key = k /\ w.id > v.id]_removeVars
  BY NextRemove
<1>5. VotesInv /\ ScanInv /\ RemoveInv
      => VotesTypeOK /\ RemoveTypeOK /\ LastVoteOnce /\ EveryVoterIsStored /\ CodeIsOfItsTx
  BY VotesLemma, RemoveTypes DEF VotesInv
<1> QED
  BY <1>1, <1>2, <1>3, <1>4, <1>5, PTL DEF VotesSpec, RemoveSpec, VotesAreRight, NewestIsKept

-----------------------------------------------------------------------------
(* The listeners of the websocket (Websocket).                                 *)

\* What the variables are; a hash that is anywhere was registered.
SocketTypes ==
    /\ registered \subseteq Hashes /\ owed \subseteq Hashes
    /\ running \in [SocketHandlers -> [step : {"idle", "find", "cast", "remove"}, txs : SUBSET Hashes]]
    /\ registrations \in [Hashes -> Nat] /\ casts \in [Hashes -> Nat] /\ socketFaults \in Nat
    /\ \A h \in SocketHandlers : running[h].step = "idle" => running[h].txs = {}
    /\ \A t \in registered \union owed : registrations[t] > 0
    /\ \A h \in SocketHandlers : \A t \in running[h].txs : registrations[t] > 0

\* A hash that is being removed is owed only to one who registered it again.
RemovedIsCast ==
    \A h \in SocketHandlers : \A t \in running[h].txs : running[h].step = "remove" /\ registrations[t] = 1 => t \notin owed

\* Two handlers that have a hash were noted.
OverlapIsKnown ==
    \A h, k \in SocketHandlers : \A t \in running[h].txs \intersect running[k].txs : h = k \/ t \in overlapped

\* A hash that may yet be broadcast was registered once more than it was broadcast.
ToBeCast(t) ==
    \/ \E h \in SocketHandlers : t \in running[h].txs /\ running[h].step # "remove"
    \/ t \in registered /\ \A h \in SocketHandlers : t \in running[h].txs => running[h].step # "remove"

CastsAreCounted ==
    socketFaults = 0 => \A t \in Hashes \ overlapped :
        /\ casts[t] <= registrations[t]
        /\ ToBeCast(t) => casts[t] < registrations[t]

\* What is broadcast as safe, or is to be, was announced.
SafeIsAnnounced == safeJobs \union safeCast \union safeFailed \subseteq announcedTxs

\* The inductive invariant of the service.
SocketInv ==
    /\ SocketTypes /\ SocketTypeOK
    /\ NotForgotten /\ RemovedIsCast
    /\ OverlapIsKnown /\ CastsAreCounted
    /\ SafeIsCast /\ SafeIsAnnounced

\* It holds at the start.
LEMMA InitSocket == SocketInit => SocketInv
<1> SUFFICES ASSUME SocketInit PROVE SocketInv
  OBVIOUS
<1>1. SocketTypes
  BY DEF SocketInit, SocketTypes, IdleHandler
<1>2. CastsAreCounted
  BY DEF SocketInit, CastsAreCounted, ToBeCast, IdleHandler
<1> QED
  BY <1>1, <1>2
  DEF SocketInit, SocketInv, SocketTypeOK, NotForgotten, RemovedIsCast, OverlapIsKnown, SafeIsCast, SafeIsAnnounced, IdleHandler

\* What the safe broadcasts do not touch.
LEMMA SafeStays ==
    ASSUME SocketInv, UNCHANGED safeVars
    PROVE  SafeIsCast' /\ SafeIsAnnounced'
BY DEF safeVars, SocketInv, SafeIsCast, SafeIsAnnounced

\* What the registered hashes do not touch.
LEMMA HandlersStay ==
    ASSUME SocketInv, UNCHANGED <<registered, running, owed, registrations, casts, overlapped>>, inDb \subseteq inDb',
           socketFaults' \in Nat, socketFaults' = socketFaults \/ socketFaults' # 0
    PROVE  SocketTypes' /\ SocketTypeOK' /\ NotForgotten' /\ RemovedIsCast' /\ OverlapIsKnown' /\ CastsAreCounted'
<1>1. SocketTypes' /\ SocketTypeOK'
  BY DEF SocketInv, SocketTypes, SocketTypeOK
<1>2. NotForgotten' /\ RemovedIsCast' /\ OverlapIsKnown'
  BY DEF SocketInv, NotForgotten, RemovedIsCast, OverlapIsKnown
<1>3. CastsAreCounted'
  BY DEF SocketInv, CastsAreCounted, ToBeCast
<1> QED
  BY <1>1, <1>2, <1>3

\* A hash is announced, which makes a job.
LEMMA AnnounceHashStep ==
    ASSUME SocketInv, NEW t \in Hashes, AnnounceHash(t)
    PROVE  SocketInv'
<1>1. /\ t \notin announcedTxs /\ announcedTxs' = announcedTxs \union {t} /\ safeJobs' = safeJobs \union {t}
      /\ UNCHANGED <<registered, inDb, running, safeCast, safeFailed, owed, registrations, casts, overlapped, socketFaults>>
  BY DEF AnnounceHash
<1>2. SafeIsAnnounced' /\ SafeIsCast'
  BY <1>1 DEF SocketInv, SafeIsAnnounced, SafeIsCast
<1>3. socketFaults' \in Nat
  BY <1>1 DEF SocketInv, SocketTypes
<1> QED
  BY <1>1, <1>2, <1>3, HandlersStay DEF SocketInv

\* A transaction is stored.
LEMMA StoreHashStep ==
    ASSUME SocketInv, NEW t \in Hashes, StoreHash(t)
    PROVE  SocketInv'
<1>1. inDb \subseteq inDb' /\ UNCHANGED <<registered, running, safeVars, owed, registrations, casts, overlapped, socketFaults>>
  BY DEF StoreHash
<1>2. socketFaults' \in Nat
  BY <1>1 DEF SocketInv, SocketTypes
<1> QED
  BY <1>1, <1>2, HandlersStay, SafeStays DEF SocketInv

\* A safe transaction is broadcast, unless that fails.
LEMMA HandleSafeTxStep ==
    ASSUME SocketInv, NEW t \in Hashes, HandleSafeTx(t)
    PROVE  SocketInv'
<1>1. /\ t \in safeJobs /\ safeJobs' = safeJobs \ {t}
      /\ UNCHANGED <<announcedTxs, registered, inDb, running, owed, registrations, casts, overlapped>>
      /\ IF t \in SafeTxs THEN safeCast' \union safeFailed' = safeCast \union safeFailed \union {t}
         ELSE safeCast' \union safeFailed' = safeCast \union safeFailed
      /\ socketFaults' = socketFaults \/ socketFaults' = socketFaults + 1
  BY DEF HandleSafeTx
<1>2. SafeIsAnnounced'
  BY <1>1 DEF SocketInv, SafeIsAnnounced
<1>3. SafeIsCast'
  BY <1>1 DEF SocketInv, SafeIsCast, SafeIsAnnounced
<1>4. socketFaults' \in Nat /\ (socketFaults' = socketFaults \/ socketFaults' # 0)
  BY <1>1 DEF SocketInv, SocketTypes
<1> QED
  BY <1>1, <1>2, <1>3, <1>4, HandlersStay DEF SocketInv

\* A call registers hashes; those that a handler has are then registered again.
LEMMA ClientRegisterStep ==
    ASSUME SocketInv, NEW ts \in SUBSET Hashes, ClientRegister(ts)
    PROVE  SocketInv'
<1>1. /\ registered' = registered \union ts /\ owed' = owed \union ts
      /\ registrations' = [t \in Hashes |-> registrations[t] + IF t \in ts THEN 1 ELSE 0]
      /\ UNCHANGED <<inDb, running, safeVars, casts, overlapped, socketFaults>>
  BY DEF ClientRegister
<1>2. registrations \in [Hashes -> Nat] /\ casts \in [Hashes -> Nat]
  BY DEF SocketInv, SocketTypes
<1>3. /\ registrations' \in [Hashes -> Nat]
      /\ \A t \in Hashes : registrations'[t] = IF t \in ts THEN registrations[t] + 1 ELSE registrations[t]
  BY <1>1, <1>2
<1>4. \A t \in Hashes : registrations'[t] >= registrations[t] /\ (t \in ts => registrations'[t] > 0)
  BY <1>2, <1>3
<1>5. SocketTypes'
  <2>1. /\ registered' \subseteq Hashes /\ owed' \subseteq Hashes /\ registrations' \in [Hashes -> Nat]
        /\ running' \in [SocketHandlers -> [step : {"idle", "find", "cast", "remove"}, txs : SUBSET Hashes]]
        /\ casts' \in [Hashes -> Nat] /\ socketFaults' \in Nat
        /\ \A h \in SocketHandlers : running'[h].step = "idle" => running'[h].txs = {}
    BY <1>1, <1>3 DEF SocketInv, SocketTypes
  <2>2. \A t \in registered \union owed : registrations[t] > 0 /\ t \in Hashes
    BY DEF SocketInv, SocketTypes
  <2>3. \A h \in SocketHandlers : \A t \in running[h].txs : registrations[t] > 0 /\ t \in Hashes
    BY DEF SocketInv, SocketTypes
  <2>4. \A t \in registered' \union owed' : registrations'[t] > 0
    BY <1>1, <1>2, <1>3, <2>2
  <2>5. \A h \in SocketHandlers : \A t \in running'[h].txs : registrations'[t] > 0
    BY <1>1, <1>2, <1>3, <2>3
  <2> QED
    BY <2>1, <2>4, <2>5 DEF SocketTypes
<1>6. SocketTypeOK' /\ OverlapIsKnown'
  BY <1>1 DEF SocketInv, SocketTypeOK, OverlapIsKnown
<1>7. NotForgotten'
  BY <1>1, <1>3 DEF SocketInv, SocketTypes, NotForgotten
<1>8. RemovedIsCast'
  <2> SUFFICES ASSUME NEW h \in SocketHandlers, NEW t \in running[h].txs, running[h].step = "remove", registrations'[t] = 1
               PROVE  t \notin owed'
    BY <1>1 DEF RemovedIsCast
  <2>1. t \in Hashes /\ registrations[t] > 0 /\ registrations[t] \in Nat
    BY DEF SocketInv, SocketTypes
  <2>2. t \notin ts /\ registrations[t] = 1
    BY <1>3, <2>1
  <2> QED
    BY <1>1, <2>2 DEF SocketInv, RemovedIsCast
<1>9. CastsAreCounted'
  <2> SUFFICES ASSUME socketFaults = 0, NEW t \in Hashes \ overlapped
               PROVE  casts[t] <= registrations'[t] /\ (ToBeCast(t)' => casts[t] < registrations'[t])
    BY <1>1 DEF CastsAreCounted
  <2>1. casts[t] <= registrations[t] /\ (ToBeCast(t) => casts[t] < registrations[t])
    BY DEF SocketInv, CastsAreCounted
  <2>2. casts[t] \in Nat /\ registrations[t] \in Nat
    BY <1>2
  <2>3. t \notin ts => (ToBeCast(t)' <=> ToBeCast(t))
    BY <1>1 DEF ToBeCast
  <2> QED
    BY <1>3, <2>1, <2>2, <2>3
<1> QED
  BY <1>1, <1>5, <1>6, <1>7, <1>8, <1>9, SafeStays DEF SocketInv

\* A handler reads the set; a hash that another one has is noted.
LEMMA ReadMembersStep ==
    ASSUME SocketInv, NEW h \in SocketHandlers, ReadMembers(h)
    PROVE  SocketInv'
<1>1. /\ running[h].step = "idle" /\ running' = [running EXCEPT ![h] = [step |-> "find", txs |-> registered]]
      /\ overlapped' = overlapped \union (registered \intersect UNION {running[k].txs : k \in SocketHandlers})
      /\ UNCHANGED <<registered, inDb, safeVars, owed, registrations, casts, socketFaults>>
  BY DEF ReadMembers
<1>2. /\ running \in [SocketHandlers -> [step : {"idle", "find", "cast", "remove"}, txs : SUBSET Hashes]]
      /\ registered \subseteq Hashes
  BY DEF SocketInv, SocketTypes
<1>3. /\ running'[h].step = "find" /\ running'[h].txs = registered
      /\ \A k \in SocketHandlers : k # h => running'[k] = running[k]
      /\ running' \in [SocketHandlers -> [step : {"idle", "find", "cast", "remove"}, txs : SUBSET Hashes]]
  BY <1>1, <1>2
<1>4. /\ overlapped \subseteq overlapped'
      /\ \A k \in SocketHandlers : \A t \in registered \intersect running[k].txs : t \in overlapped'
  BY <1>1
<1>5. SocketTypes'
  BY <1>1, <1>3 DEF SocketInv, SocketTypes
<1>6. SocketTypeOK' /\ RemovedIsCast' /\ NotForgotten'
  BY <1>1, <1>3 DEF SocketInv, SocketTypeOK, RemovedIsCast, NotForgotten
<1>7. OverlapIsKnown'
  BY <1>3, <1>4 DEF SocketInv, OverlapIsKnown
<1>8. CastsAreCounted'
  <2> SUFFICES ASSUME socketFaults = 0, NEW t \in Hashes \ overlapped'
               PROVE  casts[t] <= registrations[t] /\ (ToBeCast(t)' => casts[t] < registrations[t])
    BY <1>1 DEF CastsAreCounted
  <2>1. casts[t] <= registrations[t] /\ (ToBeCast(t) => casts[t] < registrations[t])
    BY <1>4 DEF SocketInv, CastsAreCounted
  <2>2. ToBeCast(t)' => ToBeCast(t)
    <3>1. t \in registered => \A k \in SocketHandlers : t \notin running[k].txs
      BY <1>4
    <3> QED
      BY <1>1, <1>3, <3>1 DEF ToBeCast
  <2> QED
    BY <2>1, <2>2
<1> QED
  BY <1>1, <1>5, <1>6, <1>7, <1>8, SafeStays DEF SocketInv

\* A handler that goes on with fewer hashes, and broadcasts none.
LEMMA NarrowLemma ==
    ASSUME SocketInv, NEW h \in SocketHandlers, NEW step \in {"idle", "find", "cast", "remove"}, NEW txs \in SUBSET running[h].txs,
           running' = [running EXCEPT ![h] = [step |-> step, txs |-> txs]],
           step = "idle" => txs = {},
           step = "remove" => running[h].step = "remove",
           step \in {"cast", "remove"} => txs \subseteq inDb /\ txs # {},
           registered' \subseteq registered,
           \A t \in registered \ registered' : t \in running[h].txs /\ running[h].step = "remove",
           socketFaults' \in Nat, socketFaults' = socketFaults \/ socketFaults' # 0,
           socketFaults' = 0 /\ running[h].step = "remove" =>
               step \in {"idle", "remove"} /\ \A t \in running[h].txs : t \in registered' => t \in txs,
           UNCHANGED <<inDb, safeVars, owed, registrations, casts, overlapped>>
    PROVE  SocketInv'
<1>1. /\ running'[h].step = step /\ running'[h].txs = txs
      /\ \A k \in SocketHandlers : k # h => running'[k] = running[k]
      /\ \A k \in SocketHandlers : running'[k].txs \subseteq running[k].txs
      /\ running' \in [SocketHandlers -> [step : {"idle", "find", "cast", "remove"}, txs : SUBSET Hashes]]
  BY DEF SocketInv, SocketTypes
<1>2. SocketTypes'
  BY <1>1 DEF SocketInv, SocketTypes
<1>3. SocketTypeOK' /\ OverlapIsKnown'
  BY <1>1 DEF SocketInv, SocketTypeOK, OverlapIsKnown
<1>4. RemovedIsCast'
  BY <1>1 DEF SocketInv, RemovedIsCast
<1>5. NotForgotten'
  BY DEF SocketInv, NotForgotten, RemovedIsCast
<1>6. CastsAreCounted'
  <2> SUFFICES ASSUME socketFaults' = 0, NEW t \in Hashes \ overlapped, ToBeCast(t)'
               PROVE  ToBeCast(t)
    BY DEF SocketInv, CastsAreCounted
  <2>1. CASE \E k \in SocketHandlers : t \in running'[k].txs /\ running'[k].step # "remove"
    <3>1. PICK k \in SocketHandlers : t \in running'[k].txs /\ running'[k].step # "remove"
      BY <2>1
    <3>2. CASE k # h
      BY <1>1, <3>1, <3>2 DEF ToBeCast
    <3>3. CASE k = h /\ running[h].step # "remove"
      BY <1>1, <3>1, <3>3 DEF ToBeCast
    <3>4. CASE k = h /\ running[h].step = "remove"
      BY <1>1, <3>1, <3>4 DEF ToBeCast
    <3> QED
      BY <3>2, <3>3, <3>4
  <2>2. CASE t \in registered' /\ \A k \in SocketHandlers : t \in running'[k].txs => running'[k].step # "remove"
    BY <1>1, <2>2 DEF ToBeCast
  <2> QED
    BY <2>1, <2>2 DEF ToBeCast
<1> QED
  BY <1>2, <1>3, <1>4, <1>5, <1>6, SafeStays DEF SocketInv

\* Of the hashes a handler has, those that are stored.
LEMMA FindMembersStep ==
    ASSUME SocketInv, NEW h \in SocketHandlers, FindMembers(h)
    PROVE  SocketInv'
<1> DEFINE txs  == running[h].txs \intersect inDb
           step == IF txs = {} THEN "idle" ELSE "cast"
<1>1. /\ running[h].step = "find" /\ running' = [running EXCEPT ![h] = [step |-> step, txs |-> txs]]
      /\ UNCHANGED <<registered, inDb, safeVars, owed, registrations, casts, overlapped, socketFaults>>
  BY DEF FindMembers, IdleHandler
<1>2. /\ txs \in SUBSET running[h].txs /\ txs \subseteq inDb /\ step \in {"idle", "find", "cast", "remove"}
      /\ step # "remove" /\ (step = "idle" <=> txs = {})
  OBVIOUS
<1>3. socketFaults' \in Nat
  BY <1>1 DEF SocketInv, SocketTypes
<1> HIDE DEF step, txs
<1> QED
  BY <1>1, <1>2, <1>3, NarrowLemma

\* A hash is removed from the set after it was broadcast.
LEMMA RemoveMemberStep ==
    ASSUME SocketInv, NEW h \in SocketHandlers, NEW t \in Hashes, RemoveMember(h, t)
    PROVE  SocketInv'
<1> DEFINE txs  == running[h].txs \ {t}
           step == IF running[h].txs = {t} THEN "idle" ELSE "remove"
<1>1. /\ running[h].step = "remove" /\ t \in running[h].txs /\ registered' = registered \ {t}
      /\ running' = [running EXCEPT ![h] = [step |-> step, txs |-> txs]]
      /\ UNCHANGED <<inDb, safeVars, owed, registrations, casts, overlapped, socketFaults>>
  BY DEF RemoveMember, IdleHandler
<1>2. /\ txs \in SUBSET running[h].txs /\ step \in {"idle", "find", "cast", "remove"}
      /\ (step = "idle" <=> txs = {}) /\ step \in {"idle", "remove"}
      /\ \A u \in running[h].txs : u # t => u \in txs
  BY <1>1
<1>3. socketFaults' \in Nat
  BY <1>1 DEF SocketInv, SocketTypes
<1>4. txs \subseteq inDb
  BY <1>1, <1>2 DEF SocketInv, SocketTypeOK
<1> HIDE DEF step, txs
<1> QED
  BY <1>1, <1>2, <1>3, <1>4, NarrowLemma

\* A handler that fails has nothing left.
LEMMA HandlerFailsStep ==
    ASSUME SocketInv, NEW h \in SocketHandlers, HandlerFails(h)
    PROVE  SocketInv'
<1>1. /\ socketFaults' = socketFaults + 1 /\ running' = [running EXCEPT ![h] = [step |-> "idle", txs |-> {}]]
      /\ UNCHANGED <<registered, inDb, safeVars, owed, registrations, casts, overlapped>>
  BY DEF HandlerFails, IdleHandler
<1>2. socketFaults' \in Nat /\ socketFaults' # 0
  BY <1>1 DEF SocketInv, SocketTypes
<1> QED
  BY <1>1, <1>2, NarrowLemma

\* The hashes that a handler broadcasts are owed to nobody.
LEMMA BroadcastStep ==
    ASSUME SocketInv, NEW h \in SocketHandlers, Broadcast(h)
    PROVE  SocketInv'
<1>1. /\ running[h].step = "cast" /\ running' = [running EXCEPT ![h].step = "remove"]
      /\ owed' = owed \ running[h].txs
      /\ casts' = [t \in Hashes |-> casts[t] + IF t \in running[h].txs THEN 1 ELSE 0]
      /\ UNCHANGED <<registered, inDb, safeVars, registrations, overlapped, socketFaults>>
  BY DEF Broadcast
<1>2. /\ running \in [SocketHandlers -> [step : {"idle", "find", "cast", "remove"}, txs : SUBSET Hashes]]
      /\ registrations \in [Hashes -> Nat] /\ casts \in [Hashes -> Nat]
  BY DEF SocketInv, SocketTypes
<1>3. /\ running'[h].step = "remove" /\ running'[h].txs = running[h].txs
      /\ \A k \in SocketHandlers : k # h => running'[k] = running[k]
      /\ \A k \in SocketHandlers : running'[k].txs = running[k].txs
      /\ running' \in [SocketHandlers -> [step : {"idle", "find", "cast", "remove"}, txs : SUBSET Hashes]]
  BY <1>1, <1>2
<1>4. /\ casts' \in [Hashes -> Nat]
      /\ \A t \in Hashes : casts'[t] = IF t \in running[h].txs THEN casts[t] + 1 ELSE casts[t]
  BY <1>1, <1>2
<1>5. SocketTypes'
  BY <1>1, <1>3, <1>4 DEF SocketInv, SocketTypes
<1>6. SocketTypeOK' /\ OverlapIsKnown'
  BY <1>1, <1>3 DEF SocketInv, SocketTypeOK, OverlapIsKnown
<1>7. NotForgotten' /\ RemovedIsCast'
  BY <1>1, <1>3 DEF SocketInv, NotForgotten, RemovedIsCast
<1>8. CastsAreCounted'
  <2> SUFFICES ASSUME socketFaults = 0, NEW t \in Hashes \ overlapped
               PROVE  casts'[t] <= registrations[t] /\ (ToBeCast(t)' => casts'[t] < registrations[t])
    BY <1>1 DEF CastsAreCounted
  <2>1. casts[t] <= registrations[t] /\ (ToBeCast(t) => casts[t] < registrations[t])
    BY DEF SocketInv, CastsAreCounted
  <2>2. casts[t] \in Nat /\ registrations[t] \in Nat
    BY <1>2
  <2>3. CASE t \in running[h].txs
    <3>1. ToBeCast(t)
      BY <1>1, <2>3 DEF ToBeCast
    <3>2. \A k \in SocketHandlers : t \in running[k].txs => k = h
      BY <2>3 DEF SocketInv, OverlapIsKnown
    <3>3. ~ToBeCast(t)'
      BY <1>3, <2>3, <3>2 DEF ToBeCast
    <3> QED
      BY <1>4, <2>1, <2>2, <2>3, <3>1, <3>3
  <2>4. CASE t \notin running[h].txs
    <3>1. ToBeCast(t)' => ToBeCast(t)
      BY <1>1, <1>3, <2>4 DEF ToBeCast
    <3> QED
      BY <1>4, <2>1, <2>4, <3>1
  <2> QED
    BY <2>3, <2>4
<1> QED
  BY <1>1, <1>5, <1>6, <1>7, <1>8, SafeStays DEF SocketInv

\* Nothing changes.
LEMMA SameSocket ==
    ASSUME SocketInv, UNCHANGED socketVars
    PROVE  SocketInv'
<1>1. UNCHANGED <<registered, running, owed, registrations, casts, overlapped, inDb, socketFaults, safeVars>>
  BY DEF socketVars, safeVars
<1>2. socketFaults' \in Nat /\ inDb \subseteq inDb'
  BY <1>1 DEF SocketInv, SocketTypes
<1> QED
  BY <1>1, <1>2, HandlersStay, SafeStays DEF SocketInv

\* Every step keeps the invariant.
LEMMA NextSocket == SocketInv /\ [SocketNext]_socketVars => SocketInv'
BY AnnounceHashStep, StoreHashStep, HandleSafeTxStep, ClientRegisterStep, ReadMembersStep, FindMembersStep, BroadcastStep,
   RemoveMemberStep, HandlerFailsStep, SameSocket
DEF SocketNext, HandlerStep

\* What it says of the broadcasts.
LEMMA SocketLemma == SocketInv => CastOncePerRegistration
<1> SUFFICES ASSUME SocketInv, NEW t \in Hashes, casts[t] > registrations[t], t \notin overlapped, ~(socketFaults > 0)
             PROVE  FALSE
  BY DEF CastOncePerRegistration
<1>1. casts[t] \in Nat /\ registrations[t] \in Nat /\ socketFaults \in Nat
  BY DEF SocketInv, SocketTypes
<1>2. casts[t] <= registrations[t]
  BY <1>1 DEF SocketInv, CastsAreCounted
<1> QED
  BY <1>1, <1>2

\* With handlers that overlap and clients that register meanwhile: a hash registered once stays in the set until it
\* is broadcast, none is broadcast more often than it was registered, unless two handlers had it or one failed, and
\* each coin moving transaction is broadcast as safe or that failed.
THEOREM ListenersHearOnce == SocketSpec => []ListenersAreTold
<1>1. SocketInv => ListenersAreTold
  BY SocketLemma DEF SocketInv, ListenersAreTold
<1> QED
  BY <1>1, InitSocket, NextSocket, PTL DEF SocketSpec

-----------------------------------------------------------------------------
(* The indexes of a transaction (TxIndexes).                                   *)

\* A function whose value is what a value has of its own with what its parts have.
IsScan(f, own, parts) == f = [v \in Values |-> own[v] \union UNION {f[w] : w \in parts[v]}]

\* Recursion over values that are nested to a limit: there is such a function.
LEMMA NestedLemma ==
    ASSUME NEW own, NEW parts, \A v \in Values : \A w \in parts[v] : w \in Values /\ Nesting[w] < Nesting[v]
    PROVE  \E f : IsScan(f, own, parts)
<1> DEFINE V == Values
           rank == Nesting
           n == MaxNesting
<1>0. n \in Nat /\ rank \in [V -> 0 .. n]
  BY IndexAssumption
<1> HIDE DEF V, rank, n
<1> DEFINE Upto(f, m) == \A v \in V : rank[v] < m => f[v] = own[v] \union UNION {f[w] : w \in parts[v]}
           Bad == {m \in Nat : ~\E f : Upto(f, m)}
           Next1(f) == [v \in V |-> own[v] \union UNION {f[w] : w \in parts[v]}]
<1>1. \A v \in V : rank[v] \in Nat /\ rank[v] <= n /\ \A w \in parts[v] : w \in V /\ rank[w] < rank[v]
  BY <1>0 DEF V, rank
<1>2. ASSUME NEW m \in Nat, NEW f, Upto(f, m) PROVE Upto(Next1(f), m + 1)
  <2> DEFINE g == Next1(f)
  <2> SUFFICES ASSUME NEW v \in V, rank[v] < m + 1
               PROVE  g[v] = own[v] \union UNION {g[w] : w \in parts[v]}
    OBVIOUS
  <2>1. \A u \in V : g[u] = own[u] \union UNION {f[w] : w \in parts[u]}
    OBVIOUS
  <2>2. \A w \in parts[v] : g[w] = f[w]
    <3> SUFFICES ASSUME NEW w \in parts[v] PROVE g[w] = f[w]
      OBVIOUS
    <3>1. w \in V /\ rank[w] < m
      BY <1>1
    <3> QED
      BY <1>2, <2>1, <3>1
  <2>3. {g[w] : w \in parts[v]} = {f[w] : w \in parts[v]}
    <3> HIDE DEF g
    <3> QED
      BY <2>2
  <2> HIDE DEF g
  <2> QED
    BY <2>1, <2>3
<1>3. Upto([v \in V |-> own[v]], 0)
  BY <1>1
<1> HIDE DEF Upto, Next1
<1>4. Bad = {}
  <2> SUFFICES ASSUME Bad # {} PROVE FALSE
    OBVIOUS
  <2>1. PICK m \in Bad : \A k \in Bad : m <= k
    BY MinLemma
  <2>2. m # 0
    BY <1>3
  <2>3. m - 1 \in Nat /\ m - 1 \notin Bad /\ (m - 1) + 1 = m
    BY <2>1, <2>2
  <2> QED
    BY <1>2, <2>1, <2>3
<1>5. PICK f : Upto(f, n + 1)
  BY <1>0, <1>4
<1> DEFINE h == Next1(f)
<1>6. Upto(h, (n + 1) + 1)
  BY <1>0, <1>2, <1>5
<1>7. \A v \in V : h[v] = own[v] \union UNION {h[w] : w \in parts[v]}
  <2>1. \A v \in V : rank[v] < (n + 1) + 1
    BY <1>0, <1>1
  <2> HIDE DEF h
  <2> QED
    BY <1>6, <2>1 DEF Upto
<1>8. h = [v \in V |-> h[v]]
  BY DEF Next1
<1>9. h = [v \in V |-> own[v] \union UNION {h[w] : w \in parts[v]}]
  <2> HIDE DEF h
  <2> QED
    BY <1>7, <1>8
<1> QED
  BY <1>9 DEF IsScan, V

\* Of two such functions the one with more parts finds more.
LEMMA MorePartsLemma ==
    ASSUME NEW own, NEW parts, NEW more, NEW f, NEW g, IsScan(f, own, parts), IsScan(g, own, more),
           \A v \in Values : \A w \in parts[v] : w \in more[v] /\ w \in Values /\ Nesting[w] < Nesting[v]
    PROVE  \A v \in Values : f[v] \subseteq g[v]
<1> DEFINE Bad == {Nesting[v] : v \in {v \in Values : ~(f[v] \subseteq g[v])}}
<1>1. \A v \in Values : Nesting[v] \in Nat
  BY IndexAssumption
<1>2. /\ \A v \in Values : f[v] = own[v] \union UNION {f[w] : w \in parts[v]}
      /\ \A v \in Values : g[v] = own[v] \union UNION {g[w] : w \in more[v]}
  BY DEF IsScan
<1>3. Bad = {}
  <2> SUFFICES ASSUME Bad # {} PROVE FALSE
    OBVIOUS
  <2>1. Bad \subseteq Nat
    BY <1>1
  <2> HIDE DEF Bad
  <2>2. PICK m \in Bad : \A k \in Bad : m <= k
    BY <2>1, MinLemma
  <2>3. PICK v \in Values : m = Nesting[v] /\ ~(f[v] \subseteq g[v])
    BY <2>2 DEF Bad
  <2>4. \A w \in parts[v] : f[w] \subseteq g[w] /\ w \in more[v]
    <3> SUFFICES ASSUME NEW w \in parts[v] PROVE f[w] \subseteq g[w] /\ w \in more[v]
      OBVIOUS
    <3>1. w \in Values /\ Nesting[w] < Nesting[v] /\ w \in more[v]
      BY <2>3
    <3>2. Nesting[w] \notin Bad
      BY <1>1, <2>2, <2>3, <3>1
    <3> QED
      BY <3>1, <3>2 DEF Bad
  <2>5. f[v] \subseteq g[v]
    BY <1>2, <2>3, <2>4
  <2> QED
    BY <2>3, <2>5
<1> QED
  BY <1>3

\* What each of the three scans goes into, and what they find in a text.
TextOf == [v \in Values |-> IF v[1] = "text" THEN {v[2]} \intersect TxAddresses ELSE {}]
AllParts == [v \in Values |-> IF v[1] = "text" THEN {} ELSE Parts(v)]
ObjectParts == [v \in Values |-> IF v[1] = "object" THEN Parts(v) ELSE {}]

\* A text has no parts, and no value but objects and lists has any.
LEMMA PartsLemma ==
    /\ \A v \in Values : AllParts[v] = IF v[1] = "text" THEN {} ELSE Parts(v)
    /\ \A v \in Values : ObjectParts[v] = IF v[1] = "object" THEN Parts(v) ELSE {}
    /\ \A v \in Values : \A w \in AllParts[v] : w \in Values /\ Nesting[w] < Nesting[v]
    /\ \A v \in Values : \A w \in ObjectParts[v] : w \in AllParts[v] /\ w \in Values /\ Nesting[w] < Nesting[v]
BY IndexAssumption DEF AllParts, ObjectParts, Parts

\* What the code finds in a value.
LEMMA ScanLemma == IsScan(ScanAddresses, TextOf, ObjectParts)
<1> DEFINE Body(f) == [v \in Values |->
               IF v[1] = "text" THEN {v[2]} \intersect TxAddresses
               ELSE UNION {f[w] : w \in IF v[1] = "object" THEN Parts(v) ELSE {}}]
<1>1. ASSUME NEW f PROVE f = Body(f) <=> IsScan(f, TextOf, ObjectParts)
  <2> DEFINE new == [v \in Values |-> TextOf[v] \union UNION {f[w] : w \in ObjectParts[v]}]
  <2>1. ASSUME NEW v \in Values PROVE Body(f)[v] = new[v]
    <3>1. CASE v[1] = "text"
      BY <3>1 DEF TextOf, ObjectParts
    <3>2. CASE v[1] # "text"
      <4>1. TextOf[v] = {} /\ ObjectParts[v] = IF v[1] = "object" THEN Parts(v) ELSE {}
        BY <3>2 DEF TextOf, ObjectParts, Parts
      <4> QED
        BY <3>2, <4>1
    <3> QED
      BY <3>1, <3>2
  <2>2. Body(f) = new
    BY <2>1
  <2> QED
    BY <2>2 DEF IsScan
<1>2. \E f : IsScan(f, TextOf, ObjectParts)
  BY PartsLemma, NestedLemma
<1>3. ScanAddresses = CHOOSE f : f = Body(f)
  BY DEF ScanAddresses
<1> HIDE DEF Body
<1> QED
  BY <1>1, <1>2, <1>3

\* The addresses outside of lists.
LEMMA OutsideLemma == IsScan(AddressesOutsideLists, TextOf, ObjectParts)
<1> DEFINE Body(f) == [v \in Values |->
               IF v[1] = "text" THEN {v[2]} \intersect TxAddresses
               ELSE UNION {f[w] : w \in IF v[1] = "list" THEN {} ELSE Parts(v)}]
<1>1. ASSUME NEW f PROVE f = Body(f) <=> IsScan(f, TextOf, ObjectParts)
  <2> DEFINE new == [v \in Values |-> TextOf[v] \union UNION {f[w] : w \in ObjectParts[v]}]
  <2>1. ASSUME NEW v \in Values PROVE Body(f)[v] = new[v]
    <3>1. CASE v[1] = "text"
      BY <3>1 DEF TextOf, ObjectParts
    <3>2. CASE v[1] # "text"
      <4>1. TextOf[v] = {} /\ ObjectParts[v] = IF v[1] = "list" THEN {} ELSE Parts(v)
        BY <3>2 DEF TextOf, ObjectParts, Parts
      <4> QED
        BY <3>2, <4>1
    <3> QED
      BY <3>1, <3>2
  <2>2. Body(f) = new
    BY <2>1
  <2> QED
    BY <2>2 DEF IsScan
<1>2. \E f : IsScan(f, TextOf, ObjectParts)
  BY PartsLemma, NestedLemma
<1>3. AddressesOutsideLists = CHOOSE f : f = Body(f)
  BY DEF AddressesOutsideLists
<1> HIDE DEF Body
<1> QED
  BY <1>1, <1>2, <1>3

\* All the addresses of a value.
LEMMA AllLemma == IsScan(AddressesIn, TextOf, AllParts)
<1> DEFINE Body(f) == [v \in Values |->
               IF v[1] = "text" THEN {v[2]} \intersect TxAddresses
               ELSE UNION {f[w] : w \in Parts(v)}]
<1>1. ASSUME NEW f PROVE f = Body(f) <=> IsScan(f, TextOf, AllParts)
  <2> DEFINE new == [v \in Values |-> TextOf[v] \union UNION {f[w] : w \in AllParts[v]}]
  <2>1. ASSUME NEW v \in Values PROVE Body(f)[v] = new[v]
    <3>1. CASE v[1] = "text"
      BY <3>1 DEF TextOf, AllParts
    <3>2. CASE v[1] # "text"
      <4>1. TextOf[v] = {} /\ AllParts[v] = Parts(v)
        BY <3>2 DEF TextOf, AllParts, Parts
      <4> QED
        BY <3>2, <4>1
    <3> QED
      BY <3>1, <3>2
  <2>2. Body(f) = new
    BY <2>1
  <2> QED
    BY <2>2 DEF IsScan
<1>2. \E f : IsScan(f, TextOf, AllParts)
  BY PartsLemma, NestedLemma
<1>3. AddressesIn = CHOOSE f : f = Body(f)
  BY DEF AddressesIn
<1> HIDE DEF Body
<1> QED
  BY <1>1, <1>2, <1>3

\* What the code finds is in the value, and what is outside of lists it finds.
LEMMA FoundLemma ==
    \A v \in Values : /\ ScanAddresses[v] \subseteq AddressesIn[v]
                      /\ AddressesOutsideLists[v] \subseteq ScanAddresses[v]
BY PartsLemma, ScanLemma, OutsideLemma, AllLemma, MorePartsLemma

\* A field that has an index of its own is in the argument.
LEMMA FieldLemma ==
    ASSUME NEW arg \in Values, NEW att \in DOMAIN FieldIndex
    PROVE  FieldValues(arg, att) \intersect TxAddresses \subseteq AddressesIn[arg]
<1> SUFFICES ASSUME NEW a \in FieldValues(arg, att) \intersect TxAddresses PROVE a \in AddressesIn[arg]
  OBVIOUS
<1> DEFINE w == arg[2][att]
<1>1. arg[1] = "object" /\ att \in DOMAIN arg[2] /\ w[1] = "text" /\ a = w[2] /\ a \in TxAddresses
  BY DEF FieldValues
<1>2. w \in Parts(arg) /\ w \in Values
  BY <1>1, IndexAssumption DEF Parts
<1>3. w \in AllParts[arg] /\ TextOf[w] = {w[2]} \intersect TxAddresses
  BY <1>1, <1>2, PartsLemma DEF TextOf
<1> HIDE DEF w
<1>4. AddressesIn[w] = TextOf[w] \union UNION {AddressesIn[u] : u \in AllParts[w]}
  BY <1>2, AllLemma DEF IsScan
<1>5. AddressesIn[arg] = TextOf[arg] \union UNION {AddressesIn[u] : u \in AllParts[arg]}
  BY AllLemma DEF IsScan
<1> QED
  BY <1>1, <1>3, <1>4, <1>5

\* The indexes of a message: addresses that are in it, all those outside of lists, and the action of each
\* argument up to the one that throws.
LEMMA MessageLemma ==
    ASSUME NEW m \in Message
    PROVE  /\ \A p \in MessageIndexes(m) : p[1] = "addresses" => p[2] \in InputAddresses(m, AddressesIn)
           /\ \A a \in InputAddresses(m, AddressesOutsideLists) : <<"addresses", a>> \in MessageIndexes(m)
           /\ \A j \in DOMAIN m.input : (\A k \in ThrowsAt(m.input) : j <= k)
                  => <<"wasm_action", m.input[j].key>> \in MessageIndexes(m)
<1>1. \A j \in DOMAIN m.input : m.input[j].arg \in Values
  <2>1. m.input \in Seq([key : STRING, arg : Values])
    BY DEF Message
  <2>2. \A j \in DOMAIN m.input : m.input[j] \in [key : STRING, arg : Values]
    BY <2>1, ElementsLemma
  <2> QED
    BY <2>2
<1> DEFINE IndexesOf(j) ==
             AddToIndexes("wasm_action", {m.input[j].key})
               \union UNION {LET values == FieldValues(m.input[j].arg, att)
                             IN AddToIndexes(FieldIndex[att], values)
                                    \union AddToIndexes("addresses", values \intersect TxAddresses)
                               : att \in DOMAIN FieldIndex}
           upTo == {j \in DOMAIN m.input : \A k \in ThrowsAt(m.input) : j <= k}
<1>2. Arguments(m.input) = UNION {IndexesOf(j) : j \in upTo}
  BY DEF Arguments
<1>3. ASSUME NEW j \in DOMAIN m.input, NEW p \in IndexesOf(j), p[1] = "addresses"
      PROVE  p[2] \in AddressesIn[m.input[j].arg]
  <2>1. p \notin AddToIndexes("wasm_action", {m.input[j].key})
    BY <1>3 DEF AddToIndexes
  <2>2. PICK att \in DOMAIN FieldIndex :
            \/ p \in AddToIndexes(FieldIndex[att], FieldValues(m.input[j].arg, att))
            \/ p \in AddToIndexes("addresses", FieldValues(m.input[j].arg, att) \intersect TxAddresses)
    BY <2>1
  <2>3. FieldIndex[att] # "addresses"
    BY DEF FieldIndex
  <2>4. p[2] \in FieldValues(m.input[j].arg, att) \intersect TxAddresses
    BY <1>3, <2>2, <2>3 DEF AddToIndexes
  <2> QED
    BY <1>1, <2>4, FieldLemma
<1>4. \A j \in DOMAIN m.input : <<"wasm_action", m.input[j].key>> \in IndexesOf(j)
  BY DEF AddToIndexes
<1> HIDE DEF IndexesOf
<1> DEFINE scanned == UNION {ScanAddresses[m.input[j].arg] : j \in DOMAIN m.input}
<1>5. MessageIndexes(m) =
        AddToIndexes("message_action", {"execute"}) \union AddToIndexes("wasm_sender", {m.sender})
          \union AddToIndexes("wasm__contract_address", {m.contract})
          \union AddToIndexes("execute__contract_address", {m.contract})
          \union AddToIndexes("addresses", scanned) \union Arguments(m.input)
  BY DEF MessageIndexes
<1>6. scanned \subseteq InputAddresses(m, AddressesIn) /\ InputAddresses(m, AddressesOutsideLists) \subseteq scanned
  BY <1>1, FoundLemma DEF InputAddresses
<1> HIDE DEF scanned, upTo
<1>7. ASSUME NEW p \in MessageIndexes(m), p[1] = "addresses" PROVE p[2] \in InputAddresses(m, AddressesIn)
  <2>1. CASE p \in Arguments(m.input)
    <3>1. PICK j \in upTo : p \in IndexesOf(j)
      BY <1>2, <2>1
    <3>2. j \in DOMAIN m.input
      BY <3>1 DEF upTo
    <3> QED
      BY <1>3, <1>7, <3>1, <3>2 DEF InputAddresses
  <2>2. CASE p \notin Arguments(m.input)
    <3>1. p \in AddToIndexes("addresses", scanned)
      BY <1>5, <1>7, <2>2 DEF AddToIndexes
    <3> QED
      BY <1>6, <3>1 DEF AddToIndexes
  <2> QED
    BY <2>1, <2>2
<1>8. ASSUME NEW a \in InputAddresses(m, AddressesOutsideLists) PROVE <<"addresses", a>> \in MessageIndexes(m)
  BY <1>5, <1>6 DEF AddToIndexes
<1>9. ASSUME NEW j \in DOMAIN m.input, \A k \in ThrowsAt(m.input) : j <= k
      PROVE  <<"wasm_action", m.input[j].key>> \in MessageIndexes(m)
  <2>1. j \in upTo
    BY <1>9 DEF upTo
  <2> QED
    BY <1>2, <1>4, <1>5, <2>1
<1> QED
  BY <1>7, <1>8, <1>9

\* A message is found by these addresses and these actions.
FoundIn(m, addresses, actions) ==
    /\ InputAddresses(m, AddressesOutsideLists) \subseteq addresses
    /\ \A j \in DOMAIN m.input : (\A k \in ThrowsAt(m.input) : j <= k) => m.input[j].key \in actions

\* In any state a transaction has the indexes of the messages it has passed, and none but its own.
IndexInv ==
    /\ tx \in Transactions
    /\ IndexTypeOK
    /\ OnlyItsAddresses
    /\ \A i \in 1 .. position - 1 :
          tx.msgs[i].execute => FoundIn(tx.msgs[i], Indexed("addresses"), Indexed("wasm_action"))
    /\ indexed => EventAddresses \subseteq Indexed("addresses")

\* What is indexed under a name, after more was.
LEMMA IndexedLemma ==
    ASSUME NEW more, indexes' = indexes \union more, NEW name
    PROVE  /\ Indexed(name) \subseteq Indexed(name)'
           /\ \A v \in Indexed(name)' : v \in Indexed(name) \/ \E p \in more : p[1] = name /\ p[2] = v
           /\ \A v : <<name, v>> \in more => v \in Indexed(name)'
BY DEF Indexed

\* It holds at the start.
LEMMA InitIndex == IndexInit => IndexInv
<1> SUFFICES ASSUME IndexInit PROVE IndexInv
  OBVIOUS
<1>1. tx.msgs \in Seq(Message) /\ position = 1 /\ tx \in Transactions
  BY IndexAssumption DEF IndexInit
<1>2. 1 \in 1 .. Len(tx.msgs) + 1 /\ 1 .. position - 1 = {}
  BY <1>1
<1> QED
  BY <1>1, <1>2 DEF IndexInit, IndexInv, IndexTypeOK, OnlyItsAddresses, Indexed

\* A message adds its own indexes to those before it.
LEMMA IndexMessageStep ==
    ASSUME IndexInv, IndexMessage
    PROVE  IndexInv'
<1> DEFINE m == tx.msgs[position]
           more == IF m.execute THEN MessageIndexes(m) ELSE {}
<1>1. /\ tx \in Transactions /\ tx.msgs \in Seq(Message) /\ tx' = tx /\ indexed' = indexed
      /\ position \in 1 .. Len(tx.msgs) /\ Len(tx.msgs) \in Nat /\ position' = position + 1
      /\ broken' = (m.execute /\ ThrowsAt(m.input) # {}) /\ indexes' = indexes \union more
  BY IndexAssumption DEF IndexMessage, IndexInv, IndexTypeOK
<1>2. m \in Message
  BY <1>1
<1>3. IndexTypeOK'
  <2>1. position' - 1 = position /\ position' > 1 /\ position' \in 1 .. Len(tx.msgs) + 1
    BY <1>1
  <2> HIDE DEF more
  <2> QED
    BY <1>1, <2>1 DEF IndexTypeOK
<1>4. m.execute => m \in Executed
  <2>1. DOMAIN tx.msgs = 1 .. Len(tx.msgs)
    BY <1>1
  <2> QED
    BY <1>1, <2>1 DEF Executed
<1> HIDE DEF m
<1>5. /\ Indexed("addresses") \subseteq Indexed("addresses")' /\ Indexed("wasm_action") \subseteq Indexed("wasm_action")'
      /\ \A v \in Indexed("addresses")' : v \in Indexed("addresses") \/ \E p \in more : p[1] = "addresses" /\ p[2] = v
      /\ \A v : <<"addresses", v>> \in more => v \in Indexed("addresses")'
      /\ \A v : <<"wasm_action", v>> \in more => v \in Indexed("wasm_action")'
  <2>1. indexes' = indexes \union more
    BY <1>1
  <2> HIDE DEF more
  <2> QED
    BY <2>1, IndexedLemma
<1>6. MessageAddresses' = MessageAddresses /\ EventAddresses' = EventAddresses
  BY <1>1 DEF MessageAddresses, Executed, EventAddresses, InputAddresses
<1>7. OnlyItsAddresses'
  <2>1. \A p \in more : p[1] = "addresses" => m \in Executed /\ p[2] \in InputAddresses(m, AddressesIn)
    BY <1>2, <1>4, MessageLemma
  <2>2. \A v \in Indexed("addresses")' : v \in Indexed("addresses") \/ v \in MessageAddresses
    <3> HIDE DEF more
    <3> QED
      BY <1>5, <2>1 DEF MessageAddresses
  <2>3. Indexed("addresses") \subseteq MessageAddresses \union EventAddresses
    BY DEF IndexInv, OnlyItsAddresses
  <2>4. Indexed("addresses")' \subseteq MessageAddresses' \union EventAddresses'
    BY <1>6, <2>2, <2>3
  <2> QED
    BY <2>4 DEF OnlyItsAddresses
<1>8. ASSUME NEW i \in 1 .. position, tx.msgs[i].execute
      PROVE  FoundIn(tx.msgs[i], Indexed("addresses")', Indexed("wasm_action")')
  <2>1. i \in 1 .. position - 1 \/ i = position
    BY <1>1
  <2>2. CASE i \in 1 .. position - 1
    BY <1>5, <1>8, <2>2 DEF IndexInv, FoundIn
  <2>3. CASE i = position
    <3>1. tx.msgs[i] = m /\ more = MessageIndexes(m)
      BY <1>8, <2>3 DEF m
    <3> HIDE DEF more
    <3> QED
      BY <1>2, <1>5, <3>1, MessageLemma DEF FoundIn
  <2> QED
    BY <2>1, <2>2, <2>3
<1>9. indexed => EventAddresses \subseteq Indexed("addresses")'
  BY <1>5 DEF IndexInv
<1>10. position' - 1 = position
  BY <1>1
<1> HIDE DEF more
<1> QED
  BY <1>1, <1>3, <1>6, <1>7, <1>8, <1>9, <1>10 DEF IndexInv

\* The events add theirs.
LEMMA IndexEventsStep ==
    ASSUME IndexInv, IndexEvents
    PROVE  IndexInv'
<1> DEFINE more == UNION {AddToIndexes(e.name, {e.value})
                             \union AddToIndexes("addresses", {e.value} \intersect TxAddresses)
                                 : e \in {e \in tx.events : e.decodes}}
<1>1. /\ tx \in Transactions /\ tx' = tx /\ position' = position /\ broken' = broken /\ indexes' = indexes \union more
      /\ \A e \in tx.events : e.name # "addresses"
  BY IndexAssumption DEF IndexEvents, IndexInv
<1>2. /\ \A p \in more : p[1] = "addresses" => p[2] \in EventAddresses
      /\ \A a \in EventAddresses : <<"addresses", a>> \in more
  BY <1>1 DEF EventAddresses, AddToIndexes
<1> HIDE DEF more
<1>3. /\ Indexed("addresses") \subseteq Indexed("addresses")' /\ Indexed("wasm_action") \subseteq Indexed("wasm_action")'
      /\ \A v \in Indexed("addresses")' : v \in Indexed("addresses") \/ \E p \in more : p[1] = "addresses" /\ p[2] = v
      /\ \A v : <<"addresses", v>> \in more => v \in Indexed("addresses")'
      /\ \A v : <<"wasm_action", v>> \in more => v \in Indexed("wasm_action")'
  BY <1>1, IndexedLemma
<1>4. MessageAddresses' = MessageAddresses /\ EventAddresses' = EventAddresses
  BY <1>1 DEF MessageAddresses, Executed, EventAddresses, InputAddresses
<1>5. IndexTypeOK'
  BY <1>1 DEF IndexInv, IndexTypeOK
<1>6. OnlyItsAddresses'
  <2>1. Indexed("addresses") \subseteq MessageAddresses \union EventAddresses
    BY DEF IndexInv, OnlyItsAddresses
  <2>2. Indexed("addresses")' \subseteq MessageAddresses' \union EventAddresses'
    BY <1>2, <1>3, <1>4, <2>1
  <2> QED
    BY <2>2 DEF OnlyItsAddresses
<1>7. \A i \in 1 .. position - 1 : tx.msgs[i].execute => FoundIn(tx.msgs[i], Indexed("addresses")', Indexed("wasm_action")')
  BY <1>3 DEF IndexInv, FoundIn
<1>8. EventAddresses' \subseteq Indexed("addresses")'
  BY <1>2, <1>3, <1>4
<1> QED
  BY <1>1, <1>5, <1>6, <1>7, <1>8 DEF IndexInv

\* Every step keeps the invariant.
LEMMA NextIndex == IndexInv /\ [IndexNext]_indexVars => IndexInv'
<1> SUFFICES ASSUME IndexInv, [IndexNext]_indexVars PROVE IndexInv'
  OBVIOUS
<1>1. CASE IndexMessage
  BY <1>1, IndexMessageStep
<1>2. CASE IndexEvents
  BY <1>2, IndexEventsStep
<1>3. CASE UNCHANGED indexVars
  <2>1. /\ tx' = tx /\ position' = position /\ broken' = broken /\ indexed' = indexed
        /\ Indexed("addresses")' = Indexed("addresses") /\ Indexed("wasm_action")' = Indexed("wasm_action")
        /\ MessageAddresses' = MessageAddresses /\ EventAddresses' = EventAddresses
    BY <1>3 DEF indexVars, Indexed, MessageAddresses, Executed, EventAddresses, InputAddresses
  <2> QED
    BY <2>1 DEF IndexInv, IndexTypeOK, OnlyItsAddresses
<1> QED
  BY <1>1, <1>2, <1>3 DEF IndexNext

\* It says what the property says.
LEMMA IndexLemma == IndexInv => TxIsFound
<1> SUFFICES ASSUME IndexInv PROVE TxIsFound
  OBVIOUS
<1>1. FoundByAddress
  BY DEF IndexInv, FoundByAddress, FoundIn
<1>2. FoundByAction
  BY DEF IndexInv, FoundByAction, FoundIn
<1> QED
  BY <1>1, <1>2 DEF IndexInv, TxIsFound

\* handle-transaction.service.ts:100-191: whatever the messages of a transaction are, and however their
\* values are nested, it is found by its addresses and actions and by no other, up to
\* and with the message that throws.
THEOREM TxsAreFound == IndexSpec => []TxIsFound
<1>1. IndexInit => IndexInv
  BY InitIndex
<1>2. IndexInv /\ [IndexNext]_indexVars => IndexInv'
  BY NextIndex
<1>3. IndexInv => TxIsFound
  BY IndexLemma
<1> QED
  BY <1>1, <1>2, <1>3, PTL DEF IndexSpec

-----------------------------------------------------------------------------
(* The lists of the APIs (Paging).                                             *)

\* The members of a set in an order, each at the position that so many others come before.
Ranked(S, lt) == [n \in 1 .. Cardinality(S) |->
                     CHOOSE i \in S : Cardinality({k \in S \ {i} : <<k, i>> \in lt}) = n - 1]

\* Of two members of a set one comes first.
TotalOrder(S, lt) ==
    /\ \A i \in S : \A k \in S : i # k => (<<i, k>> \in lt) = (<<k, i>> \notin lt)
    /\ \A i \in S : \A j \in S : \A k \in S :
          i # j /\ j # k /\ i # k /\ <<i, j>> \in lt /\ <<j, k>> \in lt => <<i, k>> \in lt

\* Each member is at a position, and they are in the order.
RankedWell(S, lt) ==
    /\ Cardinality(S) \in Nat
    /\ Ranked(S, lt) \in [1 .. Cardinality(S) -> S]
    /\ \A i \in S : \E m \in 1 .. Cardinality(S) : Ranked(S, lt)[m] = i
    /\ \A m, l \in 1 .. Cardinality(S) :
          m < l => /\ Ranked(S, lt)[m] # Ranked(S, lt)[l]
                   /\ <<Ranked(S, lt)[m], Ranked(S, lt)[l]>> \in lt

\* A finite set in an order of its members has each of them at a position, in that order.
LEMMA RankLemma ==
    ASSUME NEW S, IsFiniteSet(S), NEW lt, TotalOrder(S, lt)
    PROVE  RankedWell(S, lt)
<1> DEFINE n == Cardinality(S)
           before(i) == {k \in S \ {i} : <<k, i>> \in lt}
           rank(i) == Cardinality(before(i))
           s == Ranked(S, lt)
<1>1. n \in Nat
  BY FS_CardinalityType
<1>2. ASSUME NEW i \in S PROVE rank(i) \in 0 .. n - 1 /\ IsFiniteSet(before(i))
  <2>1. IsFiniteSet(S \ {i}) /\ Cardinality(S \ {i}) = n - 1
    BY FS_RemoveElement
  <2>2. before(i) \in SUBSET (S \ {i})
    OBVIOUS
  <2> HIDE DEF before
  <2>3. IsFiniteSet(before(i)) /\ rank(i) <= n - 1
    BY <2>1, <2>2, FS_Subset
  <2>4. rank(i) \in Nat
    BY <2>3, FS_CardinalityType
  <2> QED
    BY <1>1, <2>3, <2>4
<1>3. ASSUME NEW i \in S, NEW k \in S, i # k, <<i, k>> \in lt PROVE rank(i) < rank(k)
  <2>1. before(i) \in SUBSET (before(k) \ {i})
    BY <1>3 DEF TotalOrder
  <2>2. i \in before(k)
    BY <1>3
  <2> HIDE DEF before
  <2>3. IsFiniteSet(before(k)) /\ rank(k) \in Nat /\ rank(i) \in Nat
    BY <1>2
  <2>4. IsFiniteSet(before(k) \ {i}) /\ Cardinality(before(k) \ {i}) = rank(k) - 1
    BY <2>2, <2>3, FS_RemoveElement
  <2>5. rank(i) <= rank(k) - 1
    BY <2>1, <2>4, FS_Subset
  <2> QED
    BY <2>3, <2>5
<1>4. \A i \in S : \A k \in S : rank(i) = rank(k) => i = k
  <2> SUFFICES ASSUME NEW i \in S, NEW k \in S, i # k PROVE rank(i) # rank(k)
    OBVIOUS
  <2>1. <<i, k>> \in lt \/ <<k, i>> \in lt
    BY DEF TotalOrder
  <2>2. rank(i) < rank(k) \/ rank(k) < rank(i)
    BY <1>3, <2>1
  <2>3. rank(i) \in Nat /\ rank(k) \in Nat
    BY <1>1, <1>2
  <2> HIDE DEF rank
  <2> QED
    BY <2>2, <2>3
<1> HIDE DEF rank
<1>9. \A i \in S : rank(i) \in 0 .. n - 1
  BY <1>2
<1>5. \A j \in 0 .. n - 1 : \E i \in S : rank(i) = j
  <2> DEFINE T == 0 .. n - 1
             f == [i \in S |-> rank(i)]
  <2>1. IsFiniteSet(T) /\ Cardinality(T) = n
    BY <1>1, FS_Interval
  <2>2. f \in Injection(S, T)
    BY <1>4, <1>9 DEF Injection, IsInjective
  <2>3. f \in Surjection(S, T)
    <3> HIDE DEF f, T
    <3> QED
      BY <2>1, <2>2, FS_Injection
  <2> QED
    BY <2>3 DEF Surjection
<1>6. ASSUME NEW m \in 1 .. n PROVE s[m] \in S /\ rank(s[m]) = m - 1
  <2>1. m - 1 \in 0 .. n - 1
    BY <1>1
  <2>2. \E i \in S : rank(i) = m - 1
    BY <1>5, <2>1
  <2>3. s[m] = CHOOSE i \in S : rank(i) = m - 1
    BY DEF Ranked, rank
  <2> QED
    BY <2>2, <2>3
<1> HIDE DEF s
<1>7. ASSUME NEW i \in S PROVE \E m \in 1 .. n : s[m] = i
  <2>1. rank(i) + 1 \in 1 .. n /\ (rank(i) + 1) - 1 = rank(i)
    BY <1>1, <1>9
  <2>2. s[rank(i) + 1] \in S /\ rank(s[rank(i) + 1]) = rank(i)
    BY <1>6, <2>1
  <2> QED
    BY <1>4, <2>1, <2>2
<1>8. ASSUME NEW m \in 1 .. n, NEW l \in 1 .. n, m < l PROVE s[m] # s[l] /\ <<s[m], s[l]>> \in lt
  <2>1. s[m] \in S /\ s[l] \in S /\ rank(s[m]) < rank(s[l])
    BY <1>1, <1>6, <1>8
  <2>2. s[m] # s[l]
    BY <1>1, <1>6, <1>8
  <2>3. <<s[l], s[m]>> \notin lt
    <3>1. <<s[l], s[m]>> \in lt => rank(s[l]) < rank(s[m])
      BY <1>3, <2>1, <2>2
    <3>2. rank(s[m]) \in Int /\ rank(s[l]) \in Int
      BY <1>1, <1>9, <2>1
    <3> QED
      BY <2>1, <3>1, <3>2
  <2> QED
    BY <2>1, <2>2, <2>3 DEF TotalOrder
<1>10. s \in [1 .. n -> S]
  <2> DEFINE member(m) == CHOOSE i \in S : Cardinality({k \in S \ {i} : <<k, i>> \in lt}) = m - 1
  <2>1. s = [m \in 1 .. n |-> member(m)]
    BY DEF s, Ranked
  <2> HIDE DEF member
  <2>2. s = [m \in 1 .. n |-> s[m]]
    BY <2>1
  <2> QED
    BY <1>6, <2>2
<1> QED
  BY <1>1, <1>6, <1>7, <1>8, <1>10 DEF s, RankedWell

\* The list s is of these documents, each of them, in this order.
ListsAll(s, ids, on, down, up) ==
    /\ s \in Seq(ids)
    /\ \A i \in ids : \E m \in DOMAIN s : s[m] = i
    /\ \A m, l \in DOMAIN s : m < l => /\ s[m] # s[l]
                                      /\ ComesBefore(s[m], s[l], on, down, up)
                                      /\ ~ComesBefore(s[l], s[m], on, down, up)

\* Documents that are sorted are all there, in their order.
LEMMA SortedLemma ==
    ASSUME docs \in Seq(Nat), NEW ids \in SUBSET Ids, NEW on, NEW down \in BOOLEAN, NEW up \in BOOLEAN
    PROVE  ListsAll(Sorted(ids, on, down, up), ids, on, down, up)
<1> DEFINE lt == {e \in ids \X ids : ComesBefore(e[1], e[2], on, down, up)}
           s == Sorted(ids, on, down, up)
<1>1. /\ ids \subseteq 1 .. Len(docs) /\ Len(docs) \in Nat /\ IsFiniteSet(ids)
      /\ \A i \in ids : i \in Nat /\ docs[i] \in Nat
  <2>1. Ids = 1 .. Len(docs) /\ Len(docs) \in Nat
    BY DEF Ids
  <2>2. IsFiniteSet(1 .. Len(docs))
    BY <2>1, FS_Interval
  <2>3. IsFiniteSet(ids)
    BY <2>1, <2>2, FS_Subset
  <2> QED
    BY <2>1, <2>3
<1>2. \A i \in ids : \A k \in ids : <<i, k>> \in lt <=> ComesBefore(i, k, on, down, up)
  OBVIOUS
<1> HIDE DEF lt
<1>3. ASSUME NEW i \in ids, NEW k \in ids, i # k
      PROVE  (<<i, k>> \in lt) <=> (<<k, i>> \notin lt)
  <2>1. i \in Nat /\ k \in Nat /\ docs[i] \in Nat /\ docs[k] \in Nat
    BY <1>1
  <2>2. ComesBefore(i, k, on, down, up) <=> ~ComesBefore(k, i, on, down, up)
    BY <1>3, <2>1 DEF ComesBefore
  <2> QED
    BY <1>2, <2>2
<1>4. ASSUME NEW i \in ids, NEW j \in ids, NEW k \in ids, i # j, j # k, i # k, <<i, j>> \in lt, <<j, k>> \in lt
      PROVE  <<i, k>> \in lt
  <2>1. /\ i \in Nat /\ j \in Nat /\ k \in Nat /\ docs[i] \in Nat /\ docs[j] \in Nat /\ docs[k] \in Nat
        /\ ComesBefore(i, j, on, down, up) /\ ComesBefore(j, k, on, down, up)
    BY <1>1, <1>2, <1>4
  <2>2. ComesBefore(i, k, on, down, up)
    BY <1>4, <2>1 DEF ComesBefore
  <2> QED
    BY <1>2, <2>2
<1>5. TotalOrder(ids, lt)
  BY <1>3, <1>4 DEF TotalOrder
<1>6. s = Ranked(ids, lt)
  <2>1. ASSUME NEW i \in ids
        PROVE  {k \in ids \ {i} : ComesBefore(k, i, on, down, up)} = {k \in ids \ {i} : <<k, i>> \in lt}
    BY <1>2
  <2> DEFINE member(n) == CHOOSE i \in ids : Cardinality({k \in ids \ {i} : ComesBefore(k, i, on, down, up)}) = n - 1
             ranked(n) == CHOOSE i \in ids : Cardinality({k \in ids \ {i} : <<k, i>> \in lt}) = n - 1
  <2>2. ASSUME NEW n PROVE member(n) = ranked(n)
    <3>1. \A i \in ids : Cardinality({k \in ids \ {i} : ComesBefore(k, i, on, down, up)}) = n - 1
                         <=> Cardinality({k \in ids \ {i} : <<k, i>> \in lt}) = n - 1
      BY <2>1
    <3> QED
      BY <3>1
  <2>3. s = [n \in 1 .. Cardinality(ids) |-> member(n)] /\ Ranked(ids, lt) = [n \in 1 .. Cardinality(ids) |-> ranked(n)]
    BY DEF Sorted, Ranked
  <2> HIDE DEF member, ranked, s
  <2> QED
    BY <2>2, <2>3
<1> HIDE DEF s
<1>7. /\ Cardinality(ids) \in Nat
      /\ s \in [1 .. Cardinality(ids) -> ids]
      /\ \A i \in ids : \E m \in 1 .. Cardinality(ids) : s[m] = i
      /\ \A m, l \in 1 .. Cardinality(ids) : m < l => s[m] # s[l] /\ <<s[m], s[l]>> \in lt
  <2> DEFINE w == Ranked(ids, lt)
  <2>1. /\ Cardinality(ids) \in Nat
        /\ w \in [1 .. Cardinality(ids) -> ids]
        /\ \A i \in ids : \E m \in 1 .. Cardinality(ids) : w[m] = i
        /\ \A m, l \in 1 .. Cardinality(ids) : m < l => w[m] # w[l] /\ <<w[m], w[l]>> \in lt
    <3>1. RankedWell(ids, lt)
      BY <1>1, <1>5, RankLemma
    <3> QED
      BY <3>1, Zenon DEF RankedWell
  <2> QED
    BY <1>6, <2>1, Zenon
<1>8. /\ s \in Seq(ids)
      /\ \A i \in ids : \E m \in DOMAIN s : s[m] = i
      /\ \A m, l \in DOMAIN s : m < l => s[m] # s[l] /\ <<s[m], s[l]>> \in lt
      /\ \A m \in DOMAIN s : s[m] \in ids
  <2>1. s \in Seq(ids)
    BY <1>7, SeqDef
  <2>2. DOMAIN s = 1 .. Cardinality(ids)
    BY <1>7
  <2> QED
    BY <1>7, <2>1, <2>2, Zenon
<1>9. \A m, l \in DOMAIN s : m < l => /\ ComesBefore(s[m], s[l], on, down, up)
                                      /\ ~ComesBefore(s[l], s[m], on, down, up)
  BY <1>2, <1>3, <1>8
<1> QED
  BY <1>8, <1>9 DEF s, ListsAll

\* Document i, of those with these ranks, is beyond the key: what each list filters by.
Beyond(ds, q, key, i) ==
    IF q.of = "txs" THEN IF q.reverse THEN i > key.id /\ ds[i] >= key.rank ELSE i < key.id /\ ds[i] <= key.rank
    ELSE IF q.of \in {"txsFrom", "grants", "inactive"} THEN IF q.reverse THEN i > key.id ELSE i < key.id
    ELSE IF q.of \in {"powerEvents", "owned", "assets"} THEN i < key.id
    ELSE IF q.of \in {"validators", "params"} THEN i > key.id
    ELSE IF q.of = "blocks" THEN ds[i] < key.rank
    ELSE IF q.of = "proposals" THEN IF q.reverse THEN ds[i] > key.rank ELSE ds[i] < key.rank
    ELSE IF q.of = "votes"
         THEN IF q.reverse THEN ds[i] > key.rank \/ (ds[i] = key.rank /\ i > key.id)
              ELSE ds[i] < key.rank \/ (ds[i] = key.rank /\ i < key.id)
    ELSE i <= key.id

\* What each list is sorted by, and whether down.
SortedBy(q) ==
    IF q.of \in {"params", "contracts"} THEN "id" ELSE IF q.of = "votes" THEN "rankId" ELSE "rank"

SortedDown(q) ==
    IF q.of = "params" THEN FALSE
    ELSE IF q.of \in {"txs", "txsFrom", "blocks", "votes", "proposals"} THEN ~q.reverse ELSE TRUE

\* The documents that a request asks for, and those in the order of the answer.
Wanted == {i \in Ids : cursor # <<>> => Beyond(docs, requested, Key, i)}
PageList(up) == Sorted(Wanted, SortedBy(requested), SortedDown(requested), up)

\* The requests there are.
PageRequest == [of : Endpoints, reverse : BOOLEAN, limit : 1 .. MaxLimit]

\* Every list is documents of one kind in one order, with a key made in one of three ways.
LEMMA AnswerLemma ==
    ASSUME requested \in PageRequest, NEW up \in BOOLEAN
    PROVE  Answer(up) = IF requested.of \in {"assets", "validators", "params"} THEN LastOfPage(PageList(up))
                        ELSE IF requested.of = "contracts"
                             THEN [page |-> FirstOf(PageList(up), requested.limit),
                                   next |-> IF Len(PageList(up)) <= requested.limit THEN 0
                                            ELSE PageList(up)[requested.limit + 1]]
                             ELSE Peek(PageList(up))
<1> DEFINE of == requested.of
<1>1. of \in Endpoints /\ requested.reverse \in BOOLEAN
  BY DEF PageRequest
<1>2. of \in {"txs", "txsFrom", "powerEvents", "blocks", "votes", "grants", "inactive", "owned",
              "assets", "validators", "params", "proposals", "contracts"}
  BY <1>1, PagingAssumption
<1>3. CASE of = "txs"
  <2>1. QueryTxs = Wanted
    BY <1>1, <1>3 DEF QueryTxs, AboveKey, BelowKey, From, Wanted, Beyond
  <2>2. SortedBy(requested) = "rank" /\ SortedDown(requested) = ~requested.reverse
    BY <1>3 DEF SortedBy, SortedDown
  <2> QED
    BY <1>3, <2>1, <2>2 DEF Answer, GetTxs, PageList
<1>4. CASE of = "txsFrom"
  <2>1. (IF requested.reverse THEN AboveKey ELSE BelowKey) = Wanted
    BY <1>1, <1>4 DEF AboveKey, BelowKey, From, Wanted, Beyond
  <2>2. SortedBy(requested) = "rank" /\ SortedDown(requested) = ~requested.reverse
    BY <1>4 DEF SortedBy, SortedDown
  <2> QED
    BY <1>4, <2>1, <2>2 DEF Answer, GetTxsFrom, PageList
<1>5. CASE of = "powerEvents"
  <2>1. BelowKey = Wanted
    BY <1>5 DEF BelowKey, From, Wanted, Beyond
  <2>2. SortedBy(requested) = "rank" /\ SortedDown(requested) = TRUE
    BY <1>5 DEF SortedBy, SortedDown
  <2> QED
    BY <1>5, <2>1, <2>2 DEF Answer, GetPowerEvent, PageList
<1>6. CASE of = "blocks"
  <2>1. From({i \in Ids : docs[i] < Key.rank}) = Wanted
    BY <1>6 DEF From, Wanted, Beyond
  <2>2. SortedBy(requested) = "rank" /\ SortedDown(requested) = ~requested.reverse
    BY <1>6 DEF SortedBy, SortedDown
  <2> QED
    BY <1>6, <2>1, <2>2 DEF Answer, GetBlocks, PageList
<1>7. CASE of = "votes"
  <2>1. From({i \in Ids : IF requested.reverse THEN docs[i] > Key.rank \/ (docs[i] = Key.rank /\ i > Key.id)
                          ELSE docs[i] < Key.rank \/ (docs[i] = Key.rank /\ i < Key.id)}) = Wanted
    BY <1>7 DEF From, Wanted, Beyond
  <2>2. SortedBy(requested) = "rankId" /\ SortedDown(requested) = ~requested.reverse
    BY <1>7 DEF SortedBy, SortedDown
  <2> QED
    BY <1>7, <2>1, <2>2 DEF Answer, GetVotes, PageList
<1>8. CASE of \in {"grants", "inactive"}
  <2>1. (IF requested.reverse THEN AboveKey ELSE BelowKey) = Wanted
    BY <1>1, <1>8 DEF AboveKey, BelowKey, From, Wanted, Beyond
  <2>2. SortedBy(requested) = "rank" /\ SortedDown(requested) = TRUE
    BY <1>8 DEF SortedBy, SortedDown
  <2> QED
    BY <1>8, <2>1, <2>2 DEF Answer, GetGrants, GetGrantsInactive, PageList
<1>9. CASE of \in {"owned", "assets"}
  <2>1. BelowKey = Wanted
    BY <1>9 DEF BelowKey, From, Wanted, Beyond
  <2>2. SortedBy(requested) = "rank" /\ SortedDown(requested) = TRUE
    BY <1>9 DEF SortedBy, SortedDown
  <2> QED
    BY <1>9, <2>1, <2>2 DEF Answer, GetByOwner, GetByContractType, PageList
<1>10. CASE of = "validators"
  <2>1. AboveKey = Wanted
    BY <1>10 DEF AboveKey, From, Wanted, Beyond
  <2>2. SortedBy(requested) = "rank" /\ SortedDown(requested) = TRUE
    BY <1>10 DEF SortedBy, SortedDown
  <2> QED
    BY <1>10, <2>1, <2>2 DEF Answer, GetValidators, PageList
<1>11. CASE of = "params"
  <2>1. AboveKey = Wanted
    BY <1>11 DEF AboveKey, From, Wanted, Beyond
  <2>2. SortedBy(requested) = "id" /\ SortedDown(requested) = FALSE
    BY <1>11 DEF SortedBy, SortedDown
  <2> QED
    BY <1>11, <2>1, <2>2 DEF Answer, GetParams, PageList
<1>12. CASE of = "proposals"
  <2>1. From({i \in Ids : IF requested.reverse THEN docs[i] > Key.rank ELSE docs[i] < Key.rank}) = Wanted
    BY <1>12 DEF From, Wanted, Beyond
  <2>2. SortedBy(requested) = "rank" /\ SortedDown(requested) = ~requested.reverse
    BY <1>12 DEF SortedBy, SortedDown
  <2> QED
    BY <1>12, <2>1, <2>2 DEF Answer, GetProposals, PageList
<1>13. CASE of = "contracts"
  <2>1. From({i \in Ids : i <= Key.id}) = Wanted
    BY <1>13 DEF From, Wanted, Beyond
  <2>2. SortedBy(requested) = "id" /\ SortedDown(requested) = TRUE
    BY <1>13 DEF SortedBy, SortedDown
  <2> QED
    BY <1>13, <2>1, <2>2 DEF Answer, GetContracts, PageList
<1> QED
  BY <1>2, <1>3, <1>4, <1>5, <1>6, <1>7, <1>8, <1>9, <1>10, <1>11, <1>12, <1>13

\* What the documents and a key are.
PageTypes ==
    /\ requested \in PageRequest
    /\ requested.reverse => requested.of \notin {"blocks", "grants", "inactive"}
    /\ docs \in Seq(Nat)
    /\ UniqueRanks(requested.of) => \A i, k \in Ids : i # k => docs[i] # docs[k]
    /\ atEnd \in BOOLEAN /\ first \in 0 .. Len(docs)
    /\ cursor = <<>> \/ (cursor = <<Key>> /\ Key.id \in Ids /\ Key.rank \in Nat)

\* The order of a document with all others agrees with the key.
Steady(i) == IF Keyed THEN i \notin touched ELSE touched = {} /\ Regular(i)

\* The key of a document.
KeyAt(x) == [id |-> x, rank |-> docs[x]]

\* Of documents that are listed those beyond one are those that come after it.
LEMMA OrderLemma ==
    ASSUME PageTypes, NEW up \in BOOLEAN, NEW x \in Ids, NEW i \in Ids, Steady(i)
    PROVE  Beyond(docs, requested, KeyAt(x), i)
             <=> IF x = i THEN requested.of = "contracts"
                          ELSE ComesBefore(x, i, SortedBy(requested), SortedDown(requested), up)
<1> DEFINE of == requested.of
<1>1. of \in Endpoints /\ requested.reverse \in BOOLEAN
  BY DEF PageRequest, PageTypes
<1>2. of \in {"txs", "txsFrom", "powerEvents", "blocks", "votes", "grants", "inactive", "owned",
              "assets", "validators", "params", "proposals", "contracts"}
  BY <1>1, PagingAssumption
<1>3. x \in Nat /\ i \in Nat /\ docs[x] \in Nat /\ docs[i] \in Nat
  BY DEF PageTypes, Ids
<1>4. KeyAt(x).id = x /\ KeyAt(x).rank = docs[x]
  BY DEF KeyAt
<1> HIDE DEF of
<1>5. CASE of \in {"votes", "params", "contracts"}
  BY <1>1, <1>3, <1>4, <1>5 DEF of, Beyond, ComesBefore, SortedBy, SortedDown
<1>6. CASE of \in {"blocks", "proposals"}
  <2>1. x # i => docs[x] # docs[i]
    BY <1>6 DEF of, PageTypes, UniqueRanks
  <2>2. of = "blocks" => ~requested.reverse
    BY DEF of, PageTypes
  <2> QED
    BY <1>1, <1>3, <1>4, <1>6, <2>1, <2>2 DEF of, Beyond, ComesBefore, SortedBy, SortedDown
<1>7. CASE of \notin {"votes", "params", "contracts", "blocks", "proposals"}
  <2>1. Regular(i)
    BY <1>7 DEF of, Steady, Keyed
  <2>2. InOrder(i, x)
    BY <2>1 DEF Regular
  <2>3. x # i => docs[x] # docs[i] /\ IF of = "validators" THEN i < x <=> docs[i] > docs[x]
                                                           ELSE i < x <=> docs[i] < docs[x]
    BY <2>2, <1>3 DEF of, InOrder
  <2>4. of \in {"grants", "inactive"} => ~requested.reverse
    BY DEF of, PageTypes
  <2> QED
    BY <1>1, <1>2, <1>3, <1>4, <1>7, <2>3, <2>4 DEF of, Beyond, ComesBefore, SortedBy, SortedDown
<1> QED
  BY <1>5, <1>6, <1>7

\* What is beyond a document that is beyond the key is beyond the key.
LEMMA BeyondLemma ==
    ASSUME PageTypes, cursor # <<>>, NEW x \in Ids, NEW i \in Ids,
           Beyond(docs, requested, Key, x), Beyond(docs, requested, KeyAt(x), i)
    PROVE  Beyond(docs, requested, Key, i)
<1>1. x \in Nat /\ i \in Nat /\ docs[x] \in Nat /\ docs[i] \in Nat /\ Key.id \in Nat /\ Key.rank \in Nat
  BY DEF PageTypes, Ids
<1>2. KeyAt(x).id = x /\ KeyAt(x).rank = docs[x]
  BY DEF KeyAt
<1> QED
  BY <1>1, <1>2 DEF Beyond

\* The first elements of a list.
LEMMA FirstLemma ==
    ASSUME NEW D, NEW s \in Seq(D), NEW n \in Nat
    PROVE  /\ Len(FirstOf(s, n)) = (IF n <= Len(s) THEN n ELSE Len(s))
           /\ \A m \in 1 .. Len(FirstOf(s, n)) : FirstOf(s, n)[m] = s[m]
           /\ \A i : i \in ToSet(FirstOf(s, n)) <=> \E m \in DOMAIN s : m <= n /\ i = s[m]
<1> DEFINE k == IF n <= Len(s) THEN n ELSE Len(s)
           t == FirstOf(s, n)
<1>1. k \in Nat /\ k <= Len(s) /\ DOMAIN s = 1 .. Len(s) /\ Len(s) \in Nat
  OBVIOUS
<1>2. t = SubSeq(s, 1, k)
  BY DEF FirstOf
<1> HIDE DEF k, t
<1>3. Len(t) = k /\ DOMAIN t = 1 .. k /\ \A m \in 1 .. k : t[m] = s[m]
  BY <1>1, <1>2
<1>4. \A m \in DOMAIN s : m <= n <=> m <= k
  BY <1>1 DEF k
<1>5. \A i : i \in ToSet(t) <=> \E m \in DOMAIN s : m <= n /\ i = s[m]
  <2>1. ToSet(t) = {t[m] : m \in 1 .. k}
    BY <1>3 DEF ToSet
  <2>2. ToSet(t) = {s[m] : m \in 1 .. k}
    BY <1>3, <2>1
  <2>3. \A m : m \in 1 .. k <=> m \in DOMAIN s /\ m <= n
    BY <1>1, <1>4
  <2> QED
    BY <2>2, <2>3
<1> QED
  BY <1>3, <1>5 DEF t, k

\* What a client gets: documents it asked for, all of them or all but those beyond the next key.
LEMMA PageLemma ==
    ASSUME PageTypes, NEW up \in BOOLEAN
    PROVE  /\ ToSet(Answer(up).page) \subseteq Wanted
           /\ Answer(up).next = 0 => Wanted \subseteq ToSet(Answer(up).page)
           /\ Answer(up).next # 0 =>
                 /\ Answer(up).next \in Wanted
                 /\ \A i \in Wanted : Steady(i) =>
                       (i \in ToSet(Answer(up).page) <=> ~Beyond(docs, requested, KeyAt(Answer(up).next), i))
<1> DEFINE on == SortedBy(requested)
           down == SortedDown(requested)
           s == PageList(up)
           n == requested.limit
           a == Answer(up)
           P == ToSet(a.page)
           beyond(x, i) == Beyond(docs, requested, KeyAt(x), i)
<1>1. requested \in PageRequest /\ n \in Nat /\ n > 0 /\ requested.reverse \in BOOLEAN /\ Ids \subseteq Nat \ {0}
  BY PagingAssumption DEF PageTypes, PageRequest, Ids
<1>2. down \in BOOLEAN /\ Wanted \in SUBSET Ids
  BY <1>1 DEF SortedDown, Wanted
<1> HIDE DEF on, down
<1>3. /\ s \in Seq(Wanted)
      /\ \A i \in Wanted : \E m \in DOMAIN s : s[m] = i
      /\ \A m, l \in DOMAIN s : m < l => /\ s[m] # s[l]
                                        /\ ComesBefore(s[m], s[l], on, down, up)
                                        /\ ~ComesBefore(s[l], s[m], on, down, up)
  <2>1. s = Sorted(Wanted, on, down, up) /\ docs \in Seq(Nat)
    BY DEF PageList, PageTypes, on, down
  <2> HIDE DEF s
  <2>2. ListsAll(s, Wanted, on, down, up)
    BY <1>2, <2>1, SortedLemma
  <2> QED
    BY <2>2 DEF ListsAll
<1>4. /\ a.page = FirstOf(s, n)
      /\ a.next = IF requested.of \in {"assets", "validators", "params"}
                  THEN (IF s = <<>> THEN 0 ELSE Last(FirstOf(s, n)))
                  ELSE IF Len(s) <= n THEN 0
                       ELSE s[IF requested.of = "contracts" THEN n + 1 ELSE n]
  BY <1>1, AnswerLemma DEF Peek, LastOfPage
<1>5. DOMAIN s = 1 .. Len(s) /\ Len(s) \in Nat /\ \A m \in DOMAIN s : s[m] \in Wanted /\ s[m] \in Nat \ {0} /\ s[m] \in Ids
  <2> HIDE DEF s
  <2>1. DOMAIN s = 1 .. Len(s) /\ Len(s) \in Nat /\ \A m \in DOMAIN s : s[m] \in Wanted
    BY <1>3
  <2> QED
    BY <1>1, <1>2, <2>1
<1> HIDE DEF s, a, n
<1>6. \A i : i \in P <=> \E m \in DOMAIN s : m <= n /\ i = s[m]
  BY <1>1, <1>3, <1>4, FirstLemma
<1>7. P \subseteq Wanted
  BY <1>5, <1>6
<1> HIDE DEF P
<1>8. \A m \in DOMAIN s : s[m] \in P <=> m <= n
  <2>1. \A m, l \in DOMAIN s : s[m] = s[l] => m = l
    BY <1>3, <1>5
  <2> QED
    BY <1>5, <1>6, <2>1
<1>9. a.next = 0 => Wanted \subseteq P
  <2> SUFFICES ASSUME a.next = 0, NEW i \in Wanted PROVE i \in P
    OBVIOUS
  <2>1. PICK m \in DOMAIN s : s[m] = i
    BY <1>3
  <2>2. s # <<>> /\ m \in 1 .. Len(s)
    BY <1>5, <2>1
  <2>3. Len(s) <= n
    <3>1. CASE requested.of \in {"assets", "validators", "params"}
      <4>1. Last(FirstOf(s, n)) = 0
        BY <1>4, <2>2, <3>1
      <4>2. Len(FirstOf(s, n)) \in 1 .. Len(s) /\ FirstOf(s, n)[Len(FirstOf(s, n))] = s[Len(FirstOf(s, n))]
        BY <1>1, <1>3, <1>5, <2>2, FirstLemma
      <4> QED
        BY <1>5, <4>1, <4>2 DEF Last
    <3>2. CASE requested.of \notin {"assets", "validators", "params"}
      <4> SUFFICES ASSUME ~(Len(s) <= n) PROVE FALSE
        OBVIOUS
      <4>1. n \in DOMAIN s /\ n + 1 \in DOMAIN s
        BY <1>1, <1>5
      <4> QED
        BY <1>4, <1>5, <3>2, <4>1
    <3> QED
      BY <3>1, <3>2
  <2> QED
    BY <1>1, <1>5, <1>8, <2>1, <2>2, <2>3
<1>10. ASSUME a.next # 0
       PROVE  \E p \in DOMAIN s : /\ a.next = s[p]
                                 /\ \A m \in DOMAIN s : m <= n <=> IF requested.of = "contracts" THEN m < p ELSE m <= p
  <2>1. CASE requested.of \in {"assets", "validators", "params"}
    <3> DEFINE p == Len(FirstOf(s, n))
    <3>1. s # <<>> /\ a.next = Last(FirstOf(s, n))
      BY <1>4, <1>10, <2>1
    <3>2. Len(s) > 0
      BY <1>3, <1>5, <3>1
    <3>3. p = (IF n <= Len(s) THEN n ELSE Len(s)) /\ \A m \in 1 .. p : FirstOf(s, n)[m] = s[m]
      BY <1>1, <1>3, FirstLemma
    <3>4. p \in DOMAIN s /\ FirstOf(s, n)[p] = s[p]
      BY <1>1, <1>5, <3>2, <3>3
    <3>5. \A m \in DOMAIN s : m <= n <=> m <= p
      BY <1>1, <1>5, <3>3
    <3> QED
      BY <2>1, <3>1, <3>4, <3>5 DEF Last
  <2>2. CASE requested.of \notin {"assets", "validators", "params"}
    <3> DEFINE p == IF requested.of = "contracts" THEN n + 1 ELSE n
    <3>1. ~(Len(s) <= n) /\ a.next = s[p]
      BY <1>4, <1>10, <2>2
    <3>2. p \in DOMAIN s /\ \A m \in DOMAIN s : m <= n <=> IF requested.of = "contracts" THEN m < p ELSE m <= p
      BY <1>1, <1>5, <3>1
    <3> QED
      BY <3>1, <3>2
  <2> QED
    BY <2>1, <2>2
<1>11. ASSUME a.next # 0
       PROVE  /\ a.next \in Wanted
              /\ \A i \in Wanted : Steady(i) => (i \in P <=> ~beyond(a.next, i))
  <2>1. PICK p \in DOMAIN s : /\ a.next = s[p]
                              /\ \A m \in DOMAIN s : m <= n <=> IF requested.of = "contracts" THEN m < p ELSE m <= p
    BY <1>10, <1>11
  <2>2. a.next \in Wanted /\ s[p] \in Ids
    BY <1>5, <2>1
  <2>3. ASSUME NEW i \in Wanted, Steady(i) PROVE i \in P <=> ~beyond(s[p], i)
    <3>1. PICK m \in DOMAIN s : s[m] = i
      BY <1>3
    <3>2. beyond(s[p], i) <=> IF s[p] = i THEN requested.of = "contracts" ELSE ComesBefore(s[p], i, on, down, up)
      BY <1>2, <2>2, <2>3, OrderLemma DEF on, down
    <3> HIDE DEF beyond
    <3>3. i \in P <=> IF requested.of = "contracts" THEN m < p ELSE m <= p
      BY <1>8, <2>1, <3>1
    <3>4. m \in Nat /\ p \in Nat
      BY <1>5
    <3>5. CASE m < p
      <4>1. s[m] # s[p] /\ ~ComesBefore(s[p], s[m], on, down, up)
        BY <1>3, <3>5
      <4> QED
        BY <3>1, <3>2, <3>3, <3>4, <3>5, <4>1
    <3>6. CASE m = p
      BY <3>1, <3>2, <3>3, <3>4, <3>6
    <3>7. CASE p < m
      <4>1. s[m] # s[p] /\ ComesBefore(s[p], s[m], on, down, up)
        BY <1>3, <3>7
      <4> QED
        BY <3>1, <3>2, <3>3, <3>4, <3>7, <4>1
    <3> QED
      BY <3>4, <3>5, <3>6, <3>7
  <2> HIDE DEF beyond
  <2> QED
    BY <2>1, <2>2, <2>3
<1> QED
  BY <1>7, <1>9, <1>11 DEF P, a

\* A document that is in order was returned, or is beyond the key; of those there were at the first request.
Whole(i) ==
    /\ i \notin twice
    /\ cursor # <<>> => /\ i \in received => ~Beyond(docs, requested, Key, i)
                        /\ i <= first /\ i \notin received => Beyond(docs, requested, Key, i)
    /\ atEnd /\ i <= first => i \in received

\* In any state each document in order is on the side of the key where it was.
PageInv ==
    /\ PageTypes
    /\ PagingTypeOK
    /\ (first = 0) <=> (cursor = <<>> /\ ~atEnd)
    /\ first = 0 => received = {} /\ touched = {}
    /\ \A i \in Ids : Steady(i) => Whole(i)

\* It holds at the start.
LEMMA InitPaging ==
    ASSUME Reversed \intersect {"blocks", "grants", "inactive"} = {}
    PROVE  PagingInit => PageInv
<1> SUFFICES ASSUME PagingInit PROVE PageInv
  OBVIOUS
<1>1. docs = <<>> /\ docs \in Seq(Nat) /\ Len(docs) = 0 /\ DOMAIN docs = {}
  BY DEF PagingInit
<1>2. PageTypes
  <2>1. Ids = {} /\ first = 0 /\ cursor = <<>> /\ atEnd = FALSE
    BY <1>1 DEF PagingInit, Ids
  <2>2. requested \in PageRequest /\ (requested.reverse => requested.of \notin {"blocks", "grants", "inactive"})
    BY DEF PagingInit, PageRequest
  <2>3. 0 \in 0 .. Len(docs)
    BY <1>1
  <2> QED
    BY <1>1, <2>1, <2>2, <2>3 DEF PageTypes
<1> QED
  BY <1>1, <1>2 DEF PagingInit, PageInv, PagingTypeOK, Ids

\* A document that is stored comes after the first request, if there was one, and was never returned.
LEMMA StoreDocStep ==
    ASSUME PageInv, NEW r \in Nat, StoreDoc(r)
    PROVE  PageInv'
<1>1. /\ docs \in Seq(Nat) /\ docs' = Append(docs, r) /\ requested' = requested /\ cursor' = cursor
      /\ atEnd' = atEnd /\ first' = first /\ received' = received /\ twice' = twice /\ touched' = touched
      /\ Key' = Key /\ first \in 0 .. Len(docs) /\ PageTypes /\ PagingTypeOK
  BY DEF StoreDoc, PageInv, PageTypes, Key
<1>2. /\ Ids = 1 .. Len(docs) /\ Ids' = 1 .. Len(docs) + 1 /\ Len(docs) \in Nat /\ docs' \in Seq(Nat)
      /\ Len(docs') = Len(docs) + 1 /\ docs'[Len(docs) + 1] = r /\ \A i \in Ids : docs'[i] = docs[i] /\ i \in Ids'
  BY <1>1 DEF Ids
<1>3. UniqueRanks(requested.of) => \A i, k \in Ids' : i # k => docs'[i] # docs'[k]
  <2>1. UniqueRanks(requested.of) => /\ \A i \in Ids : docs[i] # r
                                    /\ \A i, k \in Ids : i # k => docs[i] # docs[k]
    BY <1>1 DEF StoreDoc, PageTypes, Ids
  <2> QED
    BY <1>2, <2>1
<1>4. PageTypes'
  <2>1. first' \in 0 .. Len(docs')
    BY <1>1, <1>2
  <2>2. Key.id \in Ids => Key.id \in Ids'
    BY <1>2
  <2> QED
    BY <1>1, <1>2, <1>3, <2>1, <2>2 DEF PageTypes, PageRequest, UniqueRanks
<1>5. PagingTypeOK'
  BY <1>1, <1>2 DEF PagingTypeOK
<1>6. ASSUME NEW i \in Ids', Steady(i)' PROVE Whole(i)'
  <2>1. CASE i \in Ids
    <3>1. Regular(i)' => Regular(i)
      <4>1. ASSUME NEW k \in Ids, InOrder(i, k)' PROVE InOrder(i, k)
        BY <1>1, <1>2, <2>1, <4>1 DEF InOrder
      <4> QED
        BY <1>2, <4>1 DEF Regular
    <3>2. Steady(i)
      BY <1>1, <1>6, <3>1 DEF Steady, Keyed
    <3>3. Whole(i)
      BY <2>1, <3>2 DEF PageInv
    <3>4. Beyond(docs', requested', Key', i) <=> Beyond(docs, requested, Key, i)
      BY <1>1, <1>2, <2>1 DEF Beyond
    <3> QED
      BY <1>1, <3>3, <3>4 DEF Whole
  <2>2. CASE i \notin Ids
    <3>1. i = Len(docs) + 1 /\ ~(i <= first)
      BY <1>1, <1>2, <2>2
    <3>2. i \notin received /\ i \notin twice
      BY <1>1, <2>2 DEF PagingTypeOK
    <3> QED
      BY <1>1, <3>1, <3>2 DEF Whole
  <2> QED
    BY <2>1, <2>2
<1> QED
  BY <1>1, <1>4, <1>5, <1>6 DEF PageInv

\* A document that changes is noted, unless no page was asked for yet.
LEMMA ChangeDocStep ==
    ASSUME PageInv, NEW r \in Nat, NEW d \in Ids, ChangeDoc(d, r)
    PROVE  PageInv'
<1>1. /\ docs \in Seq(Nat) /\ docs' = [docs EXCEPT ![d] = r] /\ requested' = requested /\ cursor' = cursor
      /\ atEnd' = atEnd /\ first' = first /\ received' = received /\ twice' = twice
      /\ touched' = (IF first > 0 THEN touched \union {d} ELSE touched)
      /\ Key' = Key /\ first \in 0 .. Len(docs) /\ PageTypes /\ PagingTypeOK /\ MayChange(requested.of)
  BY DEF ChangeDoc, PageInv, PageTypes, Key
<1>2. /\ Ids' = Ids /\ docs' \in Seq(Nat) /\ Len(docs') = Len(docs) /\ \A i \in Ids : i # d => docs'[i] = docs[i]
  BY <1>1 DEF Ids
<1>3. PageTypes'
  BY <1>1, <1>2 DEF PageTypes, UniqueRanks, MayChange, PageRequest
<1>4. PagingTypeOK'
  BY <1>1, <1>2 DEF PagingTypeOK
<1>5. CASE first = 0
  <2>1. /\ cursor = <<>> /\ ~atEnd /\ received = {} /\ touched = {} /\ twice = {}
    BY <1>1, <1>5 DEF PageInv, PagingTypeOK
  <2>2. touched' = {}
    BY <1>1, <1>5, <2>1
  <2>3. \A i : Whole(i)'
    BY <1>1, <2>1 DEF Whole
  <2> QED
    BY <1>1, <1>3, <1>4, <1>5, <2>1, <2>2, <2>3 DEF PageInv
<1>6. CASE first > 0
  <2>1. touched' = touched \union {d}
    BY <1>1, <1>6
  <2>2. ASSUME NEW i \in Ids, Steady(i)' PROVE Whole(i)'
    <3>1. Keyed /\ i # d /\ i \notin touched
      BY <1>1, <2>1, <2>2 DEF Steady, Keyed
    <3>2. Whole(i)
      BY <3>1 DEF PageInv, Steady
    <3>3. Beyond(docs', requested', Key', i) <=> Beyond(docs, requested, Key, i)
      BY <1>1, <1>2, <3>1 DEF Beyond
    <3> QED
      BY <1>1, <3>2, <3>3 DEF Whole
  <2> QED
    BY <1>1, <1>2, <1>3, <1>4, <1>6, <2>2 DEF PageInv
<1> QED
  BY <1>1, <1>5, <1>6

\* An answer moves the key past what it holds, and past nothing else.
LEMMA AskPageStep ==
    ASSUME PageInv, NEW up \in BOOLEAN, AskPage(up)
    PROVE  PageInv'
<1> DEFINE a == Answer(up)
           P == ToSet(a.page)
<1>1. /\ PageTypes /\ PagingTypeOK /\ ~atEnd /\ docs # <<>> /\ docs' = docs /\ requested' = requested
      /\ touched' = touched /\ first' = (IF first = 0 THEN Len(docs) ELSE first)
      /\ received' = received \union P /\ twice' = twice \union (received \intersect P)
      /\ cursor' = (IF a.next = 0 THEN <<>> ELSE <<[id |-> a.next, rank |-> docs[a.next]]>>)
      /\ atEnd' = (a.next = 0)
  BY DEF AskPage, Receive, PageInv
<1>2. /\ P \subseteq Wanted
      /\ a.next = 0 => Wanted \subseteq P
      /\ a.next # 0 => /\ a.next \in Wanted
                       /\ \A i \in Wanted : Steady(i) =>
                             (i \in P <=> ~Beyond(docs, requested, KeyAt(a.next), i))
  BY <1>1, PageLemma
<1> HIDE DEF a, P
<1>3. /\ docs \in Seq(Nat) /\ Ids = 1 .. Len(docs) /\ Len(docs) \in Nat /\ Len(docs) > 0 /\ Ids' = Ids
      /\ first \in 0 .. Len(docs) /\ Wanted \subseteq Ids
  BY <1>1 DEF PageTypes, Ids, Wanted
<1>4. a.next # 0 => cursor' # <<>> /\ Key' = KeyAt(a.next) /\ cursor' = <<KeyAt(a.next)>> /\ a.next \in Ids /\ docs[a.next] \in Nat
  <2> SUFFICES ASSUME a.next # 0
               PROVE  /\ cursor' # <<>> /\ Key' = KeyAt(a.next) /\ cursor' = <<KeyAt(a.next)>>
                      /\ a.next \in Ids /\ docs[a.next] \in Nat
    OBVIOUS
  <2>1. a.next \in Ids /\ docs[a.next] \in Nat
    <3>1. a.next \in Ids
      BY <1>2, <1>3
    <3> QED
      BY <1>3, <3>1
  <2>2. cursor' = <<KeyAt(a.next)>>
    BY <1>1 DEF KeyAt
  <2>3. cursor' # <<>> /\ cursor'[1] = KeyAt(a.next)
    BY <2>2
  <2> QED
    BY <2>1, <2>2, <2>3 DEF Key
<1>5. PageTypes'
  <2>1. first' \in 0 .. Len(docs')
    BY <1>1, <1>3
  <2>2. KeyAt(a.next).id = a.next /\ KeyAt(a.next).rank = docs[a.next]
    BY DEF KeyAt
  <2>3. cursor' = <<>> \/ (cursor' = <<Key'>> /\ (Key.id)' \in Ids' /\ (Key.rank)' \in Nat)
    BY <1>1, <1>3, <1>4, <2>2
  <2> QED
    BY <1>1, <1>3, <2>1, <2>3 DEF PageTypes, PageRequest, UniqueRanks
<1>6. PagingTypeOK'
  <2>1. KeyAt(a.next).id = a.next
    BY DEF KeyAt
  <2> QED
    BY <1>1, <1>2, <1>3, <1>4, <2>1 DEF PagingTypeOK
<1>7. (first = 0) <=> (cursor = <<>>)
  BY <1>1 DEF PageInv
<1>8. ASSUME NEW i \in Ids, Steady(i) PROVE Whole(i)'
  <2>1. Whole(i)
    BY <1>8 DEF PageInv
  <2>2. first = 0 => received = {} /\ i \in Wanted /\ i <= first'
    BY <1>1, <1>3, <1>7, <1>8 DEF PageInv, Wanted
  <2>3. first # 0 => first' = first /\ (i \in Wanted <=> Beyond(docs, requested, Key, i))
    BY <1>1, <1>7, <1>8 DEF Wanted
  <2>4. i \in Wanted => i \notin received
    BY <1>7, <2>1, <2>2, <2>3 DEF Whole
  <2>5. i <= first' /\ i \notin received => i \in Wanted
    BY <1>7, <2>1, <2>2, <2>3 DEF Whole
  <2>6. i \notin twice'
    BY <1>1, <1>2, <2>1, <2>4 DEF Whole
  <2>7. CASE a.next = 0
    <3>1. cursor' = <<>>
      BY <1>1, <2>7
    <3>2. i <= first' => i \in received'
      BY <1>1, <1>2, <2>5, <2>7
    <3> QED
      BY <2>6, <3>1, <3>2 DEF Whole
  <2>8. CASE a.next # 0
    <3>1. i \notin Wanted => ~Beyond(docs, requested, KeyAt(a.next), i)
      <4> SUFFICES ASSUME i \notin Wanted, Beyond(docs, requested, KeyAt(a.next), i) PROVE FALSE
        OBVIOUS
      <4>1. cursor # <<>> /\ ~Beyond(docs, requested, Key, i)
        BY <1>8 DEF Wanted
      <4>2. Beyond(docs, requested, Key, a.next)
        BY <1>2, <2>8, <4>1 DEF Wanted
      <4> QED
        BY <1>1, <1>4, <1>8, <2>8, <4>1, <4>2, BeyondLemma
    <3>2. i \in received' => ~Beyond(docs, requested, KeyAt(a.next), i)
      BY <1>1, <1>2, <1>8, <2>4, <2>8, <3>1
    <3>3. i <= first' /\ i \notin received' => Beyond(docs, requested, KeyAt(a.next), i)
      BY <1>1, <1>2, <1>8, <2>5, <2>8
    <3>4. ~atEnd'
      BY <1>1, <2>8
    <3> QED
      BY <1>1, <1>4, <2>6, <2>8, <3>2, <3>3, <3>4 DEF Whole
  <2> QED
    BY <2>7, <2>8
<1>9. \A i \in Ids : Steady(i)' <=> Steady(i)
  <2>1. ASSUME NEW i \in Ids PROVE Regular(i)' <=> Regular(i)
    BY <1>1, <1>3 DEF Regular, InOrder
  <2> QED
    BY <1>1, <2>1 DEF Steady, Keyed
<1>10. first' # 0 /\ (cursor' = <<>> => atEnd')
  <2>1. first' # 0
    BY <1>1, <1>3
  <2>2. cursor' = <<>> => a.next = 0
    BY <1>4
  <2>3. a.next = 0 => atEnd'
    BY <1>1
  <2> QED
    BY <2>1, <2>2, <2>3
<1> QED
  BY <1>3, <1>5, <1>6, <1>8, <1>9, <1>10 DEF PageInv

\* Every step keeps the invariant.
LEMMA NextPaging == PageInv /\ [PagingNext]_pagingVars => PageInv'
<1> SUFFICES ASSUME PageInv, [PagingNext]_pagingVars PROVE PageInv'
  OBVIOUS
<1>1. 1 .. MaxRank \subseteq Nat
  BY PagingAssumption
<1>2. ASSUME NEW r \in 1 .. MaxRank, StoreDoc(r) PROVE PageInv'
  BY <1>1, <1>2, StoreDocStep
<1>3. ASSUME NEW r \in 1 .. MaxRank, NEW i \in Ids, ChangeDoc(i, r) PROVE PageInv'
  BY <1>1, <1>3, ChangeDocStep
<1>4. CASE AskNext
  BY <1>4, AskPageStep DEF AskNext
<1>5. CASE UNCHANGED pagingVars
  <2>1. /\ docs' = docs /\ requested' = requested /\ cursor' = cursor /\ atEnd' = atEnd /\ first' = first
        /\ received' = received /\ twice' = twice /\ touched' = touched
    BY <1>5 DEF pagingVars
  <2>2. PageTypes' /\ PagingTypeOK' /\ Ids' = Ids
    BY <2>1 DEF PageInv, PageTypes, PagingTypeOK, Ids, Key, UniqueRanks, PageRequest
  <2>3. \A i \in Ids : Steady(i)' => Steady(i)
    <3>1. ASSUME NEW i \in Ids, Regular(i)' PROVE Regular(i)
      BY <2>1, <2>2, <3>1 DEF Regular, InOrder
    <3> QED
      BY <2>1, <3>1 DEF Steady, Keyed
  <2>4. \A i \in Ids : Whole(i) => Whole(i)'
    BY <2>1 DEF Whole, Key
  <2> QED
    BY <2>1, <2>2, <2>3, <2>4 DEF PageInv
<1> QED
  BY <1>2, <1>3, <1>4, <1>5 DEF PagingNext

\* Who is at the end had the documents that are in order; keyed lists keep all in order that did not change.
LEMMA PageInvLemma == PageInv => PagesAreWhole
<1> SUFFICES ASSUME PageInv PROVE PagesAreWhole
  OBVIOUS
<1>1. PageTypes /\ PagingTypeOK /\ Ids = 1 .. Len(docs) /\ first \in 0 .. Len(docs) /\ Len(docs) \in Nat
  BY DEF PageInv, PageTypes, Ids
<1>2. \A i \in Ids : Steady(i) => i \notin twice /\ (atEnd /\ i <= first => i \in received)
  BY DEF PageInv, Whole
<1>3. NothingMissed
  BY <1>1, <1>2 DEF NothingMissed, Steady
<1>4. NothingTwice
  BY <1>1, <1>2 DEF NothingTwice, Steady, PagingTypeOK
<1>5. RegularIsListed
  <2> SUFFICES ASSUME touched = {}, NEW i \in Ids, Regular(i)
               PROVE  (atEnd /\ i <= first => i \in received) /\ i \notin twice
    BY DEF RegularIsListed
  <2>1. Steady(i)
    BY DEF Steady
  <2> QED
    BY <1>2, <2>1
<1> QED
  BY <1>1, <1>3, <1>4, <1>5 DEF PagesAreWhole

\* services/api-service: for any limit, documents and changes, who asks a list to its end has had each
\* document once, where the keys of the list allow it.  Blocks and grants read oldest first are left out:
\* what is filtered by their keys lies in the other direction.
THEOREM PagesComeWhole ==
    ASSUME Reversed \intersect {"blocks", "grants", "inactive"} = {}
    PROVE  PagingSpec => []PagesAreWhole
<1>1. PagingInit => PageInv
  BY InitPaging
<1>2. PageInv /\ [PagingNext]_pagingVars => PageInv'
  BY NextPaging
<1>3. PageInv => PagesAreWhole
  BY PageInvLemma
<1> QED
  BY <1>1, <1>2, <1>3, PTL DEF PagingSpec

-----------------------------------------------------------------------------
(* The archive of blocks and their transactions (ArchiveTxs).                  *)

\* No batch of a list has a block of another one.
Apart(s) == \A i, j \in DOMAIN s : i # j => s[i] \intersect s[j] = {}

\* The batches of a queue.
Batches(q) == [i \in DOMAIN q |-> q[i].data]

\* A batch apart from those of a list may follow them.
LEMMA ApartAppendLemma ==
    ASSUME NEW D, NEW s \in Seq(D), NEW d \in D, Apart(s), d \intersect UNION InFlight(s) = {}
    PROVE  Apart(Append(s, d))
<1>1. /\ DOMAIN Append(s, d) = 1 .. (Len(s) + 1)
      /\ \A i \in 1 .. Len(s) : Append(s, d)[i] = s[i]
      /\ Append(s, d)[Len(s) + 1] = d
      /\ DOMAIN s = 1 .. Len(s) /\ Len(s) \in Nat
  OBVIOUS
<1>2. \A i \in 1 .. Len(s) : s[i] \intersect d = {} /\ d \intersect s[i] = {}
  BY <1>1 DEF InFlight
<1>3. \A i \in 1 .. (Len(s) + 1) : i \in 1 .. Len(s) \/ i = Len(s) + 1
  BY <1>1
<1> QED
  BY <1>1, <1>2, <1>3 DEF Apart

\* The first batch is apart from those behind it.
LEMMA ApartTailLemma ==
    ASSUME NEW D, NEW s \in Seq(D), s # <<>>, Apart(s)
    PROVE  Apart(Tail(s)) /\ Head(s) \intersect UNION InFlight(Tail(s)) = {}
<1>1. /\ Head(s) = s[1] /\ Len(s) \in Nat /\ Len(s) >= 1
      /\ DOMAIN s = 1 .. Len(s)
      /\ DOMAIN Tail(s) = 1 .. (Len(s) - 1)
      /\ \A i \in 1 .. (Len(s) - 1) : Tail(s)[i] = s[i + 1]
  OBVIOUS
<1>2. \A i \in 1 .. (Len(s) - 1) : i + 1 \in DOMAIN s /\ i + 1 # 1
  BY <1>1
<1>3. \A i, j \in 1 .. (Len(s) - 1) : i # j => i + 1 # j + 1
  BY <1>1
<1>4. Apart(Tail(s))
  BY <1>1, <1>2, <1>3 DEF Apart
<1>5. \A i \in 1 .. (Len(s) - 1) : s[1] \intersect Tail(s)[i] = {}
  BY <1>1, <1>2 DEF Apart
<1> QED
  BY <1>1, <1>4, <1>5 DEF InFlight

\* The elements of two lists, one behind the other.
LEMMA ConcatLemma ==
    ASSUME NEW D, NEW s \in Seq(D), NEW t \in Seq(D)
    PROVE  /\ DOMAIN (s \o t) = 1 .. (Len(s) + Len(t))
           /\ \A i \in 1 .. Len(s) : (s \o t)[i] = s[i]
           /\ \A i \in 1 .. Len(t) : (s \o t)[Len(s) + i] = t[i]
OBVIOUS

\* So is any batch from the others.
LEMMA ApartRemoveLemma ==
    ASSUME NEW D, NEW s \in Seq(D), NEW i \in DOMAIN s, Apart(s)
    PROVE  Apart(RemoveAt(s, i)) /\ s[i] \intersect UNION InFlight(RemoveAt(s, i)) = {}
<1> DEFINE front == SubSeq(s, 1, i - 1)
           back  == SubSeq(s, i + 1, Len(s))
           other(j) == IF j < i THEN j ELSE j + 1
<1>0. DOMAIN s = 1 .. Len(s) /\ Len(s) \in Nat /\ i \in 1 .. Len(s)
  OBVIOUS
<1>a. /\ front \in Seq(D) /\ Len(front) = i - 1
      /\ \A j \in 1 .. (i - 1) : front[j] = s[j]
  BY <1>0
<1>b. /\ back \in Seq(D) /\ Len(back) = Len(s) - i
      /\ \A j \in 1 .. (Len(s) - i) : back[j] = s[i + j]
  BY <1>0
<1>1. RemoveAt(s, i) = front \o back
  BY DEF RemoveAt
<1> HIDE DEF front, back
<1>c. /\ DOMAIN (front \o back) = 1 .. (Len(front) + Len(back))
      /\ \A j \in 1 .. Len(front) : (front \o back)[j] = front[j]
      /\ \A j \in 1 .. Len(back) : (front \o back)[Len(front) + j] = back[j]
  <2>1. front \in Seq(D) /\ back \in Seq(D)
    BY <1>a, <1>b
  <2> QED
    BY <2>1, ConcatLemma
<1>2. DOMAIN RemoveAt(s, i) = 1 .. (Len(s) - 1)
  BY <1>0, <1>1, <1>a, <1>b, <1>c
<1>3. ASSUME NEW j \in 1 .. (Len(s) - 1)
      PROVE  RemoveAt(s, i)[j] = s[other(j)] /\ other(j) \in DOMAIN s /\ other(j) # i
  <2>1. CASE j < i
    <3>1. j \in 1 .. (i - 1)
      BY <1>0, <2>1
    <3>2. RemoveAt(s, i)[j] = front[j]
      BY <1>1, <1>a, <1>c, <3>1
    <3> QED
      BY <1>0, <1>a, <2>1, <3>1, <3>2
  <2>2. CASE ~(j < i)
    <3>1. j - (i - 1) \in 1 .. (Len(s) - i) /\ i + (j - (i - 1)) = j + 1
      BY <1>0, <2>2
    <3>2. RemoveAt(s, i)[j] = back[j - (i - 1)]
      <4>1. j - (i - 1) \in 1 .. Len(back) /\ Len(front) + (j - (i - 1)) = j
        BY <1>0, <1>a, <1>b, <2>2
      <4>2. (front \o back)[Len(front) + (j - (i - 1))] = back[j - (i - 1)]
        BY <1>c, <4>1
      <4>3. RemoveAt(s, i)[j] = (front \o back)[j]
        BY <1>1
      <4> QED
        BY <4>1, <4>2, <4>3
    <3>3. back[j - (i - 1)] = s[i + (j - (i - 1))]
      BY <1>b, <3>1
    <3>4. RemoveAt(s, i)[j] = s[j + 1]
      BY <3>1, <3>2, <3>3
    <3>5. j + 1 \in DOMAIN s /\ j + 1 # i
      BY <1>0, <2>2
    <3> QED
      BY <2>2, <3>4, <3>5
  <2> QED
    BY <2>1, <2>2
<1>4. \A j, k \in 1 .. (Len(s) - 1) : j # k => other(j) # other(k)
  BY <1>0
<1> HIDE DEF other
<1>5. Apart(RemoveAt(s, i))
  BY <1>2, <1>3, <1>4 DEF Apart
<1>6. \A j \in 1 .. (Len(s) - 1) : s[i] \intersect RemoveAt(s, i)[j] = {}
  BY <1>3 DEF Apart
<1> QED
  BY <1>2, <1>5, <1>6 DEF InFlight

\* The batches of a queue are those that wait; they come and go with its jobs.
LEMMA QueueBatchesLemma ==
    ASSUME NEW D, NEW q \in Seq(JobOf(D))
    PROVE  /\ Batches(q) \in Seq(D) /\ InFlight(Batches(q)) = Waiting(q)
           /\ \A d \in D : Batches(Add(q, d)) = Append(Batches(q), d)
           /\ q # <<>> => /\ Batches(q) # <<>>
                          /\ Batches(Tail(q)) = Tail(Batches(q))
                          /\ Head(Batches(q)) = Head(q).data
<1>1. DOMAIN q = 1 .. Len(q) /\ Len(q) \in Nat /\ \A i \in 1 .. Len(q) : q[i] \in JobOf(D)
  OBVIOUS
<1>2. \A i \in 1 .. Len(q) : q[i].data \in D
  BY <1>1 DEF JobOf
<1>3. Batches(q) \in [1 .. Len(q) -> D] /\ \A i \in 1 .. Len(q) : Batches(q)[i] = q[i].data
  BY <1>1, <1>2 DEF Batches
<1>4. Batches(q) \in Seq(D) /\ Len(Batches(q)) = Len(q) /\ DOMAIN Batches(q) = 1 .. Len(q)
  BY <1>1, <1>3
<1>5. InFlight(Batches(q)) = Waiting(q)
  BY <1>1, <1>3, <1>4 DEF InFlight, Waiting
<1>6. ASSUME NEW d \in D PROVE Batches(Add(q, d)) = Append(Batches(q), d)
  <2>1. NewJob(d) \in JobOf(D) /\ NewJob(d).data = d
    BY DEF NewJob, JobOf
  <2>2. /\ DOMAIN Append(q, NewJob(d)) = 1 .. (Len(q) + 1)
        /\ \A i \in 1 .. Len(q) : Append(q, NewJob(d))[i] = q[i]
        /\ Append(q, NewJob(d))[Len(q) + 1] = NewJob(d)
    BY <2>1
  <2>3. /\ Append(Batches(q), d) \in Seq(D)
        /\ DOMAIN Append(Batches(q), d) = 1 .. (Len(q) + 1)
        /\ \A i \in 1 .. Len(q) : Append(Batches(q), d)[i] = q[i].data
        /\ Append(Batches(q), d)[Len(q) + 1] = d
    BY <1>3, <1>4
  <2>4. \A i \in 1 .. (Len(q) + 1) : i \in 1 .. Len(q) \/ i = Len(q) + 1
    BY <1>1
  <2>5. /\ DOMAIN Batches(Add(q, d)) = 1 .. (Len(q) + 1)
        /\ \A i \in 1 .. (Len(q) + 1) : Batches(Add(q, d))[i] = Append(q, NewJob(d))[i].data
    BY <2>2 DEF Batches, Add
  <2>6. \A i \in 1 .. (Len(q) + 1) : Batches(Add(q, d))[i] = Append(Batches(q), d)[i]
    BY <2>1, <2>2, <2>3, <2>4, <2>5
  <2>7. Batches(Add(q, d)) = [i \in DOMAIN Batches(Add(q, d)) |-> Batches(Add(q, d))[i]]
    BY DEF Batches
  <2> QED
    BY <2>3, <2>5, <2>6, <2>7
<1>7. ASSUME q # <<>>
      PROVE  /\ Batches(q) # <<>> /\ Batches(Tail(q)) = Tail(Batches(q))
             /\ Head(Batches(q)) = Head(q).data
  <2>1. /\ Len(q) >= 1 /\ Head(q) = q[1]
        /\ DOMAIN Tail(q) = 1 .. (Len(q) - 1)
        /\ \A i \in 1 .. (Len(q) - 1) : Tail(q)[i] = q[i + 1]
    BY <1>1, <1>7
  <2>2. Batches(q) # <<>> /\ Head(Batches(q)) = Batches(q)[1]
    BY <1>4, <2>1
  <2>3. /\ Tail(Batches(q)) \in Seq(D)
        /\ DOMAIN Tail(Batches(q)) = 1 .. (Len(q) - 1)
        /\ \A i \in 1 .. (Len(q) - 1) : Tail(Batches(q))[i] = Batches(q)[i + 1]
    BY <1>4, <2>1, <2>2
  <2>4. /\ DOMAIN Batches(Tail(q)) = 1 .. (Len(q) - 1)
        /\ \A i \in 1 .. (Len(q) - 1) : Batches(Tail(q))[i] = q[i + 1].data
    BY <2>1 DEF Batches
  <2>5. \A i \in 1 .. (Len(q) - 1) : Batches(Tail(q))[i] = Tail(Batches(q))[i]
    BY <1>1, <1>3, <2>1, <2>3, <2>4
  <2>6. Batches(Tail(q)) = [i \in DOMAIN Batches(Tail(q)) |-> Batches(Tail(q))[i]]
    BY DEF Batches
  <2>7. Batches(Tail(q)) = Tail(Batches(q))
    BY <2>3, <2>4, <2>5, <2>6
  <2>8. Head(Batches(q)) = Head(q).data
    BY <1>3, <2>1, <2>2
  <2> QED
    BY <2>2, <2>7, <2>8
<1> QED
  BY <1>4, <1>5, <1>6, <1>7

\* One handler at a time, and no crash yet.
Alone == Cardinality(Movers) = 1 /\ moverCrashes = 0 /\ archiverCrashes = 0

\* Then a block is copied once: the copies on their way are of different blocks, none of which is archived, and
\* the block is still there only while its handler awaits the delete.
CopiedOnce ==
    /\ lostCopies = {} /\ refusedCopies = {}
    /\ Apart(insertSends) /\ Apart(Batches(insertQueue)) /\ Apart(inserting)
    /\ (UNION InFlight(insertSends)) \intersect (UNION Waiting(insertQueue)) = {}
    /\ (UNION InFlight(insertSends)) \intersect (UNION InFlight(inserting)) = {}
    /\ (UNION Waiting(insertQueue)) \intersect (UNION InFlight(inserting)) = {}
    /\ Copies \intersect Archived = {}
    /\ \A m \in Movers : (Copies \union Archived) \intersect blocks \subseteq mover[m].batch

LEMMA InitAlone == ArchiveBlocksInit => CopiedOnce
<1> SUFFICES ASSUME ArchiveBlocksInit PROVE CopiedOnce
  OBVIOUS
<1>1. /\ insertSends = <<>> /\ insertQueue = <<>> /\ inserting = <<>> /\ archive = {}
      /\ lostCopies = {} /\ refusedCopies = {}
  BY DEF ArchiveBlocksInit
<1>2. Copies = {} /\ Archived = {}
  BY <1>1, EmptyLemma DEF Copies, Archived
<1>3. Apart(insertSends) /\ Apart(Batches(insertQueue)) /\ Apart(inserting)
  <2>1. DOMAIN <<>> = {}
    OBVIOUS
  <2> QED
    BY <1>1, <2>1 DEF Apart, Batches
<1>4. InFlight(insertSends) = {} /\ InFlight(inserting) = {} /\ Waiting(insertQueue) = {}
  BY <1>1, EmptyLemma
<1> QED
  BY <1>1, <1>2, <1>3, <1>4 DEF CopiedOnce

\* A handler that runs alone copies what it did not copy before.
LEMMA AloneCopies ==
    ASSUME BlocksTypeOK, Cardinality(Movers) = 1, CopiedOnce, NEW m \in Movers, CopyOldest(m)
    PROVE  CopiedOnce'
<1> DEFINE oldest == Oldest(blocks)
           old == {h \in oldest : IsOld(h)}
<1>1. old \subseteq blocks /\ old \in SUBSET Heights
  BY DEF Oldest, BlocksTypeOK
<1>2. /\ mover[m] = IdleMover
      /\ IF old = {} THEN UNCHANGED <<mover, insertSends>>
         ELSE /\ mover' = [mover EXCEPT ![m] = [batch |-> old, again |-> old = oldest]]
              /\ insertSends' = Append(insertSends, old)
      /\ blocks' = blocks /\ insertQueue' = insertQueue /\ lostCopies' = lostCopies
      /\ inserting' = inserting /\ archive' = archive /\ refusedCopies' = refusedCopies
  BY DEF CopyOldest, archiverVars
<1> DEFINE work == [batch |-> old, again |-> old = oldest]
<1>3. work.batch = old
  OBVIOUS
<1>4. Archived' = Archived
  BY <1>2 DEF Archived
<1> HIDE DEF work, old
<1>5. CASE old = {}
  BY <1>2, <1>4, <1>5 DEF CopiedOnce, Copies
<1>6. CASE old # {}
  <2>1. mover' = [mover EXCEPT ![m] = work] /\ insertSends' = Append(insertSends, old)
    BY <1>2, <1>6 DEF work
  <2>2. mover[m].batch = {}
    BY <1>2 DEF IdleMover
  <2>3. old \intersect (Copies \union Archived) = {}
    BY <1>1, <2>2 DEF CopiedOnce
  <2>4. /\ insertSends \in Seq(SUBSET Heights)
        /\ InFlight(insertSends') = InFlight(insertSends) \union {old}
    BY <1>1, <2>1, BatchesLemma, SendOneLemma
  <2>5. Copies' = Copies \union old
    BY <1>2, <2>4 DEF Copies
  <2>6. Apart(insertSends')
    <3>1. old \intersect UNION InFlight(insertSends) = {} /\ Apart(insertSends)
      BY <2>3 DEF Copies, CopiedOnce
    <3> QED
      BY <1>1, <2>1, <2>4, <3>1, ApartAppendLemma
  <2>7. (UNION InFlight(insertSends')) = (UNION InFlight(insertSends)) \union old
    BY <2>4
  <2>8. old \intersect (UNION Waiting(insertQueue)) = {} /\ old \intersect (UNION InFlight(inserting)) = {}
    BY <2>3 DEF Copies
  <2>9. \A n \in Movers : n = m
    BY ArchiveAssumption, FS_Singleton
  <2>10. mover'[m].batch = old
    BY <1>3, <2>1 DEF BlocksTypeOK
  <2>11. (Copies' \union Archived') \intersect blocks' \subseteq old
    BY <1>2, <1>4, <2>2, <2>5 DEF CopiedOnce
  <2> QED
    BY <1>2, <1>4, <2>3, <2>5, <2>6, <2>7, <2>8, <2>9, <2>10, <2>11 DEF CopiedOnce
<1> QED
  BY <1>5, <1>6

\* What is deleted is what was copied.
LEMMA AloneDeletes ==
    ASSUME BlocksTypeOK, Cardinality(Movers) = 1, CopiedOnce, NEW m \in Movers, DeleteOldest(m)
    PROVE  CopiedOnce'
<1>1. /\ blocks' = blocks \ mover[m].batch
      /\ insertSends' = insertSends /\ insertQueue' = insertQueue /\ lostCopies' = lostCopies
      /\ inserting' = inserting /\ archive' = archive /\ refusedCopies' = refusedCopies
  BY DEF DeleteOldest, archiverVars
<1>2. Copies' = Copies /\ Archived' = Archived
  BY <1>1, CopiesStayLemma
<1>3. (Copies' \union Archived') \intersect blocks' = {}
  BY <1>1, <1>2 DEF CopiedOnce
<1> QED
  BY <1>1, <1>2, <1>3 DEF CopiedOnce

\* A job that lands takes its batch from one list to another.
LEMMA AloneLands ==
    ASSUME BlocksTypeOK, CopiedOnce, InsertJobLands
    PROVE  CopiedOnce'
<1> DEFINE oldestSent == Head(insertSends)
<1>1. /\ insertSends # <<>>
      /\ insertQueue' = Add(insertQueue, oldestSent) /\ insertSends' = Tail(insertSends)
      /\ blocks' = blocks /\ mover' = mover /\ lostCopies' = lostCopies
      /\ inserting' = inserting /\ archive' = archive /\ refusedCopies' = refusedCopies
  BY DEF InsertJobLands, archiverVars
<1>2. /\ insertSends \in Seq(SUBSET Heights) /\ insertQueue \in Seq(JobOf(SUBSET Heights))
      /\ inserting \in Seq(SUBSET Heights)
  BY BatchesLemma
<1>3. /\ oldestSent \in SUBSET Heights /\ Tail(insertSends) \in Seq(SUBSET Heights)
      /\ InFlight(insertSends) = {oldestSent} \union InFlight(Tail(insertSends))
  BY <1>1, <1>2, ArriveLemma
<1>4. Apart(Tail(insertSends)) /\ oldestSent \intersect UNION InFlight(Tail(insertSends)) = {}
  BY <1>1, <1>2, ApartTailLemma DEF CopiedOnce
<1> HIDE DEF oldestSent
<1>5. Waiting(insertQueue') = Waiting(insertQueue) \union {oldestSent}
  <2>1. \A d \in SUBSET Heights : Waiting(Add(insertQueue, d)) = Waiting(insertQueue) \union {d}
    BY <1>2, AddLemma
  <2> QED
    BY <1>1, <1>3, <2>1
<1>6. Apart(Batches(insertQueue'))
  <2>1. /\ Batches(insertQueue) \in Seq(SUBSET Heights) /\ InFlight(Batches(insertQueue)) = Waiting(insertQueue)
        /\ Batches(insertQueue') = Append(Batches(insertQueue), oldestSent)
    BY <1>1, <1>2, <1>3, QueueBatchesLemma
  <2>2. oldestSent \intersect UNION Waiting(insertQueue) = {} /\ Apart(Batches(insertQueue))
    BY <1>3 DEF CopiedOnce
  <2> QED
    BY <1>3, <2>1, <2>2, ApartAppendLemma
<1>7. /\ UNION InFlight(insertSends) = oldestSent \union UNION InFlight(insertSends')
      /\ UNION Waiting(insertQueue') = oldestSent \union UNION Waiting(insertQueue)
  BY <1>1, <1>3, <1>5
<1>8. Copies' = Copies /\ Archived' = Archived
  BY <1>1, <1>7 DEF Copies, Archived
<1> QED
  BY <1>1, <1>4, <1>6, <1>7, <1>8 DEF CopiedOnce

\* So does a job that starts.
LEMMA AloneStarts ==
    ASSUME BlocksTypeOK, CopiedOnce, StartInsert
    PROVE  CopiedOnce'
<1> DEFINE oldestSent == Head(insertQueue).data
<1>1. /\ insertQueue # <<>>
      /\ inserting' = Append(inserting, oldestSent) /\ insertQueue' = Tail(insertQueue)
      /\ blocks' = blocks /\ mover' = mover /\ lostCopies' = lostCopies
      /\ insertSends' = insertSends /\ archive' = archive /\ refusedCopies' = refusedCopies
  BY DEF StartInsert, moverVars
<1>2. /\ insertSends \in Seq(SUBSET Heights) /\ insertQueue \in Seq(JobOf(SUBSET Heights))
      /\ inserting \in Seq(SUBSET Heights)
  BY BatchesLemma
<1>3. /\ oldestSent \in SUBSET Heights /\ Tail(insertQueue) \in Seq(JobOf(SUBSET Heights))
      /\ Waiting(insertQueue) = {oldestSent} \union Waiting(Tail(insertQueue))
  BY <1>1, <1>2, TakeLemma
<1>4. /\ Batches(insertQueue) \in Seq(SUBSET Heights) /\ Batches(insertQueue) # <<>>
      /\ Batches(Tail(insertQueue)) = Tail(Batches(insertQueue))
      /\ Head(Batches(insertQueue)) = oldestSent
      /\ InFlight(Batches(Tail(insertQueue))) = Waiting(Tail(insertQueue))
  BY <1>1, <1>2, <1>3, QueueBatchesLemma
<1> HIDE DEF oldestSent
<1>5. Apart(Batches(insertQueue')) /\ oldestSent \intersect UNION Waiting(insertQueue') = {}
  <2>1. Apart(Batches(insertQueue))
    BY DEF CopiedOnce
  <2>2. /\ Apart(Tail(Batches(insertQueue)))
        /\ Head(Batches(insertQueue)) \intersect UNION InFlight(Tail(Batches(insertQueue))) = {}
    BY <1>4, <2>1, ApartTailLemma
  <2> QED
    BY <1>1, <1>4, <2>2
<1>6. InFlight(inserting') = InFlight(inserting) \union {oldestSent}
  BY <1>1, <1>2, <1>3, SendOneLemma
<1>7. Apart(inserting')
  <2>1. oldestSent \intersect UNION InFlight(inserting) = {} /\ Apart(inserting)
    BY <1>3 DEF CopiedOnce
  <2> QED
    BY <1>1, <1>2, <1>3, <2>1, ApartAppendLemma
<1>8. /\ UNION Waiting(insertQueue) = oldestSent \union UNION Waiting(insertQueue')
      /\ UNION InFlight(inserting') = oldestSent \union UNION InFlight(inserting)
  BY <1>1, <1>3, <1>6
<1>9. Copies' = Copies /\ Archived' = Archived
  BY <1>1, <1>8 DEF Copies, Archived
<1> QED
  BY <1>1, <1>5, <1>7, <1>8, <1>9 DEF CopiedOnce

\* What is stored is no longer on its way; nothing is refused.
LEMMA AloneInserts ==
    ASSUME BlocksTypeOK, CopiedOnce, NEW i \in DOMAIN inserting
    PROVE  /\ ~RefuseCopies(i)
           /\ InsertCopies(i) => CopiedOnce'
<1> DEFINE batch == inserting[i]
<1>1. /\ inserting \in Seq(SUBSET Heights)
      /\ InFlight(inserting) = InFlight(RemoveAt(inserting, i)) \union {batch}
  BY BatchesLemma, RemoveLemma
<1>2. Apart(RemoveAt(inserting, i)) /\ batch \intersect UNION InFlight(RemoveAt(inserting, i)) = {}
  BY <1>1, ApartRemoveLemma DEF CopiedOnce
<1>3. ~RefuseCopies(i)
  <2>1. batch \subseteq Copies
    BY <1>1 DEF Copies
  <2> QED
    BY <2>1 DEF CopiedOnce, RefuseCopies
<1>4. ASSUME InsertCopies(i) PROVE CopiedOnce'
  <2>1. /\ archive' = archive \union {CopyOf(h) : h \in batch}
        /\ inserting' = RemoveAt(inserting, i)
        /\ insertSends' = insertSends /\ insertQueue' = insertQueue /\ blocks' = blocks /\ mover' = mover
        /\ lostCopies' = lostCopies /\ refusedCopies' = refusedCopies
    BY <1>4 DEF InsertCopies, moverVars
  <2> HIDE DEF batch
  <2>2. Archived' = Archived \union batch
    BY <2>1, ArchivedLemma
  <2>3. UNION InFlight(inserting) = batch \union UNION InFlight(inserting')
    BY <1>1, <2>1
  <2>4. Copies = Copies' \union batch
    BY <2>1, <2>3 DEF Copies
  <2>5. Copies' \intersect batch = {}
    BY <1>2, <2>1, <2>3 DEF Copies, CopiedOnce
  <2> QED
    BY <1>2, <2>1, <2>2, <2>3, <2>4, <2>5 DEF CopiedOnce
<1> QED
  BY <1>3, <1>4

AloneInv ==
    /\ BlocksInv
    /\ moverCrashes \in Nat /\ archiverCrashes \in Nat
    /\ Alone => CopiedOnce

LEMMA InitAloneInv == ArchiveBlocksInit => AloneInv
<1> SUFFICES ASSUME ArchiveBlocksInit PROVE AloneInv
  OBVIOUS
<1>1. moverCrashes \in Nat /\ archiverCrashes \in Nat
  BY DEF ArchiveBlocksInit
<1> QED
  BY <1>1, InitBlocksInv, InitAlone DEF AloneInv

\* So it is step by step while nobody crashes.
LEMMA NextAlone ==
    ASSUME AloneInv, Alone', [BlocksNext]_blockArchiveVars
    PROVE  CopiedOnce'
<1>1. BlocksTypeOK /\ Cardinality(Movers) = 1
  BY DEF Alone, AloneInv, BlocksInv
<1>2. moverCrashes' = 0 /\ archiverCrashes' = 0 /\ moverCrashes \in Nat /\ archiverCrashes \in Nat
  BY DEF Alone, AloneInv
<1>3. ~CrashMover /\ ~CrashArchiver
  BY <1>2 DEF CrashMover, CrashArchiver
<1>4. moverCrashes' = moverCrashes /\ archiverCrashes' = archiverCrashes
  BY <1>3 DEF BlocksNext, MoverNext, ArchiverNext, NewDay, CronMoveBlock, CopyOldest, DeleteOldest, InsertJobLands,
              MoveTxJobLands, StartInsert, InsertCopies, RefuseCopies, blockArchiveVars, moverVars, archiverVars
<1>5. CopiedOnce
  BY <1>1, <1>2, <1>4 DEF Alone, AloneInv
<1>6. ASSUME UNCHANGED <<blocks, mover, insertSends, insertQueue, inserting, archive, lostCopies, refusedCopies>>
      PROVE  CopiedOnce'
  <2>1. Copies' = Copies /\ Archived' = Archived
    BY <1>6, CopiesStayLemma
  <2> QED
    BY <1>5, <1>6, <2>1 DEF CopiedOnce
<1>7. ASSUME NewDay \/ CronMoveBlock \/ MoveTxJobLands \/ UNCHANGED blockArchiveVars
      PROVE  CopiedOnce'
  BY <1>6, <1>7 DEF NewDay, CronMoveBlock, MoveTxJobLands, blockArchiveVars, moverVars, archiverVars
<1>8. ASSUME NEW m \in Movers, CopyOldest(m) PROVE CopiedOnce'
  BY <1>1, <1>5, <1>8, AloneCopies
<1>9. ASSUME NEW m \in Movers, DeleteOldest(m) PROVE CopiedOnce'
  BY <1>1, <1>5, <1>9, AloneDeletes
<1>10. ASSUME InsertJobLands PROVE CopiedOnce'
  BY <1>1, <1>5, <1>10, AloneLands
<1>11. ASSUME StartInsert PROVE CopiedOnce'
  BY <1>1, <1>5, <1>11, AloneStarts
<1>12. ASSUME NEW i \in DOMAIN inserting, InsertCopies(i) \/ RefuseCopies(i) PROVE CopiedOnce'
  BY <1>1, <1>5, <1>12, AloneInserts
<1> QED
  BY <1>3, <1>7, <1>8, <1>9, <1>10, <1>11, <1>12 DEF BlocksNext, MoverNext, ArchiverNext

LEMMA NextAloneInv == AloneInv /\ [BlocksNext]_blockArchiveVars => AloneInv'
<1> SUFFICES ASSUME AloneInv, [BlocksNext]_blockArchiveVars PROVE AloneInv'
  OBVIOUS
<1>1. BlocksInv'
  BY NextBlocksInv DEF AloneInv
<1>2. moverCrashes' \in {moverCrashes, moverCrashes + 1} /\ archiverCrashes' \in {archiverCrashes, archiverCrashes + 1}
  <2>1. CASE CrashMover
    BY <2>1 DEF CrashMover, archiverVars
  <2>2. CASE CrashArchiver
    BY <2>2 DEF CrashArchiver, moverVars
  <2>3. ASSUME ~CrashMover, ~CrashArchiver PROVE moverCrashes' = moverCrashes /\ archiverCrashes' = archiverCrashes
    BY <2>3 DEF BlocksNext, MoverNext, ArchiverNext, NewDay, CronMoveBlock, CopyOldest, DeleteOldest, InsertJobLands,
                MoveTxJobLands, StartInsert, InsertCopies, RefuseCopies, blockArchiveVars, moverVars, archiverVars
  <2> QED
    BY <2>1, <2>2, <2>3
<1>3. moverCrashes \in Nat /\ archiverCrashes \in Nat
  BY DEF AloneInv
<1>4. moverCrashes' \in Nat /\ archiverCrashes' \in Nat
  BY <1>2, <1>3
<1> QED
  BY <1>1, <1>4, NextAlone DEF AloneInv

\* A run of the callback of move.tx.
MoveRun == [height : Heights, copied : BOOLEAN, batch : SUBSET ArchiveTxIds]

\* What the variables are.
TxTypes ==
    /\ moving \in Seq(MoveRun)
    /\ txInsertSends \in Seq(SUBSET ArchiveTxIds) /\ txInserting \in Seq(SUBSET ArchiveTxIds)
    /\ txInsertQueue \in Seq(JobOf(SUBSET ArchiveTxIds))
    /\ liveTxs \subseteq ArchiveTxIds /\ lateTxs \subseteq ArchiveTxIds /\ txArchive \subseteq ArchiveTxIds

\* The heights whose transactions are to move, and those whose callback runs.
Handed == (UNION InFlight(moveTxSends)) \union (UNION Waiting(moveTxQueue))
Runs == InFlight(moving)
MovedHeights == Handed \union {r.height : r \in Runs}

\* A transaction that was sent to the archive.
Sent == TxCopies \union txArchive \union lostTxCopies

\* A height is handed to move.tx when its block is gone.
LeftFirst == MovedHeights \intersect blocks = {}

\* What a callback is about to delete was sent.
SentFirst == \A r \in Runs : r.batch \subseteq Sent

TxsInv ==
    /\ BlocksInv
    /\ TxTypes
    /\ LeftFirst
    /\ SentFirst
    /\ NoTxVanishes
    /\ BlockGoesFirst

\* What a step of these services may do: a transaction leaves its collection once it was sent, it is sent
\* when its block is gone, archived from a copy only, and a copy that is lost leaves a trace.
TxsMove ==
    /\ blocks' = blocks
    /\ (lateTxs \union liveTxs) \subseteq (lateTxs' \union liveTxs' \union Sent)
    /\ txArchive' \subseteq txArchive \union TxCopies
    /\ \A t \in TxCopies' : t \in TxCopies \/ HeightOf[t] \notin blocks
    /\ Sent \subseteq Sent'
    /\ \A r \in Runs' : r.batch \subseteq Sent'
    /\ MovedHeights' \subseteq MovedHeights

\* Then nothing vanishes, and no block is behind its transactions.
LEMMA MovedLemma ==
    ASSUME TxsInv, TxsMove
    PROVE  LeftFirst' /\ SentFirst' /\ NoTxVanishes' /\ BlockGoesFirst'
<1>1. LeftFirst'
  BY DEF TxsInv, TxsMove, LeftFirst
<1>2. SentFirst'
  BY DEF TxsMove, SentFirst
<1>3. NoTxVanishes'
  <2>1. ArchiveTxIds \subseteq lateTxs \union liveTxs \union Sent
    BY DEF TxsInv, NoTxVanishes, Sent
  <2>2. ArchiveTxIds \subseteq lateTxs' \union liveTxs' \union Sent'
    BY <2>1 DEF TxsMove
  <2>3. Sent' = TxCopies' \union txArchive' \union lostTxCopies'
    BY DEF Sent
  <2> QED
    BY <2>2, <2>3 DEF NoTxVanishes
<1>4. BlockGoesFirst'
  BY DEF TxsInv, TxsMove, BlockGoesFirst
<1> QED
  BY <1>1, <1>2, <1>3, <1>4

\* What the lists of batches hold.
LEMMA TxBatchesLemma ==
    ASSUME TxTypes
    PROVE  /\ UNION InFlight(txInsertSends) \subseteq ArchiveTxIds
           /\ UNION InFlight(txInserting) \subseteq ArchiveTxIds
           /\ UNION Waiting(txInsertQueue) \subseteq ArchiveTxIds
           /\ Runs \subseteq MoveRun
<1>1. InFlight(txInsertSends) \subseteq SUBSET ArchiveTxIds /\ InFlight(txInserting) \subseteq SUBSET ArchiveTxIds
  BY DEF TxTypes, InFlight
<1>2. Waiting(txInsertQueue) \subseteq SUBSET ArchiveTxIds
  BY WaitingType DEF TxTypes
<1>3. Runs \subseteq MoveRun
  BY DEF TxTypes, Runs, InFlight
<1>4. \A X : X \subseteq SUBSET ArchiveTxIds => UNION X \subseteq ArchiveTxIds
  OBVIOUS
<1> QED
  BY <1>1, <1>2, <1>3, <1>4

\* It holds at the start.
LEMMA InitTxs == ArchiveInit => TxsInv
<1> SUFFICES ASSUME ArchiveInit PROVE TxsInv
  OBVIOUS
<1>1. BlocksInv
  BY InitBlocksInv DEF ArchiveInit
<1>2. /\ moving = <<>> /\ txInsertSends = <<>> /\ txInsertQueue = <<>> /\ txInserting = <<>> /\ txArchive = {}
      /\ lostTxCopies = {} /\ liveTxs = ArchiveTxIds \ LateTxs /\ lateTxs = LateTxs /\ LateTxs \subseteq ArchiveTxIds
      /\ moveTxSends = <<>> /\ moveTxQueue = <<>>
  BY ArchiveTxsAssumption DEF ArchiveInit, ArchiveTxsInit, ArchiveBlocksInit
<1>3. InFlight(<<>>) = {} /\ Waiting(<<>>) = {} /\ \A D : <<>> \in Seq(D)
  BY EmptyLemma
<1>4. TxTypes
  BY <1>2, <1>3 DEF TxTypes
<1>5. Handed = {} /\ Runs = {} /\ MovedHeights = {} /\ TxCopies = {}
  BY <1>2, <1>3 DEF Handed, Runs, MovedHeights, TxCopies
<1>6. LeftFirst /\ SentFirst
  BY <1>5 DEF LeftFirst, SentFirst
<1>7. NoTxVanishes /\ BlockGoesFirst
  BY <1>2, <1>5 DEF NoTxVanishes, BlockGoesFirst
<1> QED
  BY <1>1, <1>4, <1>6, <1>7 DEF TxsInv

\* A transaction that comes late is in its collection.
LEMMA LateTxArrivesStep ==
    ASSUME TxsInv, NEW t \in ArchiveTxIds, LateTxArrives(t)
    PROVE  TxTypes' /\ TxsMove
<1>1. /\ lateTxs' = lateTxs \ {t} /\ liveTxs' = liveTxs \union {t} /\ blocks' = blocks /\ moving' = moving
      /\ txInsertSends' = txInsertSends /\ txInsertQueue' = txInsertQueue /\ lostTxCopies' = lostTxCopies
      /\ txInserting' = txInserting /\ txArchive' = txArchive /\ moveTxSends' = moveTxSends /\ moveTxQueue' = moveTxQueue
  BY DEF LateTxArrives, txArchiverVars, blockArchiveVars, moverVars
<1>2. TxTypes'
  BY <1>1 DEF TxsInv, TxTypes
<1>3. TxCopies' = TxCopies /\ Sent' = Sent /\ Runs' = Runs /\ MovedHeights' = MovedHeights
  BY <1>1 DEF TxCopies, Sent, Runs, MovedHeights, Handed
<1> QED
  BY <1>1, <1>2, <1>3 DEF TxsMove, TxsInv, SentFirst

\* A job of move.tx becomes a run for each of its heights, which has deleted nothing.
LEMMA StartMoveTxStep ==
    ASSUME TxsInv, StartMoveTx
    PROVE  TxTypes' /\ TxsMove
<1> DEFINE data == Head(moveTxQueue).data
           n == Cardinality(data)
           new == [i \in 1 .. n |-> [height |-> SetToSeq(data)[i], copied |-> FALSE, batch |-> {}]]
<1>1. /\ moveTxQueue # <<>> /\ moving' = moving \o new /\ moveTxQueue' = Tail(moveTxQueue)
      /\ lateTxs' = lateTxs /\ liveTxs' = liveTxs /\ blocks' = blocks
      /\ txInsertSends' = txInsertSends /\ txInsertQueue' = txInsertQueue /\ lostTxCopies' = lostTxCopies
      /\ txInserting' = txInserting /\ txArchive' = txArchive /\ moveTxSends' = moveTxSends
  BY DEF StartMoveTx, txArchiverVars, moverVars
<1>2. BlocksTypeOK /\ moveTxQueue \in Seq(JobOf(SUBSET Heights)) /\ moving \in Seq(MoveRun)
  BY DEF TxsInv, TxTypes, BlocksInv, BlocksTypeOK
<1>3. data \in SUBSET Heights /\ Waiting(moveTxQueue) = {data} \union Waiting(Tail(moveTxQueue))
  BY <1>1, <1>2, TakeLemma
<1>4. n \in Nat /\ \A i \in 1 .. n : SetToSeq(data)[i] \in data
  <2>1. IsFiniteSet(data)
    <3>1. IsFiniteSet(1 .. MaxHeight)
      BY ArchiveAssumption, FS_Interval
    <3> QED
      BY <1>3, <3>1, FS_Subset DEF Heights
  <2>2. n \in Nat /\ ExistsBijection(1 .. n, data)
    BY <2>1, FS_CardinalityType
  <2>3. \E f \in [1 .. n -> data] : IsInjective(f)
    BY <2>2 DEF ExistsBijection, Bijection, Injection, IsInjective
  <2>4. SetToSeq(data) \in [1 .. n -> data]
    BY <2>3 DEF SetToSeq
  <2> QED
    BY <2>2, <2>4
<1> HIDE DEF n, data
<1>5. new \in [1 .. n -> MoveRun] /\ \A i \in 1 .. n : new[i].height \in data /\ new[i].batch = {}
  BY <1>3, <1>4 DEF MoveRun
<1> HIDE DEF new
<1>6. new \in Seq(MoveRun) /\ InFlight(new) = {new[i] : i \in 1 .. n}
  BY <1>4, <1>5, ListLemma
<1>7. moving' \in Seq(MoveRun) /\ Runs' = Runs \union InFlight(new)
  BY <1>1, <1>2, <1>6, SendLemma DEF Runs
<1>8. \A r \in InFlight(new) : r.height \in data /\ r.batch = {}
  BY <1>5, <1>6
<1>9. TxTypes'
  BY <1>1, <1>7 DEF TxsInv, TxTypes
<1>10. TxCopies' = TxCopies /\ Sent' = Sent
  BY <1>1 DEF TxCopies, Sent
<1>11. Handed' \subseteq Handed /\ data \subseteq Handed
  BY <1>1, <1>3 DEF Handed
<1>12. MovedHeights' \subseteq MovedHeights
  BY <1>7, <1>8, <1>11 DEF MovedHeights
<1> QED
  BY <1>1, <1>7, <1>8, <1>9, <1>10, <1>12 DEF TxsMove, TxsInv, SentFirst

\* The query answers: what it found is sent.
LEMMA CopyTxsStep ==
    ASSUME TxsInv, NEW i \in DOMAIN moving, CopyTxs(i)
    PROVE  TxTypes' /\ TxsMove
<1> DEFINE found == {t \in liveTxs : HeightOf[t] = moving[i].height}
           run == [[moving[i] EXCEPT !.copied = TRUE] EXCEPT !.batch = found]
<1>1. /\ txInsertSends' = Append(txInsertSends, found)
      /\ moving' = [moving EXCEPT ![i].copied = TRUE, ![i].batch = found]
      /\ lateTxs' = lateTxs /\ liveTxs' = liveTxs /\ blocks' = blocks
      /\ txInsertQueue' = txInsertQueue /\ lostTxCopies' = lostTxCopies
      /\ txInserting' = txInserting /\ txArchive' = txArchive /\ moveTxSends' = moveTxSends /\ moveTxQueue' = moveTxQueue
  BY DEF CopyTxs, txArchiverVars, blockArchiveVars, moverVars
<1>2. moving \in Seq(MoveRun) /\ txInsertSends \in Seq(SUBSET ArchiveTxIds) /\ found \in SUBSET ArchiveTxIds
  BY DEF TxsInv, TxTypes
<1>3. moving[i] \in MoveRun /\ moving[i] \in Runs /\ moving[i].height \in MovedHeights
  BY <1>2 DEF Runs, InFlight, MovedHeights
<1>4. /\ moving' = [moving EXCEPT ![i] = run]
      /\ run \in MoveRun /\ run.batch = found /\ run.height = moving[i].height
  <2> HIDE DEF found
  <2>1. moving' = [moving EXCEPT ![i] = run]
    BY <1>1, <1>2
  <2>2. \A q \in MoveRun : [q EXCEPT !.copied = TRUE] \in MoveRun /\ [q EXCEPT !.copied = TRUE].height = q.height
    BY DEF MoveRun
  <2>3. \A q \in MoveRun : /\ [q EXCEPT !.batch = found] \in MoveRun
                           /\ [q EXCEPT !.batch = found].batch = found
                           /\ [q EXCEPT !.batch = found].height = q.height
    BY <1>2 DEF MoveRun
  <2> QED
    BY <1>3, <2>1, <2>2, <2>3
<1>5. \A t \in found : HeightOf[t] \notin blocks
  BY <1>3 DEF TxsInv, LeftFirst
<1> HIDE DEF found, run
<1>6. moving' \in Seq(MoveRun) /\ Runs' \subseteq Runs \union {run}
  <2>1. moving' \in Seq(MoveRun) /\ DOMAIN moving' = DOMAIN moving
        /\ \A j \in DOMAIN moving : moving'[j] = moving[j] \/ moving'[j] = run
    BY <1>2, <1>4
  <2> QED
    BY <2>1 DEF Runs, InFlight
<1>7. txInsertSends' \in Seq(SUBSET ArchiveTxIds) /\ InFlight(txInsertSends') = InFlight(txInsertSends) \union {found}
  <2>1. txInsertSends' = Append(txInsertSends, found)
    BY <1>1
  <2> QED
    BY <1>2, <2>1, SendOneLemma
<1>8. TxTypes'
  BY <1>1, <1>6, <1>7 DEF TxsInv, TxTypes
<1>9. TxCopies' = TxCopies \union found
  BY <1>1, <1>7 DEF TxCopies
<1>10. Sent' = Sent \union found
  BY <1>1, <1>9 DEF Sent
<1>11. MovedHeights' \subseteq MovedHeights
  BY <1>1, <1>3, <1>4, <1>6 DEF MovedHeights, Handed
<1> QED
  BY <1>1, <1>4, <1>5, <1>6, <1>8, <1>9, <1>10, <1>11 DEF TxsMove, TxsInv, SentFirst

\* The delete is done: all of it was sent.
LEMMA DeleteTxsStep ==
    ASSUME TxsInv, NEW i \in DOMAIN moving, DeleteTxs(i)
    PROVE  TxTypes' /\ TxsMove
<1>1. /\ liveTxs' = liveTxs \ moving[i].batch /\ moving' = RemoveAt(moving, i)
      /\ lateTxs' = lateTxs /\ blocks' = blocks /\ txInsertSends' = txInsertSends
      /\ txInsertQueue' = txInsertQueue /\ lostTxCopies' = lostTxCopies
      /\ txInserting' = txInserting /\ txArchive' = txArchive /\ moveTxSends' = moveTxSends /\ moveTxQueue' = moveTxQueue
  BY DEF DeleteTxs, txArchiverVars, blockArchiveVars, moverVars
<1>2. moving' \in Seq(MoveRun) /\ moving[i] \in Runs /\ Runs' \subseteq Runs
  BY <1>1, RemoveLemma DEF TxsInv, TxTypes, Runs
<1>3. TxTypes'
  BY <1>1, <1>2 DEF TxsInv, TxTypes
<1>4. TxCopies' = TxCopies /\ Sent' = Sent /\ Handed' = Handed
  BY <1>1 DEF TxCopies, Sent, Handed
<1>5. moving[i].batch \subseteq Sent
  BY <1>2 DEF TxsInv, SentFirst
<1>6. MovedHeights' \subseteq MovedHeights
  BY <1>2, <1>4 DEF MovedHeights
<1> QED
  BY <1>1, <1>2, <1>3, <1>4, <1>5, <1>6 DEF TxsMove, TxsInv, SentFirst

\* A send reaches Redis.
LEMMA TxJobLandsStep ==
    ASSUME TxsInv, TxJobLandsInArchive
    PROVE  TxTypes' /\ TxsMove
<1> DEFINE batch == Head(txInsertSends)
<1>1. /\ txInsertSends # <<>> /\ txInsertQueue' = Add(txInsertQueue, batch) /\ txInsertSends' = Tail(txInsertSends)
      /\ lateTxs' = lateTxs /\ blocks' = blocks /\ liveTxs' = liveTxs /\ moving' = moving /\ lostTxCopies' = lostTxCopies
      /\ txInserting' = txInserting /\ txArchive' = txArchive /\ moveTxSends' = moveTxSends /\ moveTxQueue' = moveTxQueue
  BY DEF TxJobLandsInArchive, txArchiverVars, blockArchiveVars, moverVars
<1>2. /\ batch \in SUBSET ArchiveTxIds /\ txInsertSends' \in Seq(SUBSET ArchiveTxIds)
      /\ InFlight(txInsertSends) = {batch} \union InFlight(txInsertSends')
  BY <1>1, ArriveLemma DEF TxsInv, TxTypes
<1>3. txInsertQueue' \in Seq(JobOf(SUBSET ArchiveTxIds)) /\ Waiting(txInsertQueue') = Waiting(txInsertQueue) \union {batch}
  <2> HIDE DEF batch
  <2>1. txInsertQueue' = Add(txInsertQueue, batch) /\ txInsertQueue \in Seq(JobOf(SUBSET ArchiveTxIds))
    BY <1>1 DEF TxsInv, TxTypes
  <2> QED
    BY <1>2, <2>1, AddLemma
<1>4. TxTypes'
  BY <1>1, <1>2, <1>3 DEF TxsInv, TxTypes
<1> HIDE DEF batch
<1>5. TxCopies' = TxCopies
  BY <1>1, <1>2, <1>3 DEF TxCopies
<1>6. Sent' = Sent /\ Runs' = Runs /\ MovedHeights' = MovedHeights
  BY <1>1, <1>5 DEF Sent, Runs, MovedHeights, Handed
<1> QED
  BY <1>1, <1>4, <1>5, <1>6 DEF TxsMove, TxsInv, SentFirst

\* The process of move.tx ends: deletes under way may be done, of what was sent.
LEMMA TxMoverEndsStep ==
    ASSUME TxsInv, TxMoverDies,
           NEW done \in SUBSET {moving[i].batch : i \in DOMAIN moving}, liveTxs' = liveTxs \ UNION done
    PROVE  TxTypes' /\ TxsMove
<1>1. /\ lostTxCopies' = lostTxCopies \union UNION InFlight(txInsertSends) /\ txInsertSends' = <<>> /\ moving' = <<>>
      /\ lateTxs' = lateTxs /\ blocks' = blocks /\ txInsertQueue' = txInsertQueue
      /\ txInserting' = txInserting /\ txArchive' = txArchive /\ moveTxSends' = moveTxSends /\ moveTxQueue' = moveTxQueue
  BY DEF TxMoverDies, txArchiverVars, blockArchiveVars, moverVars
<1>2. InFlight(<<>>) = {} /\ \A D : <<>> \in Seq(D)
  BY EmptyLemma
<1>3. TxTypes'
  BY <1>1, <1>2 DEF TxsInv, TxTypes
<1>4. Runs' = {} /\ MovedHeights' \subseteq MovedHeights
  BY <1>1, <1>2 DEF Runs, MovedHeights, Handed
<1>5. TxCopies' \subseteq TxCopies /\ Sent \subseteq Sent'
  BY <1>1, <1>2 DEF TxCopies, Sent
<1>6. UNION done \subseteq Sent
  BY DEF TxsInv, SentFirst, Runs, InFlight
<1> QED
  BY <1>1, <1>3, <1>4, <1>5, <1>6 DEF TxsMove

\* A job of listtx.insert starts.
LEMMA StartTxInsertStep ==
    ASSUME TxsInv, StartTxInsert
    PROVE  TxTypes' /\ TxsMove
<1> DEFINE batch == Head(txInsertQueue).data
<1>1. /\ txInsertQueue # <<>> /\ txInserting' = Append(txInserting, batch) /\ txInsertQueue' = Tail(txInsertQueue)
      /\ lateTxs' = lateTxs /\ blocks' = blocks /\ liveTxs' = liveTxs /\ moving' = moving /\ lostTxCopies' = lostTxCopies
      /\ txInsertSends' = txInsertSends /\ txArchive' = txArchive /\ moveTxSends' = moveTxSends /\ moveTxQueue' = moveTxQueue
  BY DEF StartTxInsert, txMoverVars, blockArchiveVars, moverVars
<1>2. /\ batch \in SUBSET ArchiveTxIds /\ txInsertQueue' \in Seq(JobOf(SUBSET ArchiveTxIds))
      /\ Waiting(txInsertQueue) = {batch} \union Waiting(txInsertQueue')
  BY <1>1, TakeLemma DEF TxsInv, TxTypes
<1>3. txInserting' \in Seq(SUBSET ArchiveTxIds) /\ InFlight(txInserting') = InFlight(txInserting) \union {batch}
  <2> HIDE DEF batch
  <2>1. txInserting' = Append(txInserting, batch) /\ txInserting \in Seq(SUBSET ArchiveTxIds)
    BY <1>1 DEF TxsInv, TxTypes
  <2> QED
    BY <1>2, <2>1, SendOneLemma
<1>4. TxTypes'
  BY <1>1, <1>2, <1>3 DEF TxsInv, TxTypes
<1> HIDE DEF batch
<1>5. TxCopies' = TxCopies
  BY <1>1, <1>2, <1>3 DEF TxCopies
<1>6. Sent' = Sent /\ Runs' = Runs /\ MovedHeights' = MovedHeights
  BY <1>1, <1>5 DEF Sent, Runs, MovedHeights, Handed
<1> QED
  BY <1>1, <1>4, <1>5, <1>6 DEF TxsMove, TxsInv, SentFirst

\* The bulkWrite stores the batch, or stores some of it and ends the process.
LEMMA InsertTxsStep ==
    ASSUME TxsInv, NEW i \in DOMAIN txInserting, InsertTxCopies(i) \/ RefuseTxCopies(i)
    PROVE  TxTypes' /\ TxsMove
<1> DEFINE batch == txInserting[i]
<1>1. /\ lateTxs' = lateTxs /\ blocks' = blocks /\ liveTxs' = liveTxs /\ moving' = moving
      /\ txInsertSends' = txInsertSends /\ moveTxSends' = moveTxSends /\ moveTxQueue' = moveTxQueue
      /\ txInsertQueue' = txInsertQueue
  BY DEF InsertTxCopies, RefuseTxCopies, txMoverVars, blockArchiveVars, moverVars
<1>2. /\ batch \in SUBSET ArchiveTxIds /\ RemoveAt(txInserting, i) \in Seq(SUBSET ArchiveTxIds)
      /\ InFlight(txInserting) = InFlight(RemoveAt(txInserting, i)) \union {batch}
  BY RemoveLemma DEF TxsInv, TxTypes
<1>3. batch \subseteq TxCopies
  BY <1>2 DEF TxCopies
<1> HIDE DEF batch
<1>4. CASE InsertTxCopies(i)
  <2>1. txArchive' = txArchive \union batch /\ txInserting' = RemoveAt(txInserting, i) /\ lostTxCopies' = lostTxCopies
    BY <1>4 DEF InsertTxCopies, batch
  <2>2. TxTypes'
    BY <1>1, <1>2, <2>1 DEF TxsInv, TxTypes
  <2>3. TxCopies' \subseteq TxCopies /\ TxCopies \subseteq TxCopies' \union batch
    BY <1>1, <1>2, <2>1 DEF TxCopies
  <2>4. Sent \subseteq Sent' /\ Runs' = Runs /\ MovedHeights' = MovedHeights
    BY <1>1, <2>1, <2>3 DEF Sent, Runs, MovedHeights, Handed
  <2> QED
    BY <1>1, <1>3, <2>1, <2>2, <2>3, <2>4 DEF TxsMove, TxsInv, SentFirst
<1>5. CASE RefuseTxCopies(i)
  <2>1. PICK before \in SUBSET (batch \ txArchive) :
            /\ txArchive' = txArchive \union before
            /\ lostTxCopies' = lostTxCopies \union ((UNION InFlight(txInserting)) \ before)
    BY <1>5 DEF RefuseTxCopies, batch
  <2>2. txInserting' = <<>> /\ InFlight(<<>>) = {} /\ \A D : <<>> \in Seq(D)
    BY <1>5, EmptyLemma DEF RefuseTxCopies
  <2>3. TxTypes'
    BY <1>1, <1>2, <2>1, <2>2 DEF TxsInv, TxTypes
  <2>4. TxCopies' \subseteq TxCopies /\ TxCopies \subseteq TxCopies' \union UNION InFlight(txInserting)
    BY <1>1, <2>2 DEF TxCopies
  <2>5. Sent \subseteq Sent' /\ Runs' = Runs /\ MovedHeights' = MovedHeights
    BY <1>1, <2>1, <2>4 DEF Sent, Runs, MovedHeights, Handed
  <2> QED
    BY <1>1, <1>3, <2>1, <2>3, <2>4, <2>5 DEF TxsMove, TxsInv, SentFirst
<1> QED
  BY <1>4, <1>5

\* Where blocks are moved their heights are handed to move.tx as they go.
LEMMA HandedLemma ==
    ASSUME TxsInv, [BlocksNext]_blockArchiveVars, UNCHANGED moving
    PROVE  LeftFirst'
<1>1. Runs' = Runs /\ blocks' \subseteq blocks
  BY BlocksStep DEF Runs, TxsInv, Relocates
<1>2. BlocksTypeOK /\ moveTxSends \in Seq(SUBSET Heights) /\ moveTxQueue \in Seq(JobOf(SUBSET Heights))
  BY BatchesLemma DEF TxsInv, BlocksInv
<1> SUFFICES Handed' \intersect blocks' = {}
  BY <1>1 DEF TxsInv, LeftFirst, MovedHeights
<1>3. Handed \intersect blocks = {}
  BY DEF TxsInv, LeftFirst, MovedHeights
<1>4. CASE moveTxSends' = moveTxSends /\ moveTxQueue' = moveTxQueue
  BY <1>1, <1>3, <1>4 DEF Handed
<1>5. ASSUME NEW m \in Movers, DeleteOldest(m) PROVE Handed' \intersect blocks' = {}
  <2>1. /\ moveTxSends' = Append(moveTxSends, mover[m].batch) /\ moveTxQueue' = moveTxQueue
        /\ blocks' = blocks \ mover[m].batch
    BY <1>5 DEF DeleteOldest
  <2>2. mover[m].batch \in SUBSET Heights
    BY <1>2 DEF BlocksTypeOK
  <2>3. InFlight(moveTxSends') = InFlight(moveTxSends) \union {mover[m].batch}
    BY <1>2, <2>1, <2>2, SendOneLemma
  <2> QED
    BY <1>3, <2>1, <2>3 DEF Handed
<1>6. CASE MoveTxJobLands
  <2>1. /\ moveTxSends # <<>> /\ moveTxQueue' = Add(moveTxQueue, Head(moveTxSends)) /\ moveTxSends' = Tail(moveTxSends)
    BY <1>6 DEF MoveTxJobLands
  <2>2. Head(moveTxSends) \in SUBSET Heights /\ InFlight(moveTxSends) = {Head(moveTxSends)} \union InFlight(moveTxSends')
    BY <1>2, <2>1, ArriveLemma
  <2>3. Waiting(moveTxQueue') = Waiting(moveTxQueue) \union {Head(moveTxSends)}
    BY <1>2, <2>1, <2>2, AddLemma
  <2>4. Handed' = Handed
    BY <2>2, <2>3 DEF Handed
  <2> QED
    BY <1>1, <1>3, <2>4
<1>7. CASE CrashMover
  <2>1. moveTxSends' = <<>> /\ moveTxQueue' = moveTxQueue /\ InFlight(<<>>) = {}
    BY <1>7, EmptyLemma DEF CrashMover
  <2> QED
    BY <1>1, <1>3, <2>1 DEF Handed
<1>8. CASE NewDay \/ CronMoveBlock \/ InsertJobLands \/ ArchiverNext \/ UNCHANGED blockArchiveVars
  <2>1. moveTxSends' = moveTxSends /\ moveTxQueue' = moveTxQueue
    BY <1>8 DEF NewDay, CronMoveBlock, InsertJobLands, ArchiverNext, StartInsert, InsertCopies, RefuseCopies,
                CrashArchiver, blockArchiveVars, moverVars, archiverVars
  <2> QED
    BY <1>4, <2>1
<1>9. ASSUME NEW m \in Movers, CopyOldest(m) PROVE Handed' \intersect blocks' = {}
  BY <1>4, <1>9 DEF CopyOldest
<1> QED
  BY <1>5, <1>6, <1>7, <1>8, <1>9 DEF BlocksNext, MoverNext

\* Every step keeps the invariant.
LEMMA NextTxs == TxsInv /\ [ArchiveNext]_archiveVars => TxsInv'
<1> SUFFICES ASSUME TxsInv, [ArchiveNext]_archiveVars PROVE TxsInv'
  OBVIOUS
<1>1. CASE [BlocksNext]_blockArchiveVars /\ UNCHANGED archiveTxVars
  <2>1. BlocksInv' /\ blocks' \subseteq blocks
    BY <1>1, NextBlocksInv, BlocksStep DEF TxsInv, Relocates
  <2>2. /\ moving' = moving /\ txInsertSends' = txInsertSends /\ txInsertQueue' = txInsertQueue
        /\ txInserting' = txInserting /\ txArchive' = txArchive /\ liveTxs' = liveTxs /\ lateTxs' = lateTxs
        /\ lostTxCopies' = lostTxCopies
    BY <1>1 DEF archiveTxVars, txMoverVars, txArchiverVars
  <2>3. TxCopies' = TxCopies /\ Sent' = Sent /\ Runs' = Runs
    BY <2>2 DEF TxCopies, Sent, Runs
  <2>4. LeftFirst'
    BY <1>1, <2>2, HandedLemma
  <2> QED
    BY <2>1, <2>2, <2>3, <2>4 DEF TxsInv, TxTypes, SentFirst, NoTxVanishes, BlockGoesFirst
<1>2. ASSUME TxTypes' /\ TxsMove, BlocksInv' PROVE TxsInv'
  BY <1>2, MovedLemma DEF TxsInv
<1>3. ASSUME TxMoverNext \/ TxArchiverNext PROVE BlocksInv'
  <2>1. /\ UNCHANGED <<now, blocks, insertQueue, lostCopies, moverVars, archiverVars>>
        /\ moveTxQueue' = moveTxQueue \/ (moveTxQueue # <<>> /\ moveTxQueue' = Tail(moveTxQueue))
    BY <1>3 DEF TxMoverNext, TxArchiverNext, LateTxArrives, StartMoveTx, CopyTxs, DeleteTxs, DeleteNothing,
                TxJobLandsInArchive, CrashTxMover, TxMoverDies, StartTxInsert, InsertTxCopies, RefuseTxCopies,
                blockArchiveVars
  <2>2. moveTxQueue' \in Seq(JobOf(SUBSET Heights))
    <3>1. moveTxQueue \in Seq(JobOf(SUBSET Heights))
      BY DEF TxsInv, BlocksInv, BlocksTypeOK
    <3> QED
      BY <2>1, <3>1, TakeLemma
  <2>3. BlocksTypeOK'
    BY <2>1, <2>2 DEF TxsInv, BlocksInv, BlocksTypeOK, moverVars, archiverVars
  <2>4. Copies' = Copies /\ Archived' = Archived
    BY <2>1 DEF Copies, Archived, moverVars, archiverVars
  <2> QED
    BY <2>1, <2>3, <2>4 DEF TxsInv, BlocksInv, NoBlockVanishes, SentBeforeDeleted, moverVars, archiverVars
<1>4. CASE TxMoverNext
  <2>1. ASSUME NEW t \in ArchiveTxIds, LateTxArrives(t) PROVE TxTypes' /\ TxsMove
    BY <2>1, LateTxArrivesStep
  <2>2. ASSUME StartMoveTx PROVE TxTypes' /\ TxsMove
    BY <2>2, StartMoveTxStep
  <2>3. ASSUME NEW i \in DOMAIN moving, CopyTxs(i) PROVE TxTypes' /\ TxsMove
    BY <2>3, CopyTxsStep
  <2>4. ASSUME NEW i \in DOMAIN moving, DeleteTxs(i) PROVE TxTypes' /\ TxsMove
    BY <2>4, DeleteTxsStep
  <2>5. ASSUME NEW i \in DOMAIN moving, DeleteNothing(i) PROVE TxTypes' /\ TxsMove
    <3>1. TxMoverDies /\ liveTxs' = liveTxs \ UNION {}
      BY <2>5 DEF DeleteNothing
    <3>2. {} \in SUBSET {moving[k].batch : k \in DOMAIN moving}
      OBVIOUS
    <3> QED
      BY <3>1, <3>2, TxMoverEndsStep
  <2>6. ASSUME TxJobLandsInArchive PROVE TxTypes' /\ TxsMove
    BY <2>6, TxJobLandsStep
  <2>7. ASSUME CrashTxMover PROVE TxTypes' /\ TxsMove
    <3>1. TxMoverDies /\ \E done \in SUBSET {moving[k].batch : k \in DOMAIN moving} : liveTxs' = liveTxs \ UNION done
      BY <2>7 DEF CrashTxMover
    <3> QED
      BY <3>1, TxMoverEndsStep
  <2> QED
    BY <1>2, <1>3, <1>4, <2>1, <2>2, <2>3, <2>4, <2>5, <2>6, <2>7 DEF TxMoverNext
<1>5. CASE TxArchiverNext
  BY <1>2, <1>3, <1>5, StartTxInsertStep, InsertTxsStep DEF TxArchiverNext
<1>6. CASE UNCHANGED archiveVars
  BY <1>1, <1>6 DEF archiveVars
<1> QED
  BY <1>1, <1>4, <1>5, <1>6 DEF ArchiveNext

\* What the clock, the crashes and the copies of blocks are is no concern of the transactions.
LEMMA TxsLeaveBlocks ==
    ASSUME AloneInv, TxMoverNext \/ TxArchiverNext, BlocksInv'
    PROVE  AloneInv'
<1>1. UNCHANGED <<now, blocks, insertQueue, lostCopies, moverVars, archiverVars>>
  BY DEF TxMoverNext, TxArchiverNext, LateTxArrives, StartMoveTx, CopyTxs, DeleteTxs, DeleteNothing,
         TxJobLandsInArchive, CrashTxMover, TxMoverDies, StartTxInsert, InsertTxCopies, RefuseTxCopies,
         blockArchiveVars
<1>2. /\ blocks' = blocks /\ mover' = mover /\ insertSends' = insertSends /\ insertQueue' = insertQueue
      /\ inserting' = inserting /\ archive' = archive /\ lostCopies' = lostCopies
      /\ refusedCopies' = refusedCopies /\ moverCrashes' = moverCrashes /\ archiverCrashes' = archiverCrashes
  BY <1>1 DEF moverVars, archiverVars
<1>3. Copies' = Copies /\ Archived' = Archived
  BY <1>2, CopiesStayLemma
<1>4. Alone' = Alone /\ CopiedOnce' = CopiedOnce
  BY <1>2, <1>3 DEF Alone, CopiedOnce
<1> QED
  BY <1>2, <1>4 DEF AloneInv

\* However the two processes overlap and die, whatever comes late: a block or a transaction that has left its
\* collection is archived, on its way, or lost with a trace; blocks go before their transactions; and a handler
\* of move.block that runs alone, without crashes, loses none.
THEOREM ArchiveStaysWhole == ArchiveSpec => []ArchiveIsWhole
<1>1. ArchiveInit => TxsInv /\ AloneInv
  BY InitTxs, InitAloneInv DEF ArchiveInit
<1>2. TxsInv /\ AloneInv /\ [ArchiveNext]_archiveVars => (TxsInv /\ AloneInv)'
  <2> SUFFICES ASSUME TxsInv, AloneInv, [ArchiveNext]_archiveVars PROVE TxsInv' /\ AloneInv'
    OBVIOUS
  <2>1. TxsInv'
    BY NextTxs
  <2>2. ASSUME TxMoverNext \/ TxArchiverNext PROVE AloneInv'
    BY <2>1, <2>2, TxsLeaveBlocks DEF TxsInv
  <2>3. ASSUME [BlocksNext]_blockArchiveVars PROVE AloneInv'
    BY <2>3, NextAloneInv
  <2> QED
    BY <2>1, <2>2, <2>3 DEF ArchiveNext, archiveVars
<1>3. TxsInv /\ AloneInv => ArchiveIsWhole
  <2> SUFFICES ASSUME TxsInv, AloneInv PROVE ArchiveIsWhole
    OBVIOUS
  <2>1. AloneLosesNothing
    BY DEF AloneInv, Alone, CopiedOnce, AloneLosesNothing
  <2>2. ArchiveTypeOK
    <3>1. BlocksTypeOK /\ TxTypes
      BY DEF TxsInv, BlocksInv
    <3>2. TxCopies \union liveTxs \union txArchive \subseteq ArchiveTxIds
      BY <3>1, TxBatchesLemma DEF TxCopies, TxTypes
    <3>3. \A i \in DOMAIN moving : moving[i].height \in Heights /\ moving[i].batch \subseteq ArchiveTxIds
      <4>1. \A i \in DOMAIN moving : moving[i] \in MoveRun
        BY <3>1 DEF TxTypes
      <4>2. \A q \in MoveRun : q.height \in Heights /\ q.batch \subseteq ArchiveTxIds
        BY DEF MoveRun
      <4> QED
        BY <4>1, <4>2
    <3> QED
      BY <3>1, <3>2, <3>3 DEF ArchiveTypeOK
  <2> QED
    BY <2>1, <2>2 DEF ArchiveIsWhole, TxsInv, BlocksInv
<1> QED
  BY <1>1, <1>2, <1>3, PTL DEF ArchiveSpec

-----------------------------------------------------------------------------
(* The proposals (Proposals).                                                  *)

ChainStatuses == {"none", "deposit", "voting", "passed", "gone"}
ProposalDoc == [status : ProposalStatuses, deposit : Nat, tally : Nat]
ProposalJob == [state : {"none", "waiting", "active", "failed"}, read : Nat]

ProposalTypes ==
    /\ proposalChain \in [Proposals -> ChainStatuses]
    /\ counted \in [CountKinds -> [Proposals -> Nat]]
    /\ db \in [Proposals -> ProposalDoc]
    /\ crawl \in [pc : {"idle", "listed", "read"}, list : [Proposals -> ChainStatuses],
                  known : [Proposals -> ProposalDoc]]
    /\ jobs \in [CountKinds -> [Proposals -> ProposalJob]]
    /\ failed \in [CountKinds -> Seq(Proposals)]

\* A proposal with a status is stored, and a document without one is none.
Shown(doc) == doc.status # "none"
Proper(doc) == Shown(doc) \/ doc = NoDoc

\* What a job of a kind writes.
CountOf(k, doc) == IF k = "deposit" THEN doc.deposit ELSE doc.tally

\* What is stored came from the chain.
StoredIsOfChain ==
    \A p \in Proposals :
        /\ Proper(db[p])
        /\ Shown(db[p]) => proposalChain[p] # "none"
        /\ db[p].status = "not enough deposit" => proposalChain[p] = "gone"

\* The list is of the past: the chain does not bring back what it dropped, and a document that is there
\* was in a list before this one.
ListIsOfPast ==
    crawl.pc # "idle" =>
        \A p \in Proposals : /\ crawl.list[p] # "none" => proposalChain[p] # "none"
                             /\ crawl.list[p] = "gone" => proposalChain[p] = "gone"
                             /\ Shown(db[p]) => crawl.list[p] # "none"

\* So are the documents that were read: nothing but counts is written meanwhile, and these only grow.
KnownIsOfPast ==
    crawl.pc = "read" =>
        \A p \in Proposals : /\ Proper(crawl.known[p])
                             /\ Shown(crawl.known[p]) <=> Shown(db[p])
                             /\ \A k \in CountKinds : CountOf(k, crawl.known[p]) <= CountOf(k, db[p])

\* A job that runs has read what is stored, or more, and the chain has that or more.
CountsAreOfPast ==
    \A k \in CountKinds : \A p \in Proposals :
        /\ CountOf(k, db[p]) <= counted[k][p]
        /\ jobs[k][p].read <= counted[k][p]
        /\ jobs[k][p].state = "active" => CountOf(k, db[p]) <= jobs[k][p].read

\* The failed jobs are those bull keeps, each once.
KeptFail ==
    \A k \in CountKinds :
        /\ IsInjective(failed[k])
        /\ \A p \in Proposals : jobs[k][p].state = "failed" <=> p \in Range(failed[k])

ProposalInv ==
    ProposalTypes /\ StoredIsOfChain /\ ListIsOfPast /\ KnownIsOfPast /\ CountsAreOfPast /\ KeptFail

\* What a document counts is not its status.
LEMMA CountLemma ==
    ASSUME NEW doc \in ProposalDoc, NEW s \in ProposalStatuses, NEW new, new = [doc EXCEPT !.status = s]
    PROVE  /\ new \in ProposalDoc /\ new.status = s
           /\ \A k \in CountKinds : CountOf(k, new) = CountOf(k, doc)
<1>1. /\ new \in ProposalDoc /\ new.status = s /\ new.deposit = doc.deposit /\ new.tally = doc.tally
  BY DEF ProposalDoc
<1> QED
  BY <1>1 DEF CountOf

\* Documents count naturals.
LEMMA CountsAreNaturals ==
    ASSUME ProposalTypes, NEW k \in CountKinds, NEW p \in Proposals
    PROVE  /\ CountOf(k, db[p]) \in Nat /\ CountOf(k, crawl.known[p]) \in Nat
           /\ counted[k][p] \in Nat /\ jobs[k][p] \in ProposalJob /\ jobs[k][p].read \in Nat
<1>1. db[p] \in ProposalDoc /\ crawl.known[p] \in ProposalDoc /\ jobs[k][p] \in ProposalJob
      /\ counted[k][p] \in Nat
  BY DEF ProposalTypes
<1>2. \A doc \in ProposalDoc : CountOf(k, doc) \in Nat
  BY DEF ProposalDoc, CountOf
<1>3. jobs[k][p].read \in Nat
  BY <1>1 DEF ProposalJob
<1> QED
  BY <1>1, <1>2, <1>3

LEMMA ProposalLemma == ProposalInv => ProposalTypeOK /\ OnlyDroppedAreClosed
<1> SUFFICES ASSUME ProposalInv PROVE ProposalTypeOK /\ OnlyDroppedAreClosed
  OBVIOUS
<1>1. ASSUME NEW p \in Proposals PROVE proposalChain[p] \in ProposalStatuses /\ db[p].status \in ProposalStatuses
  BY DEF ProposalInv, ProposalTypes, ChainStatuses, ProposalStatuses, ProposalDoc
<1> QED
  BY <1>1 DEF ProposalInv, StoredIsOfChain, CountsAreOfPast, KeptFail, ProposalTypeOK, OnlyDroppedAreClosed

LEMMA InitProposalInv == ProposalInit => ProposalInv
<1> SUFFICES ASSUME ProposalInit PROVE ProposalInv
  OBVIOUS
<1>1. NoDoc \in ProposalDoc /\ ~Shown(NoDoc) /\ NoDoc.deposit = 0 /\ NoDoc.tally = 0
  BY DEF NoDoc, ProposalDoc, ProposalStatuses, Shown
<1>2. CountIdle \in ProposalJob /\ CountIdle.state = "none" /\ CountIdle.read = 0
  BY DEF CountIdle, ProposalJob
<1>3. ProposalTypes
  <2>1. <<>> \in Seq(Proposals)
    OBVIOUS
  <2>2. /\ proposalChain = [p \in Proposals |-> "none"] /\ crawl = NoCrawl /\ db = [p \in Proposals |-> NoDoc]
        /\ counted = [k \in CountKinds |-> [p \in Proposals |-> 0]]
        /\ jobs = [k \in CountKinds |-> [p \in Proposals |-> CountIdle]]
        /\ failed = [k \in CountKinds |-> <<>>]
    BY DEF ProposalInit
  <2> HIDE DEF NoDoc, CountIdle
  <2> QED
    BY <1>1, <1>2, <2>1, <2>2 DEF ProposalTypes, ChainStatuses, NoCrawl
<1>4. \A p \in Proposals : db[p] = NoDoc
  BY DEF ProposalInit
<1>5. crawl.pc = "idle"
  BY DEF ProposalInit, NoCrawl
<1>6. StoredIsOfChain
  <2>1. NoDoc.status = "none"
    BY DEF NoDoc
  <2> QED
    BY <1>1, <1>4, <2>1 DEF StoredIsOfChain, Proper
<1>7. ListIsOfPast /\ KnownIsOfPast
  BY <1>5 DEF ListIsOfPast, KnownIsOfPast
<1>8. CountsAreOfPast
  BY <1>1, <1>2, <1>4 DEF ProposalInit, CountsAreOfPast, CountOf
<1>9. KeptFail
  BY <1>2 DEF ProposalInit, KeptFail, IsInjective, Range
<1> QED
  BY <1>3, <1>6, <1>7, <1>8, <1>9 DEF ProposalInv

\* The steps that change neither the jobs nor what they keep.
LEMMA ChainMovesStep ==
    ASSUME ProposalInv, NEW p \in Proposals, ChainMoves(p)
    PROVE  ProposalInv'
<1>1. PICK m \in Moves : proposalChain[p] = m[1] /\ proposalChain' = [proposalChain EXCEPT ![p] = m[2]]
  BY DEF ChainMoves
<1>2. /\ proposalChain[p] # "gone" /\ proposalChain'[p] \in ChainStatuses \ {"none"}
      /\ proposalChain' \in [Proposals -> ChainStatuses]
      /\ \A q \in Proposals \ {p} : proposalChain'[q] = proposalChain[q]
  BY <1>1 DEF Moves, ProposalInv, ProposalTypes, ChainStatuses
<1>3. UNCHANGED <<counted, db, crawl, jobs, failed>>
  BY DEF ChainMoves
<1>4. ProposalTypes'
  BY <1>2, <1>3 DEF ProposalInv, ProposalTypes
<1>5. StoredIsOfChain'
  BY <1>2, <1>3 DEF ProposalInv, StoredIsOfChain
<1>6. ListIsOfPast'
  BY <1>2, <1>3 DEF ProposalInv, ListIsOfPast
<1>7. KnownIsOfPast' /\ CountsAreOfPast' /\ KeptFail'
  BY <1>3 DEF ProposalInv, KnownIsOfPast, CountsAreOfPast, KeptFail
<1> QED
  BY <1>4, <1>5, <1>6, <1>7 DEF ProposalInv

LEMMA ChainCountsStep ==
    ASSUME ProposalInv, NEW p \in Proposals, ChainCounts(p)
    PROVE  ProposalInv'
<1>1. PICK k \in CountKinds : counted' = [counted EXCEPT ![k][p] = @ + 1]
  BY DEF ChainCounts
<1>2. UNCHANGED <<proposalChain, db, crawl, jobs, failed>>
  BY DEF ChainCounts
<1>3. /\ counted' \in [CountKinds -> [Proposals -> Nat]]
      /\ \A l \in CountKinds, q \in Proposals : counted[l][q] <= counted'[l][q] /\ counted[l][q] \in Nat
  BY <1>1 DEF ProposalInv, ProposalTypes
<1>4. ProposalTypes'
  BY <1>2, <1>3 DEF ProposalInv, ProposalTypes
<1>5. CountsAreOfPast'
  <2>1. ASSUME NEW l \in CountKinds, NEW q \in Proposals
        PROVE  /\ CountOf(l, db[q]) <= counted'[l][q] /\ jobs[l][q].read <= counted'[l][q]
    <3>1. CountOf(l, db[q]) \in Nat /\ jobs[l][q].read \in Nat /\ counted'[l][q] \in Nat
      BY <1>3, CountsAreNaturals DEF ProposalInv
    <3>2. CountOf(l, db[q]) <= counted[l][q] /\ jobs[l][q].read <= counted[l][q]
      BY DEF ProposalInv, CountsAreOfPast
    <3> QED
      BY <1>3, <3>1, <3>2
  <2> QED
    BY <1>2, <2>1 DEF ProposalInv, CountsAreOfPast
<1>6. StoredIsOfChain' /\ ListIsOfPast' /\ KnownIsOfPast' /\ KeptFail'
  BY <1>2 DEF ProposalInv, StoredIsOfChain, ListIsOfPast, KnownIsOfPast, KeptFail
<1> QED
  BY <1>4, <1>5, <1>6 DEF ProposalInv

LEMMA FetchProposalsStep == ASSUME ProposalInv, FetchProposals PROVE ProposalInv'
<1>1. /\ crawl' = [crawl EXCEPT !.pc = "listed", !.list = proposalChain]
      /\ UNCHANGED <<proposalChain, counted, db, jobs, failed>>
  BY DEF FetchProposals
<1>2. /\ crawl' \in [pc : {"idle", "listed", "read"}, list : [Proposals -> ChainStatuses],
                     known : [Proposals -> ProposalDoc]]
      /\ crawl'.pc = "listed" /\ crawl'.list = proposalChain
  BY <1>1 DEF ProposalInv, ProposalTypes
<1>3. ProposalTypes'
  BY <1>1, <1>2 DEF ProposalInv, ProposalTypes
<1>4. ListIsOfPast' /\ KnownIsOfPast'
  BY <1>1, <1>2 DEF ProposalInv, StoredIsOfChain, ListIsOfPast, KnownIsOfPast
<1>5. StoredIsOfChain' /\ CountsAreOfPast' /\ KeptFail'
  BY <1>1 DEF ProposalInv, StoredIsOfChain, CountsAreOfPast, KeptFail
<1> QED
  BY <1>3, <1>4, <1>5 DEF ProposalInv

\* The documents are read, and jobs are made where there is none.
LEMMA ReadProposalsStep == ASSUME ProposalInv, ReadProposals PROVE ProposalInv'
<1> DEFINE Due(k) == {p \in Proposals : crawl.list[p] = IF k = "deposit" THEN "deposit" ELSE "voting"}
<1>1. /\ crawl.pc = "listed" /\ crawl' = [crawl EXCEPT !.pc = "read", !.known = db]
      /\ jobs' = [k \in CountKinds |-> Added(k, Due(k))]
      /\ UNCHANGED <<proposalChain, counted, db, failed>>
  BY DEF ReadProposals
<1> HIDE DEF Due
<1>2. /\ crawl' \in [pc : {"idle", "listed", "read"}, list : [Proposals -> ChainStatuses],
                     known : [Proposals -> ProposalDoc]]
      /\ crawl'.pc = "read" /\ crawl'.list = crawl.list /\ crawl'.known = db
  BY <1>1 DEF ProposalInv, ProposalTypes
<1>3. ASSUME NEW k \in CountKinds, NEW p \in Proposals
      PROVE  /\ jobs'[k][p] \in ProposalJob
             /\ \/ jobs'[k][p] = jobs[k][p]
                \/ jobs[k][p].state = "none" /\ jobs'[k][p].state = "waiting" /\ jobs'[k][p].read = 0
  BY <1>1 DEF Added, ProposalInv, ProposalTypes, ProposalJob
<1>4. ProposalTypes'
  <2>1. jobs' \in [CountKinds -> [Proposals -> ProposalJob]]
    <3>1. ASSUME NEW k \in CountKinds PROVE jobs'[k] \in [Proposals -> ProposalJob]
      <4>1. jobs'[k] = Added(k, Due(k))
        BY <1>1
      <4>2. jobs'[k] = [p \in Proposals |-> jobs'[k][p]]
        BY <4>1 DEF Added
      <4> QED
        BY <1>3, <4>2
    <3> QED
      BY <1>1, <3>1
  <2> QED
    BY <1>1, <1>2, <2>1 DEF ProposalInv, ProposalTypes
<1>5. ListIsOfPast'
  BY <1>1, <1>2 DEF ProposalInv, ListIsOfPast
<1>6. KnownIsOfPast'
  <2>1. \A k \in CountKinds, p \in Proposals : CountOf(k, db[p]) \in Nat
    BY CountsAreNaturals DEF ProposalInv
  <2> QED
    <3>1. ASSUME NEW p \in Proposals
          PROVE  /\ crawl'.known[p] = db'[p] /\ Proper(db'[p])
                 /\ \A k \in CountKinds : CountOf(k, db'[p]) <= CountOf(k, db'[p])
      <4>1. db' = db /\ crawl'.known[p] = db[p] /\ Proper(db[p])
        BY <1>1, <1>2 DEF ProposalInv, StoredIsOfChain
      <4>2. \A k \in CountKinds : CountOf(k, db[p]) <= CountOf(k, db[p])
        BY <2>1
      <4> QED
        BY <4>1, <4>2, Zenon
    <3> QED
      BY <3>1, Zenon DEF KnownIsOfPast
<1>7. CountsAreOfPast'
  <2>1. \A k \in CountKinds, p \in Proposals : counted[k][p] \in Nat
    BY DEF ProposalInv, ProposalTypes
  <2> QED
    BY <1>1, <1>3, <2>1 DEF ProposalInv, CountsAreOfPast
<1>8. KeptFail'
  BY <1>1, <1>3 DEF ProposalInv, KeptFail
<1>9. StoredIsOfChain'
  BY <1>1 DEF ProposalInv, StoredIsOfChain
<1> QED
  BY <1>4, <1>5, <1>6, <1>7, <1>8, <1>9 DEF ProposalInv

\* The document after the write: it is as it was but for its status, and less only when it is closed.
LEMMA WrittenBackLemma ==
    ASSUME ProposalInv, crawl.pc = "read", NEW p \in Proposals
    PROVE  /\ Written(p) \in ProposalDoc /\ Proper(Written(p))
           /\ Shown(Written(p)) => proposalChain[p] # "none"
           /\ Written(p).status = "not enough deposit" => proposalChain[p] = "gone"
           /\ \A k \in CountKinds :
                 /\ CountOf(k, Written(p)) <= CountOf(k, db[p])
                 /\ CountOf(k, Written(p)) < CountOf(k, db[p]) => Written(p).status = "not enough deposit"
<1>1. /\ db[p] \in ProposalDoc /\ crawl.known[p] \in ProposalDoc /\ crawl.list[p] \in ChainStatuses
      /\ Proper(db[p]) /\ Proper(crawl.known[p]) /\ (Shown(crawl.known[p]) <=> Shown(db[p]))
      /\ Shown(db[p]) => proposalChain[p] # "none"
      /\ crawl.list[p] # "none" => proposalChain[p] # "none"
      /\ Shown(db[p]) => crawl.list[p] # "none"
      /\ crawl.list[p] = "gone" => proposalChain[p] = "gone"
      /\ db[p].status = "not enough deposit" => proposalChain[p] = "gone"
  BY DEF ProposalInv, ProposalTypes, StoredIsOfChain, ListIsOfPast, KnownIsOfPast
<1>2. \A k \in CountKinds : CountOf(k, crawl.known[p]) <= CountOf(k, db[p])
  BY DEF ProposalInv, KnownIsOfPast
<1>3. \A k \in CountKinds : CountOf(k, db[p]) \in Nat /\ CountOf(k, crawl.known[p]) \in Nat
  BY CountsAreNaturals DEF ProposalInv
<1>4. /\ NoDoc \in ProposalDoc /\ ~Shown(NoDoc) /\ "not enough deposit" \in ProposalStatuses
      /\ ChainStatuses \subseteq ProposalStatuses
  BY DEF NoDoc, ProposalDoc, ProposalStatuses, ChainStatuses, Shown
<1>5. p \in Listed(crawl.list) <=> crawl.list[p] \notin {"none", "gone"}
  BY DEF Listed
<1>6. CASE p \notin Listed(crawl.list) /\ crawl.known[p] = NoDoc
  <2>1. Written(p) = db[p]
    BY <1>6 DEF Written
  <2>2. \A k \in CountKinds : CountOf(k, db[p]) <= CountOf(k, db[p]) /\ ~(CountOf(k, db[p]) < CountOf(k, db[p]))
    BY <1>3
  <2> QED
    BY <1>1, <2>1, <2>2, Zenon
<1>7. CASE p \notin Listed(crawl.list) /\ crawl.known[p] # NoDoc
  <2>1. Written(p) = [crawl.known[p] EXCEPT !.status = "not enough deposit"]
    BY <1>7 DEF Written
  <2>2. proposalChain[p] = "gone"
    BY <1>1, <1>5, <1>7 DEF Proper
  <2>3. /\ Written(p) \in ProposalDoc /\ Written(p).status = "not enough deposit"
        /\ \A k \in CountKinds : CountOf(k, Written(p)) = CountOf(k, crawl.known[p])
    <3> DEFINE doc == crawl.known[p]
               new == Written(p)
               status == "not enough deposit"
    <3>1. doc \in ProposalDoc /\ status \in ProposalStatuses /\ new = [doc EXCEPT !.status = status]
      BY <1>1, <1>4, <2>1
    <3> HIDE DEF doc, new, status
    <3>2. /\ new \in ProposalDoc /\ new.status = status
          /\ \A k \in CountKinds : CountOf(k, new) = CountOf(k, doc)
      BY <3>1, CountLemma
    <3> QED
      BY <3>2 DEF doc, new, status
  <2> QED
    BY <1>2, <2>2, <2>3 DEF Proper, Shown
<1>8. CASE p \in Listed(crawl.list)
  <2>1. crawl.known[p] = NoDoc => db[p] = NoDoc
    BY <1>1, <1>4 DEF Proper
  <2>2. Written(p) = [db[p] EXCEPT !.status = crawl.list[p]]
    BY <1>8, <2>1 DEF Written
  <2>3. /\ Written(p) \in ProposalDoc /\ Written(p).status = crawl.list[p]
        /\ \A k \in CountKinds : CountOf(k, Written(p)) = CountOf(k, db[p])
    <3>1. crawl.list[p] \in ProposalStatuses
      BY <1>1, <1>4
    <3> QED
      <4> DEFINE doc == db[p]
                 new == Written(p)
                 status == crawl.list[p]
      <4>1. doc \in ProposalDoc /\ status \in ProposalStatuses /\ new = [doc EXCEPT !.status = status]
        BY <1>1, <2>2, <3>1
      <4> HIDE DEF doc, new, status
      <4>2. /\ new \in ProposalDoc /\ new.status = status
            /\ \A k \in CountKinds : CountOf(k, new) = CountOf(k, doc)
        BY <4>1, CountLemma
      <4> QED
        BY <4>2 DEF doc, new, status
  <2> QED
    <3>1. crawl.list[p] \notin {"none", "not enough deposit"} /\ proposalChain[p] # "none"
      BY <1>1, <1>5, <1>8 DEF ChainStatuses
    <3>2. \A k \in CountKinds : CountOf(k, db[p]) <= CountOf(k, db[p]) /\ ~(CountOf(k, db[p]) < CountOf(k, db[p]))
      BY <1>3
    <3> QED
      BY <2>3, <3>1, <3>2, Zenon DEF Proper, Shown
<1> QED
  BY <1>6, <1>7, <1>8

LEMMA WriteProposalsStep ==
    ASSUME ProposalInv, WriteProposals
    PROVE  /\ ProposalInv'
           /\ \A p \in Proposals, k \in CountKinds :
                 CountOf(k, db[p])' < CountOf(k, db[p]) => db'[p].status = "not enough deposit"
<1>1. /\ crawl.pc = "read" /\ db' = [p \in Proposals |-> Written(p)] /\ crawl' = NoCrawl
      /\ UNCHANGED <<proposalChain, counted, jobs, failed>>
  BY DEF WriteProposals
<1>2. ASSUME NEW p \in Proposals
      PROVE  /\ db'[p] \in ProposalDoc /\ Proper(db'[p])
             /\ Shown(db'[p]) => proposalChain[p] # "none"
             /\ db'[p].status = "not enough deposit" => proposalChain[p] = "gone"
             /\ \A k \in CountKinds :
                   /\ CountOf(k, db'[p]) <= CountOf(k, db[p])
                   /\ CountOf(k, db'[p]) < CountOf(k, db[p]) => db'[p].status = "not enough deposit"
  <2>1. db'[p] = Written(p)
    BY <1>1
  <2> QED
    BY <1>1, <2>1, WrittenBackLemma, Zenon
<1>3. ProposalTypes'
  <2>1. db' \in [Proposals -> ProposalDoc]
    <3>1. db' = [p \in Proposals |-> db'[p]]
      BY <1>1
    <3> QED
      BY <1>2, <3>1
  <2>2. NoDoc \in ProposalDoc /\ "none" \in ChainStatuses
    BY DEF NoDoc, ProposalDoc, ProposalStatuses, ChainStatuses
  <2>3. crawl' \in [pc : {"idle", "listed", "read"}, list : [Proposals -> ChainStatuses],
                    known : [Proposals -> ProposalDoc]]
    <3> HIDE DEF NoDoc
    <3> QED
      BY <1>1, <2>2 DEF NoCrawl
  <2> QED
    BY <1>1, <2>1, <2>3 DEF ProposalInv, ProposalTypes
<1>4. crawl'.pc = "idle"
  BY <1>1 DEF NoCrawl
<1>5. StoredIsOfChain'
  BY <1>1, <1>2, Zenon DEF StoredIsOfChain
<1>6. ListIsOfPast' /\ KnownIsOfPast'
  BY <1>4 DEF ListIsOfPast, KnownIsOfPast
<1>7. CountsAreOfPast'
  <2>1. ASSUME NEW k \in CountKinds, NEW p \in Proposals
        PROVE  /\ CountOf(k, db'[p]) <= counted[k][p]
               /\ jobs[k][p].read <= counted[k][p]
               /\ jobs[k][p].state = "active" => CountOf(k, db'[p]) <= jobs[k][p].read
    <3>1. CountOf(k, db'[p]) <= CountOf(k, db[p])
      BY <1>2
    <3>2. CountOf(k, db'[p]) \in Nat
      BY <1>2 DEF ProposalDoc, CountOf
    <3>3. /\ CountOf(k, db[p]) <= counted[k][p] /\ jobs[k][p].read <= counted[k][p]
          /\ jobs[k][p].state = "active" => CountOf(k, db[p]) <= jobs[k][p].read
      BY DEF ProposalInv, CountsAreOfPast
    <3>4. CountOf(k, db[p]) \in Nat /\ counted[k][p] \in Nat /\ jobs[k][p].read \in Nat
      BY CountsAreNaturals DEF ProposalInv
    <3> HIDE DEF CountOf
    <3> QED
      BY <3>1, <3>2, <3>3, <3>4
  <2> QED
    BY <1>1, <2>1, Zenon DEF CountsAreOfPast
<1>8. KeptFail'
  BY <1>1 DEF ProposalInv, KeptFail
<1>9. \A p \in Proposals, k \in CountKinds :
          CountOf(k, db[p])' < CountOf(k, db[p]) => db'[p].status = "not enough deposit"
  <2>1. \A p \in Proposals, k \in CountKinds : CountOf(k, db[p])' = CountOf(k, db'[p])
    BY DEF CountOf
  <2> QED
    BY <1>2, <2>1
<1> QED
  BY <1>3, <1>5, <1>6, <1>7, <1>8, <1>9 DEF ProposalInv

\* The steps of the jobs leave the documents, or write the counts only.
LEMMA FetchCountStep ==
    ASSUME ProposalInv, NEW k \in CountKinds, NEW p \in Proposals, FetchCount(k, p)
    PROVE  ProposalInv'
<1> DEFINE next == IF proposalChain[p] = "gone" THEN CountIdle ELSE [state |-> "active", read |-> counted[k][p]]
<1>1. /\ jobs[k][p].state = "waiting" /\ jobs' = [jobs EXCEPT ![k][p] = next]
      /\ UNCHANGED <<proposalChain, counted, db, crawl, failed>>
  BY DEF FetchCount
<1>2. /\ next \in ProposalJob /\ next.state \in {"none", "active"} /\ next.read <= counted[k][p]
      /\ next.state = "active" => next.read = counted[k][p]
  <2>1. counted[k][p] \in Nat
    BY CountsAreNaturals DEF ProposalInv
  <2> QED
    BY <2>1 DEF CountIdle, ProposalJob
<1> HIDE DEF next
<1>3. /\ jobs' \in [CountKinds -> [Proposals -> ProposalJob]]
      /\ \A l \in CountKinds, q \in Proposals :
            IF l = k /\ q = p THEN jobs'[l][q] = next ELSE jobs'[l][q] = jobs[l][q]
  BY <1>1, <1>2 DEF ProposalInv, ProposalTypes
<1>4. ProposalTypes'
  BY <1>1, <1>3 DEF ProposalInv, ProposalTypes
<1>5. StoredIsOfChain' /\ ListIsOfPast' /\ KnownIsOfPast'
  BY <1>1 DEF ProposalInv, StoredIsOfChain, ListIsOfPast, KnownIsOfPast
<1>6. CountsAreOfPast'
  BY <1>1, <1>2, <1>3 DEF ProposalInv, CountsAreOfPast
<1>7. KeptFail'
  BY <1>1, <1>2, <1>3 DEF ProposalInv, KeptFail
<1> QED
  BY <1>4, <1>5, <1>6, <1>7 DEF ProposalInv

\* What bull keeps after one more has failed.
LEMMA KeptLemma ==
    ASSUME NEW s \in Seq(Proposals), IsInjective(s), NEW p \in Proposals, p \notin Range(s)
    PROVE  /\ Append(s, p) \in Seq(Proposals) /\ IsInjective(Append(s, p))
           /\ Range(Append(s, p)) = Range(s) \union {p}
<1> DEFINE t == Append(s, p)
           n == Len(s)
<1>1. /\ t \in Seq(Proposals) /\ DOMAIN t = 1 .. n + 1 /\ DOMAIN s = 1 .. n /\ n \in Nat
      /\ t[n + 1] = p /\ \A i \in 1 .. n : t[i] = s[i]
  OBVIOUS
<1> HIDE DEF t, n
<1>2. Range(t) = Range(s) \union {p}
  <2>1. DOMAIN t = DOMAIN s \union {n + 1} /\ \A i \in DOMAIN s : t[i] = s[i]
    BY <1>1
  <2> QED
    <3>1. n + 1 \in DOMAIN t
      BY <2>1
    <3>2. ASSUME NEW x PROVE x \in Range(t) <=> x \in Range(s) \union {p}
      <4>1. x \in Range(t) => x \in Range(s) \union {p}
        BY <1>1, <2>1 DEF Range
      <4>2. x \in Range(s) => x \in Range(t)
        BY <2>1 DEF Range
      <4>3. p \in Range(t)
        BY <1>1, <3>1 DEF Range
      <4> QED
        BY <4>1, <4>2, <4>3
    <3> QED
      BY <3>2
<1>3. IsInjective(t)
  <2>1. \A i \in 1 .. n : s[i] # p
    BY <1>1 DEF Range
  <2> QED
    BY <1>1, <2>1 DEF IsInjective
<1> QED
  BY <1>1, <1>2, <1>3 DEF t

LEMMA DroppedLemma ==
    ASSUME NEW s \in Seq(Proposals), IsInjective(s), s # <<>>
    PROVE  /\ Tail(s) \in Seq(Proposals) /\ IsInjective(Tail(s))
           /\ Range(Tail(s)) = Range(s) \ {Head(s)}
<1> DEFINE t == Tail(s)
           n == Len(s)
<1>1. /\ t \in Seq(Proposals) /\ DOMAIN t = 1 .. n - 1 /\ DOMAIN s = 1 .. n /\ n \in Nat \ {0}
      /\ Head(s) = s[1] /\ \A i \in 1 .. n - 1 : t[i] = s[i + 1]
  OBVIOUS
<1>2. \A i, j \in 1 .. n : s[i] = s[j] => i = j
  BY <1>1 DEF IsInjective
<1> HIDE DEF t, n
<1>3. ASSUME NEW x PROVE x \in Range(t) <=> x \in Range(s) \ {Head(s)}
  <2>1. ASSUME x \in Range(t) PROVE x \in Range(s) \ {Head(s)}
    <3>1. PICK i \in 1 .. n - 1 : x = s[i + 1]
      BY <1>1, <2>1 DEF Range
    <3>2. i + 1 \in 1 .. n /\ 1 \in 1 .. n /\ i + 1 # 1
      BY <1>1
    <3> QED
      BY <1>1, <1>2, <3>1, <3>2 DEF Range
  <2>2. ASSUME x \in Range(s), x # Head(s) PROVE x \in Range(t)
    <3>1. PICK i \in 1 .. n : x = s[i]
      BY <1>1, <2>2 DEF Range
    <3>2. i - 1 \in 1 .. n - 1 /\ t[i - 1] = x
      BY <1>1, <2>2, <3>1
    <3> QED
      BY <1>1, <3>2 DEF Range
  <2> QED
    BY <2>1, <2>2
<1>4. IsInjective(t)
  <2>1. ASSUME NEW i \in 1 .. n - 1, NEW j \in 1 .. n - 1, t[i] = t[j] PROVE i = j
    <3>1. i + 1 \in 1 .. n /\ j + 1 \in 1 .. n /\ s[i + 1] = s[j + 1]
      BY <1>1, <2>1
    <3>2. i + 1 = j + 1
      BY <1>2, <3>1
    <3> QED
      BY <1>1, <3>2
  <2> QED
    BY <1>1, <2>1 DEF IsInjective
<1> QED
  BY <1>1, <1>3, <1>4 DEF t

LEMMA FetchCountFailsStep ==
    ASSUME ProposalInv, NEW k \in CountKinds, NEW p \in Proposals, FetchCountFails(k, p)
    PROVE  ProposalInv'
<1> DEFINE kept == IF k = "tally" THEN failed[k] ELSE Append(failed[k], p)
           full == Len(kept) > KeepFailed
           left == IF full THEN Tail(kept) ELSE kept
           next == [CountIdle EXCEPT !.state = IF k = "tally" THEN "none" ELSE "failed"]
           Next(q) == IF q = p THEN next ELSE IF full /\ q = Head(kept) THEN CountIdle ELSE jobs[k][q]
<1>1. /\ jobs[k][p].state = "waiting"
      /\ failed' = [failed EXCEPT ![k] = left]
      /\ jobs' = [jobs EXCEPT ![k] = [q \in Proposals |-> Next(q)]]
      /\ UNCHANGED <<proposalChain, counted, db, crawl>>
  BY DEF FetchCountFails, ProposalInv, ProposalTypes
<1>2. failed[k] \in Seq(Proposals) /\ IsInjective(failed[k]) /\ p \notin Range(failed[k])
  BY <1>1 DEF ProposalInv, ProposalTypes, KeptFail
<1>3. /\ kept \in Seq(Proposals) /\ IsInjective(kept)
      /\ Range(kept) = IF k = "tally" THEN Range(failed[k]) ELSE Range(failed[k]) \union {p}
  BY <1>2, KeptLemma
<1>4. full => kept # <<>> /\ Head(kept) # p /\ Head(kept) \in Range(kept)
  <2>1. ASSUME full PROVE Len(kept) > 1
    BY <1>3, <2>1, ProposalsAssumption
  <2>2. ASSUME full PROVE failed[k] # <<>> /\ Head(kept) = failed[k][1]
    <3>1. CASE k = "tally"
      BY <1>2, <2>1, <2>2, <3>1
    <3>2. CASE k # "tally"
      <4>1. kept = Append(failed[k], p) /\ Len(kept) = Len(failed[k]) + 1 /\ Len(failed[k]) \in Nat
        BY <1>2, <3>2
      <4>2. Len(failed[k]) >= 1
        BY <2>1, <2>2, <4>1
      <4> QED
        BY <1>2, <4>1, <4>2
    <3> QED
      BY <3>1, <3>2
  <2>3. ASSUME full PROVE failed[k][1] \in Range(failed[k])
    BY <1>2, <2>2, <2>3 DEF Range
  <2> QED
    BY <1>2, <1>3, <2>1, <2>2, <2>3
<1>5. /\ left \in Seq(Proposals) /\ IsInjective(left)
      /\ \A q : q \in Range(left) <=> q \in Range(kept) /\ ~(full /\ q = Head(kept))
  BY <1>3, <1>4, DroppedLemma
<1>6. /\ next \in ProposalJob /\ next.read = 0 /\ next.state = (IF k = "tally" THEN "none" ELSE "failed")
      /\ CountIdle \in ProposalJob /\ CountIdle.read = 0 /\ CountIdle.state = "none"
  BY DEF CountIdle, ProposalJob
<1> HIDE DEF kept, full, left, next, CountIdle
<1>7. \A q \in Proposals : jobs[k][q] \in ProposalJob
  BY DEF ProposalInv, ProposalTypes
<1>8. \A q \in Proposals : Next(q) \in ProposalJob
  BY <1>6, <1>7
<1>9. \A q \in Proposals : Next(q).state = "failed" <=> q \in Range(left)
  <2>1. \A q \in Proposals : jobs[k][q].state = "failed" <=> q \in Range(failed[k])
    BY DEF ProposalInv, KeptFail
  <2>2. ASSUME NEW q \in Proposals PROVE Next(q).state = "failed" <=> q \in Range(left)
    <3>1. CASE q = p
      BY <1>2, <1>3, <1>4, <1>5, <1>6, <3>1
    <3>2. CASE q # p /\ full /\ q = Head(kept)
      BY <1>5, <1>6, <3>2
    <3>3. CASE q # p /\ ~(full /\ q = Head(kept))
      BY <1>3, <1>5, <2>1, <3>3
    <3> QED
      BY <3>1, <3>2, <3>3
  <2> QED
    BY <2>2
<1>10. /\ jobs' \in [CountKinds -> [Proposals -> ProposalJob]]
       /\ failed' \in [CountKinds -> Seq(Proposals)]
       /\ \A q \in Proposals : jobs'[k][q] = Next(q)
       /\ failed'[k] = left
       /\ \A l \in CountKinds \ {k} : jobs'[l] = jobs[l] /\ failed'[l] = failed[l]
  <2>1. [q \in Proposals |-> Next(q)] \in [Proposals -> ProposalJob]
    BY <1>8
  <2> HIDE DEF Next
  <2> QED
    BY <1>1, <1>5, <2>1 DEF ProposalInv, ProposalTypes
<1>11. ProposalTypes'
  BY <1>1, <1>10 DEF ProposalInv, ProposalTypes
<1>12. StoredIsOfChain' /\ ListIsOfPast' /\ KnownIsOfPast'
  BY <1>1 DEF ProposalInv, StoredIsOfChain, ListIsOfPast, KnownIsOfPast
<1>13. CountsAreOfPast'
  <2>1. ASSUME NEW q \in Proposals
        PROVE  /\ Next(q).read <= counted[k][q]
               /\ Next(q).state = "active" => CountOf(k, db[q]) <= Next(q).read
    <3>1. counted[k][q] \in Nat
      BY CountsAreNaturals DEF ProposalInv
    <3>2. CASE Next(q) = jobs[k][q]
      BY <3>2 DEF ProposalInv, CountsAreOfPast
    <3>3. CASE Next(q) = next
      BY <1>6, <3>1, <3>3
    <3>4. CASE Next(q) = CountIdle
      BY <1>6, <3>1, <3>4
    <3> QED
      BY <3>2, <3>3, <3>4
  <2> HIDE DEF Next
  <2> QED
    BY <1>1, <1>10, <2>1 DEF ProposalInv, CountsAreOfPast
<1>14. KeptFail'
  <2> HIDE DEF Next
  <2> QED
    <3>1. ASSUME NEW l \in CountKinds
          PROVE  /\ IsInjective(failed'[l])
                 /\ \A q \in Proposals : jobs'[l][q].state = "failed" <=> q \in Range(failed'[l])
      <4>1. CASE l = k
        <5>1. failed'[l] = left /\ \A q \in Proposals : jobs'[l][q] = Next(q)
          BY <1>10, <4>1
        <5> QED
          BY <1>5, <1>9, <5>1
      <4>2. CASE l # k
        <5>1. failed'[l] = failed[l] /\ jobs'[l] = jobs[l]
          BY <1>10, <4>2
        <5> QED
          BY <5>1 DEF ProposalInv, KeptFail
      <4> QED
        BY <4>1, <4>2
    <3> QED
      BY <3>1, Zenon DEF KeptFail
<1> QED
  BY <1>11, <1>12, <1>13, <1>14 DEF ProposalInv

LEMMA WriteCountStep ==
    ASSUME ProposalInv, NEW k \in CountKinds, NEW p \in Proposals, WriteCount(k, p)
    PROVE  /\ ProposalInv'
           /\ \A q \in Proposals : db'[q].deposit >= db[q].deposit /\ db'[q].tally >= db[q].tally
<1> DEFINE read == jobs[k][p].read
           new == IF k = "deposit" THEN IF read = 0 THEN db[p] ELSE [db[p] EXCEPT !.deposit = read]
                  ELSE [db[p] EXCEPT !.tally = read]
<1>1. /\ jobs[k][p].state = "active" /\ jobs' = [jobs EXCEPT ![k][p] = CountIdle]
      /\ UNCHANGED <<proposalChain, counted, crawl, failed>>
  BY DEF WriteCount
<1>2. /\ db[p] \in ProposalDoc /\ read \in Nat /\ CountOf(k, db[p]) <= read /\ read <= counted[k][p]
      /\ DOMAIN db = Proposals
  BY <1>1, CountsAreNaturals DEF ProposalInv, ProposalTypes, CountsAreOfPast
<1>3. db' = IF db[p] = NoDoc THEN db ELSE [db EXCEPT ![p] = new]
  <2>1. /\ [db EXCEPT ![p].deposit = read] = [db EXCEPT ![p] = [db[p] EXCEPT !.deposit = read]]
        /\ [db EXCEPT ![p].tally = read] = [db EXCEPT ![p] = [db[p] EXCEPT !.tally = read]]
        /\ db = [db EXCEPT ![p] = db[p]]
    BY <1>2 DEF ProposalInv, ProposalTypes
  <2> QED
    BY <2>1 DEF WriteCount
<1>4. /\ new \in ProposalDoc /\ new.status = db[p].status
      /\ new.deposit >= db[p].deposit /\ new.tally >= db[p].tally
      /\ CountOf(k, new) <= read
      /\ \A l \in CountKinds \ {k} : CountOf(l, new) = CountOf(l, db[p])
  <2>1. db[p].deposit \in Nat /\ db[p].tally \in Nat
    BY <1>2 DEF ProposalDoc
  <2>2. CASE k = "deposit" /\ read = 0
    BY <1>2, <2>1, <2>2
  <2>3. CASE k = "deposit" /\ read # 0
    <3>1. new = [db[p] EXCEPT !.deposit = read]
      BY <2>3
    <3>2. /\ new \in ProposalDoc /\ new.status = db[p].status /\ new.deposit = read /\ new.tally = db[p].tally
      BY <1>2, <3>1 DEF ProposalDoc
    <3> HIDE DEF new, read
    <3> QED
      BY <1>2, <2>1, <2>3, <3>2 DEF CountOf
  <2>4. CASE k # "deposit"
    <3>1. new = [db[p] EXCEPT !.tally = read]
      BY <2>4
    <3>2. /\ new \in ProposalDoc /\ new.status = db[p].status /\ new.tally = read /\ new.deposit = db[p].deposit
      BY <1>2, <3>1 DEF ProposalDoc
    <3>3. \A l \in CountKinds \ {k} : l = "deposit"
      BY <2>4 DEF CountKinds
    <3> HIDE DEF new, read
    <3> QED
      BY <1>2, <2>1, <2>4, <3>2, <3>3 DEF CountOf
  <2> QED
    BY <2>2, <2>3, <2>4
<1> HIDE DEF read, new
<1>5. Proper(db[p]) /\ (db[p] # NoDoc => Shown(db[p]))
  BY DEF ProposalInv, StoredIsOfChain, Proper
<1>6. ASSUME NEW q \in Proposals
      PROVE  /\ db'[q] \in ProposalDoc /\ db'[q].status = db[q].status /\ Proper(db'[q])
             /\ db'[q].deposit >= db[q].deposit /\ db'[q].tally >= db[q].tally
             /\ \A l \in CountKinds : /\ CountOf(l, db'[q]) >= CountOf(l, db[q]) /\ CountOf(l, db'[q]) \in Nat
                                      /\ CountOf(l, db'[q]) <= counted[l][q]
                                      /\ ~(l = k /\ q = p) => CountOf(l, db'[q]) = CountOf(l, db[q])
  <2>1. /\ db[q] \in ProposalDoc /\ Proper(db[q])
        /\ \A l \in CountKinds : CountOf(l, db[q]) \in Nat /\ CountOf(l, db[q]) <= counted[l][q]
    BY CountsAreNaturals DEF ProposalInv, ProposalTypes, StoredIsOfChain, CountsAreOfPast
  <2>2. CASE db'[q] = db[q]
    <3>1. db[q].deposit \in Nat /\ db[q].tally \in Nat
      BY <2>1 DEF ProposalDoc
    <3> HIDE DEF CountOf
    <3> QED
      BY <2>1, <2>2, <3>1
  <2>3. CASE q = p /\ db[p] # NoDoc /\ db'[q] = new
    <3>1. Shown(new)
      BY <1>4, <1>5, <2>3 DEF Shown
    <3>2. ASSUME NEW l \in CountKinds
          PROVE  /\ CountOf(l, new) >= CountOf(l, db[p]) /\ CountOf(l, new) \in Nat
                 /\ CountOf(l, new) <= counted[l][p]
                 /\ l # k => CountOf(l, new) = CountOf(l, db[p])
      <4>1. CountOf(l, new) \in Nat
        BY <1>4 DEF ProposalDoc, CountOf
      <4>2. CountOf(l, new) >= CountOf(l, db[p])
        BY <1>4 DEF CountOf
      <4>3. counted[l][p] \in Nat
        BY CountsAreNaturals DEF ProposalInv
      <4> HIDE DEF CountOf
      <4>4. CASE l = k
        BY <1>2, <1>4, <4>1, <4>2, <4>3, <4>4
      <4>5. CASE l # k
        BY <1>4, <2>1, <2>3, <4>1, <4>2, <4>5
      <4> QED
        BY <4>4, <4>5
    <3> QED
      BY <1>4, <2>3, <3>1, <3>2, Zenon DEF Proper
  <2> QED
    BY <1>2, <1>3, <2>2, <2>3
<1>7. /\ CountIdle \in ProposalJob /\ CountIdle.read = 0 /\ CountIdle.state = "none"
  BY DEF CountIdle, ProposalJob
<1> HIDE DEF CountIdle
<1>8. /\ jobs' \in [CountKinds -> [Proposals -> ProposalJob]]
      /\ \A l \in CountKinds, q \in Proposals :
            IF l = k /\ q = p THEN jobs'[l][q] = CountIdle ELSE jobs'[l][q] = jobs[l][q]
  BY <1>1, <1>7 DEF ProposalInv, ProposalTypes
<1>9. ProposalTypes'
  <2>1. db' \in [Proposals -> ProposalDoc]
    <3>1. db' = [q \in Proposals |-> db'[q]]
      <4>1. db = [q \in Proposals |-> db[q]]
        BY DEF ProposalInv, ProposalTypes
      <4> QED
        BY <1>3, <4>1
    <3> QED
      BY <1>6, <3>1
  <2> QED
    BY <1>1, <1>8, <2>1 DEF ProposalInv, ProposalTypes
<1>10. StoredIsOfChain' /\ ListIsOfPast'
  BY <1>1, <1>6 DEF ProposalInv, StoredIsOfChain, ListIsOfPast, Shown
<1>11. KnownIsOfPast'
  <2>1. ASSUME crawl.pc = "read", NEW q \in Proposals
        PROVE  /\ Proper(crawl.known[q])
               /\ Shown(crawl.known[q]) <=> Shown(db'[q])
               /\ \A l \in CountKinds : CountOf(l, crawl.known[q]) <= CountOf(l, db'[q])
    <3>1. /\ Proper(crawl.known[q]) /\ (Shown(crawl.known[q]) <=> Shown(db[q]))
          /\ \A l \in CountKinds : CountOf(l, crawl.known[q]) <= CountOf(l, db[q])
      BY <2>1 DEF ProposalInv, KnownIsOfPast
    <3>2. \A l \in CountKinds : CountOf(l, crawl.known[q]) \in Nat /\ CountOf(l, db[q]) \in Nat
      BY CountsAreNaturals DEF ProposalInv
    <3>3. Shown(db'[q]) <=> Shown(db[q])
      BY <1>6 DEF Shown
    <3>4. ASSUME NEW l \in CountKinds PROVE CountOf(l, crawl.known[q]) <= CountOf(l, db'[q])
      <4> HIDE DEF CountOf
      <4>1. /\ CountOf(l, db'[q]) >= CountOf(l, db[q]) /\ CountOf(l, db'[q]) \in Nat
        BY <1>6
      <4> QED
        BY <3>1, <3>2, <4>1
    <3> QED
      BY <3>1, <3>3, <3>4
  <2> QED
    BY <1>1, <2>1, Zenon DEF KnownIsOfPast
<1>12. CountsAreOfPast'
  <2>1. ASSUME NEW l \in CountKinds, NEW q \in Proposals
        PROVE  /\ CountOf(l, db'[q]) <= counted[l][q]
               /\ jobs'[l][q].read <= counted[l][q]
               /\ jobs'[l][q].state = "active" => CountOf(l, db'[q]) <= jobs'[l][q].read
    <3>1. counted[l][q] \in Nat
      BY CountsAreNaturals DEF ProposalInv
    <3>2. CASE l = k /\ q = p
      BY <1>6, <1>7, <1>8, <3>1, <3>2
    <3>3. CASE ~(l = k /\ q = p)
      <4>1. jobs'[l][q] = jobs[l][q] /\ CountOf(l, db'[q]) = CountOf(l, db[q])
        BY <1>6, <1>8, <3>3
      <4> QED
        BY <4>1, Zenon DEF ProposalInv, CountsAreOfPast
    <3> QED
      BY <3>2, <3>3
  <2> QED
    BY <1>1, <2>1, Zenon DEF CountsAreOfPast
<1>13. KeptFail'
  BY <1>1, <1>7, <1>8 DEF ProposalInv, KeptFail
<1> QED
  BY <1>6, <1>9, <1>10, <1>11, <1>12, <1>13 DEF ProposalInv

LEMMA CrashProposalsStep == ASSUME ProposalInv, CrashProposals PROVE ProposalInv'
<1>1. /\ crawl' = NoCrawl /\ UNCHANGED <<proposalChain, counted, db, failed>>
      /\ jobs' = [k \in CountKinds |-> [p \in Proposals |->
             IF jobs[k][p].state = "active" THEN [state |-> "waiting", read |-> 0] ELSE jobs[k][p]]]
  BY DEF CrashProposals
<1>2. ASSUME NEW k \in CountKinds, NEW p \in Proposals
      PROVE  /\ jobs'[k][p] \in ProposalJob /\ jobs'[k][p].state # "active"
             /\ jobs'[k][p].read \in {0, jobs[k][p].read}
             /\ jobs'[k][p].state = "failed" <=> jobs[k][p].state = "failed"
  <2>1. jobs[k][p] \in ProposalJob
    BY DEF ProposalInv, ProposalTypes
  <2> QED
    BY <1>1, <2>1 DEF ProposalJob
<1>3. jobs' \in [CountKinds -> [Proposals -> ProposalJob]]
  <2>1. jobs' = [k \in CountKinds |-> [p \in Proposals |-> jobs'[k][p]]]
    BY <1>1
  <2> QED
    BY <1>2, <2>1
<1>4. ProposalTypes'
  <2>1. NoDoc \in ProposalDoc /\ "none" \in ChainStatuses
    BY DEF NoDoc, ProposalDoc, ProposalStatuses, ChainStatuses
  <2>2. crawl' \in [pc : {"idle", "listed", "read"}, list : [Proposals -> ChainStatuses],
                    known : [Proposals -> ProposalDoc]]
    <3> HIDE DEF NoDoc
    <3> QED
      BY <1>1, <2>1 DEF NoCrawl
  <2> QED
    BY <1>1, <1>3, <2>2 DEF ProposalInv, ProposalTypes
<1>5. ListIsOfPast' /\ KnownIsOfPast'
  BY <1>1 DEF ListIsOfPast, KnownIsOfPast, NoCrawl
<1>6. CountsAreOfPast'
  <2>1. \A k \in CountKinds, p \in Proposals : counted[k][p] \in Nat
    BY CountsAreNaturals DEF ProposalInv
  <2> QED
    BY <1>1, <1>2, <2>1 DEF ProposalInv, CountsAreOfPast
<1>7. StoredIsOfChain'
  BY <1>1 DEF ProposalInv, StoredIsOfChain
<1>8. KeptFail'
  BY <1>1, <1>2 DEF ProposalInv, KeptFail
<1> QED
  BY <1>4, <1>5, <1>6, <1>7, <1>8 DEF ProposalInv

LEMMA NextProposalInv == ProposalInv /\ [ProposalNext]_proposalVars => ProposalInv'
<1> SUFFICES ASSUME ProposalInv, [ProposalNext]_proposalVars PROVE ProposalInv'
  OBVIOUS
<1>1. CASE UNCHANGED proposalVars
  BY <1>1 DEF proposalVars, ProposalInv, ProposalTypes, StoredIsOfChain, ListIsOfPast, KnownIsOfPast,
              CountsAreOfPast, KeptFail
<1> QED
  BY <1>1, ChainMovesStep, ChainCountsStep, FetchProposalsStep, ReadProposalsStep, WriteProposalsStep,
     FetchCountStep, FetchCountFailsStep, WriteCountStep, CrashProposalsStep
     DEF ProposalNext, CrawlProposal, CountJob

\* Of all steps, two write documents.
LEMMA CountsStep ==
    ASSUME ProposalInv, [ProposalNext]_proposalVars, NEW p \in Proposals,
           db'[p].deposit < db[p].deposit \/ db'[p].tally < db[p].tally
    PROVE  db'[p].status = "not enough deposit"
<1>1. db[p].deposit \in Nat /\ db[p].tally \in Nat /\ db'[p].deposit \in Nat /\ db'[p].tally \in Nat
  <2>1. db[p] \in ProposalDoc /\ db'[p] \in ProposalDoc
    BY NextProposalInv DEF ProposalInv, ProposalTypes
  <2> QED
    BY <2>1 DEF ProposalDoc
<1>2. db' # db
  BY <1>1
<1>3. CASE WriteProposals
  <2>1. \A k \in CountKinds : CountOf(k, db[p])' < CountOf(k, db[p]) => db'[p].status = "not enough deposit"
    BY <1>3, WriteProposalsStep
  <2>2. "deposit" \in CountKinds /\ "tally" \in CountKinds
    BY DEF CountKinds
  <2> QED
    BY <2>1, <2>2 DEF CountOf
<1>4. CASE \E k \in CountKinds, q \in Proposals : WriteCount(k, q)
  <2>1. db'[p].deposit >= db[p].deposit /\ db'[p].tally >= db[p].tally
    BY <1>4, WriteCountStep
  <2>2. \A m, n \in Nat : m >= n => ~(m < n)
    OBVIOUS
  <2> QED
    BY <1>1, <2>1, <2>2, Zenon
<1> QED
  BY <1>2, <1>3, <1>4 DEF ProposalNext, CrawlProposal, CountJob, ChainMoves, ChainCounts, FetchProposals,
     ReadProposals, FetchCount, FetchCountFails, CrashProposals, proposalVars

\* With lists that are old when they are written, counts that are fetched meanwhile, failed jobs and deaths: a
\* proposal is closed only when the chain dropped it, and a deposit or tally goes back to less only in the write
\* that closes it (crawl-proposal.service.ts:104-147, crawl-deposit-proposal.service.ts:50,
\* crawl-tally-proposal.service.ts:62).
THEOREM ProposalsGoRight == ProposalSpec => ProposalsAreRight
<1>1. ProposalInv /\ [ProposalNext]_proposalVars =>
        [\A p \in Proposals :
            db'[p].deposit < db[p].deposit \/ db'[p].tally < db[p].tally
               => db'[p].status = "not enough deposit"]_proposalVars
  BY CountsStep
<1> QED
  BY <1>1, InitProposalInv, NextProposalInv, ProposalLemma, PTL
     DEF ProposalSpec, ProposalsAreRight, CountsGoBackOnlyClosing

=============================================================================
