-------------------------------- MODULE Votes --------------------------------
(* services/proposal-vote-manager: vote-handler reads the votes off the        *)
(* transactions and calls vote-manager for each, awaiting nothing; the manager *)
(* looks a vote of that voter up, and then updates it or inserts another.  The *)
(* collection has no unique index (vote.model.ts:26-29).  Two jobs of          *)
(* services/job work on the same collection: one takes the votes of the        *)
(* stored transactions again, one adds the codes that old votes lack.          *)
EXTENDS Integers, SequencesExt

CONSTANTS
    Keys,               \* pairs of proposal and voter
    VoteTxs,            \* the transactions in the order of the chain: [code, votes]
    Uncoded,            \* the first of them, whose votes were stored without a code
    ScanLimit,          \* transactions a scan takes at a time (100)
    MaxScans,           \* bound: starts of the job that takes votes from transactions
    MaxVoteCrashes      \* bound: crashes of the manager

ASSUME VotesAssumption ==
    /\ VoteTxs \in Seq([code : Nat, votes : Seq(Keys)])
    /\ Uncoded \in 0 .. Len(VoteTxs)
    /\ ScanLimit \in Nat \ {0}
    /\ {MaxScans, MaxVoteCrashes} \subseteq Nat

NoCode == -1

\* The votes of a transaction: its position and theirs, in the order of the chain.
VotesIn(t) == {<<t, i>> : i \in DOMAIN VoteTxs[t].votes}

KeyOf(v) == VoteTxs[v[1]].votes[v[2]]

\* Vote v is cast after u...
Later(v, u) == v[1] > u[1] \/ (v[1] = u[1] /\ v[2] > u[2])

\* ... and the last votes of a set, one of each voter for a proposal.
LastVotes(S) == {v \in S : \A u \in S : KeyOf(u) = KeyOf(v) => ~Later(u, v)}

VARIABLES
    handledTxs,         \* transactions whose job of proposal.vote has run
    calls,              \* calls of the manager: [vote, scan, found : -1 before the find]
    voteRecords,        \* the vote collection in the order of _id: [vote, code]
    scanQueue,          \* waiting jobs of job-take-vote-from-tx: the last transaction of each
    lastScanned,        \* the cursor in Redis
    recoding,           \* votes that job-update-code-for-vote has read without a code
    lostVotes,          \* history: votes whose call died with the manager
    disturbed,          \* history: keys with calls that overlapped or came out of order,
                        \* or fell between the two halves of the job that adds codes
    scans, voteCrashes

voteVars == <<handledTxs, calls, voteRecords, scanQueue, lastScanned, recoding, lostVotes, disturbed, scans,
              voteCrashes>>

VotesInit ==
    /\ handledTxs = 1 .. Uncoded
    /\ calls = {}
    /\ \E old \in SetToSeqs(LastVotes(UNION {VotesIn(t) : t \in 1 .. Uncoded})) :
          voteRecords = [i \in DOMAIN old |-> [vote |-> old[i], code |-> NoCode]]
    /\ scanQueue = <<>> /\ lastScanned = 0
    /\ recoding = {}
    /\ lostVotes = {} /\ disturbed = {}
    /\ scans = 0 /\ voteCrashes = 0

\* The call for a vote disturbs its key if another one is under way, or a later
\* vote is there already.
Disturbs(v) ==
    \/ \E c \in calls : KeyOf(c.vote) = KeyOf(v)
    \/ \E i \in DOMAIN voteRecords : KeyOf(voteRecords[i].vote) = KeyOf(v) /\ Later(voteRecords[i].vote, v)

\* Calls for the votes of a set of transactions, but those that failed.
Take(ts, scan) ==
    LET votes == UNION {VotesIn(t) : t \in {s \in ts : VoteTxs[s].code = 0}}
    IN /\ calls' = calls \union {[vote |-> v, scan |-> scan, found |-> -1] : v \in votes}
       /\ disturbed' = disturbed \union {KeyOf(v) : v \in {u \in votes : Disturbs(u)
                           \/ \E w \in votes \ {u} : KeyOf(w) = KeyOf(u)}}

\* A job of proposal.vote; the transactions are stored in any order.
HandleTx(t) ==
    /\ t \notin handledTxs
    /\ handledTxs' = handledTxs \union {t}
    /\ Take({t}, FALSE)
    /\ UNCHANGED <<voteRecords, scanQueue, lastScanned, recoding, lostVotes, scans, voteCrashes>>

Min0(S) == IF S = {} THEN 0 ELSE CHOOSE x \in S : \A y \in S : x <= y

\* The manager looks for a vote of the voter for the proposal: the first one.
FindVote(c) ==
    /\ c.found = -1
    /\ calls' = (calls \ {c}) \union
           {[c EXCEPT !.found = Min0({i \in DOMAIN voteRecords : KeyOf(voteRecords[i].vote) = KeyOf(c.vote)})]}
    /\ UNCHANGED <<handledTxs, voteRecords, scanQueue, lastScanned, recoding, lostVotes, disturbed, scans,
                   voteCrashes>>

\* Variant for the mutants: every vote is inserted.
InsertVote(c) ==
    /\ c.found # -1
    /\ calls' = calls \ {c}
    /\ voteRecords' = Append(voteRecords, [vote |-> c.vote, code |-> 0])
    /\ UNCHANGED <<handledTxs, scanQueue, lastScanned, recoding, lostVotes, disturbed, scans, voteCrashes>>

\* The vote that was found is updated, or a new one inserted.
WriteVote(c) ==
    /\ c.found # -1
    /\ calls' = calls \ {c}
    /\ voteRecords' = IF c.found = 0
                  THEN Append(voteRecords, [vote |-> c.vote, code |-> 0])
                  ELSE [voteRecords EXCEPT ![c.found] = [vote |-> c.vote, code |-> 0]]
    /\ disturbed' = IF \E r \in recoding : r[1] = c.found
                    THEN disturbed \union {KeyOf(c.vote)} ELSE disturbed
    /\ UNCHANGED <<handledTxs, scanQueue, lastScanned, recoding, lostVotes, scans, voteCrashes>>

\* The manager dies, or its database fails: nobody waits for the calls.
ManagerDies ==
    /\ voteCrashes < MaxVoteCrashes
    /\ calls # {}
    /\ voteCrashes' = voteCrashes + 1
    /\ lostVotes' = lostVotes \union {c.vote : c \in calls}
    /\ calls' = {}
    /\ UNCHANGED <<handledTxs, voteRecords, scanQueue, lastScanned, recoding, disturbed, scans>>

-----------------------------------------------------------------------------
\* job-take-vote-from-tx: a start reads the cursor,
StartScan ==
    /\ scans < MaxScans
    /\ scans' = scans + 1
    /\ scanQueue' = Append(scanQueue, lastScanned)
    /\ UNCHANGED <<handledTxs, calls, voteRecords, lastScanned, recoding, lostVotes, disturbed, voteCrashes>>

\* and a job takes the votes of the transactions that follow.  Redis gets the
\* cursor and the next job before the votes are taken.
ScanVotes ==
    /\ scanQueue # <<>>
    /\ LET found == {t \in handledTxs : t > Head(scanQueue)}
           batch == {t \in found : Cardinality({s \in found : s < t}) < ScanLimit}
           last  == CHOOSE t \in batch : \A s \in batch : s <= t
       IN IF batch = {}
          THEN scanQueue' = Tail(scanQueue) /\ UNCHANGED <<lastScanned, calls, disturbed>>
          ELSE /\ lastScanned' = last
               /\ scanQueue' = Append(Tail(scanQueue), last)
               /\ Take(batch, TRUE)
    /\ UNCHANGED <<handledTxs, voteRecords, recoding, lostVotes, scans, voteCrashes>>

\* job-take-vote-from-tx-aggregate does the same with the transactions in the archive,
\* one at a time and with a cursor of its own.
ScanVotesAggregate == ScanVotes

\* job-update-code-for-vote reads the votes without a code,
ReadUncoded ==
    /\ recoding = {}
    /\ recoding' = {<<i, voteRecords[i].vote>> : i \in {j \in DOMAIN voteRecords : voteRecords[j].code = NoCode}}
    /\ UNCHANGED <<handledTxs, calls, voteRecords, scanQueue, lastScanned, lostVotes, disturbed, scans,
                   voteCrashes>>

\* and gives them the codes of the transactions they had.
WriteCodes ==
    /\ recoding # {}
    /\ recoding' = {}
    /\ voteRecords' = [i \in DOMAIN voteRecords |->
           IF \E r \in recoding : r[1] = i
           THEN [voteRecords[i] EXCEPT !.code = VoteTxs[(CHOOSE r \in recoding : r[1] = i)[2][1]].code]
           ELSE voteRecords[i]]
    /\ UNCHANGED <<handledTxs, calls, scanQueue, lastScanned, lostVotes, disturbed, scans, voteCrashes>>

ManagerNext == (\E c \in calls : FindVote(c) \/ WriteVote(c)) \/ ManagerDies

VotesNext ==
    \/ \E t \in DOMAIN VoteTxs : HandleTx(t)
    \/ ManagerNext
    \/ StartScan \/ ScanVotes
    \/ ReadUncoded \/ WriteCodes

VotesSpec == VotesInit /\ [][VotesNext]_voteVars

-----------------------------------------------------------------------------
\* Votes of the chain; a call knows a record or none.
VotesTypeOK ==
    /\ handledTxs \subseteq DOMAIN VoteTxs
    /\ \A c \in calls : c.found \in -1 .. Len(voteRecords)
    /\ \A i \in DOMAIN voteRecords : voteRecords[i].vote \in VotesIn(voteRecords[i].vote[1])
    /\ lastScanned \in handledTxs \union {0}

\* The votes of a key there are on the chain, as far as the transactions are handled.
Cast(k) == {v \in UNION {VotesIn(t) : t \in handledTxs} :
               KeyOf(v) = k /\ (VoteTxs[v[1]].code = 0 \/ v[1] <= Uncoded)}

RecordsOf(k) == {i \in DOMAIN voteRecords : KeyOf(voteRecords[i].vote) = k}

\* vote-manager.service.ts:35-52: a voter has one vote for a proposal, the last one,
\* unless calls for it overlapped or came late: nothing but luck orders the calls.
LastVoteOnce ==
    \A k \in Keys \ disturbed :
        /\ Cardinality(RecordsOf(k)) <= 1
        /\ (\A c \in calls : KeyOf(c.vote) # k) /\ Cast(k) \ lostVotes # {} /\ Cast(k) \intersect lostVotes = {} =>
              \E i \in RecordsOf(k) : \A v \in Cast(k) : ~Later(v, voteRecords[i].vote)

\* No vote is dropped silently: a voter whose call was made and not lost has a vote.
EveryVoterIsStored ==
    \A k \in Keys :
        Cast(k) \ lostVotes # {} /\ (\A c \in calls : KeyOf(c.vote) # k) => RecordsOf(k) # {}

\* job-update-code-for-vote.service.ts:62: a vote has the code of its transaction,
\* unless the manager changed it between the read and the write of the codes.
CodeIsOfItsTx ==
    \A i \in DOMAIN voteRecords :
        LET r == voteRecords[i]
        IN r.code \in {NoCode, VoteTxs[r.vote[1]].code} \/ KeyOf(r.vote) \in disturbed

-----------------------------------------------------------------------------
(* services/job/job-remove-duplicate-vote: walks the votes of the collection   *)
(* by position, and at each deletes the other votes of that voter for that     *)
(* proposal, one at a time.  The manager goes on inserting meanwhile; a start  *)
(* of the service begins at the first vote again.                              *)

CONSTANTS
    MaxVotes,           \* bound: votes there are at first
    MaxInserts,         \* bound: votes inserted while the job runs
    MaxRemoveStarts,    \* bound: starts of the service
    GroupLimit          \* votes of a voter that are read at a time (100)

ASSUME RemoveAssumption ==
    /\ {MaxVotes, MaxInserts, MaxRemoveStarts} \subseteq Nat
    /\ GroupLimit \in Nat \ {0}

VARIABLES
    votes,              \* the collection in the order of _id: [id, key]
    nextId,             \* the _id of the next insert
    removal,            \* the job: [i, group, done], its position and what it has yet to delete
    starts

removeVars == <<votes, nextId, removal, starts>>

RemoverIdle == [i |-> 0, group |-> {}, done |-> TRUE]

RemoveInit ==
    /\ \E n \in 0 .. MaxVotes : \E f \in [1 .. n -> Keys] :
          votes = [i \in 1 .. n |-> [id |-> i, key |-> f[i]]]
    /\ nextId = MaxVotes + 1
    /\ removal = RemoverIdle
    /\ starts = 0

\* The manager inserts a vote.
InsertDuplicate(k) ==
    /\ nextId <= MaxVotes + MaxInserts
    /\ nextId' = nextId + 1
    /\ votes' = Append(votes, [id |-> nextId, key |-> k])
    /\ UNCHANGED <<removal, starts>>

\* The process starts, for the first time or after it died.
StartRemove ==
    /\ starts < MaxRemoveStarts
    /\ starts' = starts + 1
    /\ removal' = [i |-> 0, group |-> {}, done |-> FALSE]
    /\ UNCHANGED <<votes, nextId>>

\* The votes of a voter, the newest first and not the first.
Others(k) ==
    LET ids == {v.id : v \in {w \in Range(votes) : w.key = k}}
    IN {d \in ids : Cardinality({c \in ids : c > d}) \in 1 .. GroupLimit - 1}

\* The vote at the position, and those of its voter.
ReadGroup ==
    /\ ~removal.done /\ removal.group = {}
    /\ removal' = IF removal.i >= Len(votes)
               THEN [removal EXCEPT !.done = TRUE]
               ELSE [removal EXCEPT !.i = @ + 1, !.group = Others(votes[removal.i + 1].key)]
    /\ UNCHANGED <<votes, nextId, starts>>

\* removeById, the newest of those that are to go first.
RemoveOne ==
    /\ removal.group # {}
    /\ LET d == CHOOSE x \in removal.group : \A y \in removal.group : y <= x
       IN /\ removal' = [removal EXCEPT !.group = @ \ {d}]
          /\ \E i \in DOMAIN votes : votes[i].id = d /\ votes' = RemoveAt(votes, i)
    /\ UNCHANGED <<nextId, starts>>

RemoveNext ==
    \/ \E k \in Keys : InsertDuplicate(k)
    \/ StartRemove \/ ReadGroup \/ RemoveOne

RemoveSpec == RemoveInit /\ [][RemoveNext]_removeVars

-----------------------------------------------------------------------------
\* The collection is in the order of _id.
RemoveTypeOK ==
    /\ \A i, j \in DOMAIN votes : i < j => votes[i].id < votes[j].id
    /\ \A v \in Range(votes) : v.id < nextId /\ v.key \in Keys
    /\ removal.group \subseteq 1 .. nextId - 1

Newest(k) == {v \in Range(votes) : v.key = k /\ \A w \in Range(votes) : w.key = k => w.id <= v.id}

\* job-remove-duplicate-vote.service.ts:64: whatever is inserted meanwhile and
\* wherever the process dies, the newest vote of a voter is never deleted.
NewestIsKept ==
    [][\A k \in Keys : \A v \in Newest(k) :
           v \in Range(votes)' \/ \E w \in Range(votes)' : w.key = k /\ w.id > v.id]_removeVars

\* The votes of a proposal, with calls of the manager, scans of the job for codes and the walk
\* of the job for duplicates in between: a voter has one vote, the last, with the code of
\* its transaction, and keeps the newest
\* (vote-manager.service.ts:26-55, job-update-code-for-vote.service.ts:43-88,
\* job-remove-duplicate-vote.service.ts:40-74).
VotesAreRight ==
    /\ [](/\ VotesTypeOK
          /\ RemoveTypeOK
          /\ LastVoteOnce
          /\ EveryVoterIsStored
          /\ CodeIsOfItsTx)
    /\ NewestIsKept
=============================================================================
