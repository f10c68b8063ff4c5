-------------------------- MODULE FeegrantHistoryDb --------------------------
(* services/feegrant/feegrant-history-db.service.ts: a job turns actions into *)
(* records, inserts the new grants into the feegrant collection and then all  *)
(* of them into the history.  `process` does not await handleJob, so jobs     *)
(* complete at once and their inserts run beside each other.                  *)
EXTENDS FeegrantStore

CONSTANT MaxHistoryFailures  \* bound: failed inserts and crashes of the process

ASSUME HistoryDbAssumption == MaxHistoryFailures \in Nat

VARIABLES
    historyWork,    \* running handleJobs: [list, step], in no order
    unrecorded,     \* history: transactions whose insert failed
    lostWork,       \* history: transactions whose handleJob died with the process
    historyFailures \* failures so far

historyOwnVars == <<historyWork, unrecorded, lostWork, historyFailures>>

historyVars == <<historyQueue, history, grants, historyOwnVars>>

\* The records of a list of transactions.
RecordsOfList(list) == FlattenSeq([i \in DOMAIN list |-> RecordsOf[list[i]]])

\* What is new in a list of records, under the unique index of a collection that
\* holds `keys`: every record but those whose key is there already.
NewRecords(keys, list) ==
    LET first(i) == /\ KeyOf(list[i]) \notin keys
                    /\ \A j \in 1 .. i - 1 : KeyOf(list[j]) # KeyOf(list[i])
    IN Selected(list, {i \in DOMAIN list : first(i)})

HistoryKeys == {KeyOf(history[i].rec) : i \in DOMAIN history}
GrantKeys == {<<g.tx, "create", g.status>> : g \in grants}

NewGrant(r) ==
    [tx |-> r.tx, granter |-> r.granter, grantee |-> r.grantee, result |-> r.result,
     amount |-> r.amount, status |-> r.status, revokedBy |-> NoHash]

\* Variant for the mutants: the origin of a create is taken from the wrong field.
EntryOfGranter(r) == [rec |-> r, origin |-> IF r.action = "create" THEN r.granter ELSE NoHash]

\* A record as it enters the history: a create is its own origin.
Entry(r) == [rec |-> r, origin |-> IF r.action = "create" THEN r.tx ELSE NoHash]

HistoryInit ==
    /\ history = <<>>
    /\ grants = {}
    /\ historyWork = <<>>
    /\ unrecorded = {}
    /\ lostWork = {}
    /\ historyFailures = 0

\* A job of feegrant.history-db starts handleJob and completes.
StartHistoryJob ==
    /\ historyQueue # <<>>
    /\ historyQueue' = Tail(historyQueue)
    /\ historyWork' = Append(historyWork,
                             [list |-> Head(historyQueue).data, step |-> "grants"])
    /\ UNCHANGED <<history, grants, unrecorded, lostWork, historyFailures>>

\* A failing insert is caught, and handleJob goes on.
HistoryFails(w) ==
    /\ historyFailures < MaxHistoryFailures
    /\ historyFailures' = historyFailures + 1
    /\ unrecorded' = unrecorded \union ToSet(w.list)

\* v1.feegrantDb.insert: the create records become grants.
InsertGrants(i) ==
    LET w == historyWork[i]
        all == RecordsOfList(w.list)
        creates == Selected(all, {j \in DOMAIN all : all[j].action = "create"})
    IN /\ w.step = "grants"
       /\ \/ /\ grants' = grants \union
                    {NewGrant(r) : r \in ToSet(NewRecords(GrantKeys, creates))}
             /\ UNCHANGED <<unrecorded, historyFailures>>
          \/ HistoryFails(w) /\ UNCHANGED grants
       /\ historyWork' = [historyWork EXCEPT ![i].step = "records"]
       /\ UNCHANGED <<historyQueue, history, lostWork>>

\* adapter.insertMany: all records enter the history.
InsertRecords(i) ==
    LET w == historyWork[i]
        new == NewRecords(HistoryKeys, RecordsOfList(w.list))
    IN /\ w.step = "records"
       /\ \/ /\ history' = history \o [j \in DOMAIN new |-> Entry(new[j])]
             /\ UNCHANGED <<unrecorded, historyFailures>>
          \/ HistoryFails(w) /\ UNCHANGED history
       /\ historyWork' = RemoveAt(historyWork, i)
       /\ UNCHANGED <<historyQueue, grants, lostWork>>

\* The process dies with its running handleJobs, whose jobs are completed.
CrashHistory ==
    /\ historyFailures < MaxHistoryFailures
    /\ historyFailures' = historyFailures + 1
    /\ lostWork' = lostWork \union
           UNION {ToSet(historyWork[i].list) : i \in DOMAIN historyWork}
    /\ historyWork' = <<>>
    /\ UNCHANGED <<historyQueue, history, grants, unrecorded>>

HistoryNext ==
    \/ StartHistoryJob
    \/ \E i \in DOMAIN historyWork : InsertGrants(i) \/ InsertRecords(i)
    \/ CrashHistory

HistoryFairness ==
    /\ WF_historyVars(StartHistoryJob)
    /\ WF_historyVars(\E i \in DOMAIN historyWork : InsertGrants(i) \/ InsertRecords(i))
=============================================================================
