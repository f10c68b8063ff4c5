----------------------------- MODULE FeegrantDb -----------------------------
(* services/feegrant/feegrant-db.service.ts: a job of feegrant.db adds up the *)
(* uses of each grant, reads what the grants have left, and writes back the   *)
(* difference and a status.  `process` does not await handleJob, so jobs that *)
(* wait together are worked on together.                                      *)
EXTENDS FeegrantStore

CONSTANT MaxDbCrashes   \* bound: crashes of the process

ASSUME FeegrantDbAssumption == MaxDbCrashes \in Nat

VARIABLES
    dbWork,         \* running handleJobs: [list, step, writes]
    dbCrashes       \* crashes so far

dbOwnVars == <<dbWork, dbCrashes>>

dbVars == <<grants, dbQueue, dbOwnVars>>

OriginsOf(list) == {list[i].origin : i \in DOMAIN list}

\* What a record takes from grant t...
Charge(e, t) == IF e.origin = t /\ e.rec.action = "use" THEN e.rec.amount ELSE 0

\* ... mapUpdate: what a list does...
Spent(list, t) ==
    LET sum[n \in 0 .. Len(list)] == IF n = 0 THEN 0 ELSE sum[n - 1] + Charge(list[n], t)
    IN sum[Len(list)]

\* ... and the status it leaves it with: that of its last revoke.
StatusAfter(list, t) ==
    LET revokes == {i \in DOMAIN list : list[i].origin = t /\ list[i].rec.action = "revoke"}
    IN IF revokes = {} THEN "Available" ELSE list[Max(revokes)].rec.status

\* Variant for the mutants: a use is taken off twice.
UpdateTwice(g, list) ==
    [tx |-> g.tx,
     amount |-> IF g.amount = NoLimit THEN NoLimit ELSE g.amount - 2 * Spent(list, g.tx),
     status |-> StatusAfter(list, g.tx)]

\* The update of a grant as handleJob read it.
UpdateOf(g, list) ==
    [tx |-> g.tx,
     amount |-> IF g.amount = NoLimit THEN NoLimit ELSE g.amount - Spent(list, g.tx),
     status |-> StatusAfter(list, g.tx)]

DbInit == dbWork = <<>> /\ dbCrashes = 0

\* A job starts handleJob and completes.
StartDbJob ==
    /\ dbQueue # <<>>
    /\ dbQueue' = Tail(dbQueue)
    /\ dbWork' = Append(dbWork,
                    [list |-> Head(dbQueue).data, step |-> "read", writes |-> <<>>])
    /\ UNCHANGED <<grants, dbCrashes>>

\* The grants come, with what each has left.
ReadGrants(i) ==
    /\ dbWork[i].step = "read"
    /\ \E order \in SetToSeqs({g \in grants : g.tx \in OriginsOf(dbWork[i].list)}) :
          dbWork' = [dbWork EXCEPT
              ![i].step = "write",
              ![i].writes = [j \in DOMAIN order |-> UpdateOf(order[j], dbWork[i].list)]]
    /\ UNCHANGED <<grants, dbQueue, dbCrashes>>

\* The next update of the bulkWrite, of one grant with that hash.  The unique
\* index refuses a second grant with the same hash and status; nobody handles
\* that rejection, so the process ends, and with it whatever else it works on.
WriteGrant(i) ==
    LET next == Head(dbWork[i].writes)
    IN /\ dbWork[i].writes # <<>>
       /\ \E g \in grants :
             LET new == [g EXCEPT !.amount = next.amount, !.status = next.status]
             IN /\ g.tx = next.tx
                /\ IF \E x \in grants \ {g} : x.tx = next.tx /\ x.status = next.status
                   THEN /\ dbWork' = <<>>
                        /\ UNCHANGED grants
                   ELSE /\ grants' = (grants \ {g}) \union {new}
                        /\ dbWork' = [dbWork EXCEPT ![i].writes = Tail(@)]
       /\ UNCHANGED <<dbQueue, dbCrashes>>

\* All grants are written: write down the transactions that revoked any.
WriteRevokes(i) ==
    LET list == dbWork[i].list
        revokes == {e \in ToSet(list) : e.rec.action = "revoke" /\ e.rec.status = "Revoked"}
    IN /\ dbWork[i].step = "write"
       /\ dbWork[i].writes = <<>>
       /\ \E revoker \in [{e.origin : e \in revokes} -> {e.rec.tx : e \in revokes}] :
             /\ \A t \in DOMAIN revoker :
                   \E e \in revokes : e.origin = t /\ e.rec.tx = revoker[t]
             /\ grants' = {IF g.tx \in DOMAIN revoker
                           THEN [g EXCEPT !.revokedBy = revoker[g.tx]] ELSE g : g \in grants}
       /\ dbWork' = RemoveAt(dbWork, i)
       /\ UNCHANGED <<dbQueue, dbCrashes>>

\* The process dies with its running handleJobs, whose jobs are completed.
CrashDb ==
    /\ dbWork # <<>>
    /\ dbCrashes < MaxDbCrashes
    /\ dbCrashes' = dbCrashes + 1
    /\ dbWork' = <<>>
    /\ UNCHANGED <<grants, dbQueue>>

DbNext ==
    \/ StartDbJob
    \/ \E i \in DOMAIN dbWork : ReadGrants(i) \/ WriteGrant(i) \/ WriteRevokes(i)
    \/ CrashDb

DbFairness ==
    /\ WF_dbVars(StartDbJob)
    /\ WF_dbVars(\E i \in DOMAIN dbWork : ReadGrants(i) \/ WriteGrant(i) \/ WriteRevokes(i))
=============================================================================
