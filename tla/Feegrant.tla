------------------------------ MODULE Feegrant ------------------------------
(* The four services of services/feegrant together: transactions go through   *)
(* feegrant.tx-handle -> feegrant.history-db -> cronjob.update-origin-grant   *)
(* -> feegrant.db.                                                            *)
EXTENDS FeegrantTxHandler, FeegrantHistoryDb, CronjobUpdateOriginGrant, FeegrantDb

fgAllVars == <<txDb, historyQueue, history, grants, dbQueue, fgOwnVars,
               historyOwnVars, cronOwnVars, dbOwnVars>>

FeegrantInit == FgInit /\ HistoryInit /\ CronInit /\ DbInit

FeegrantNext ==
    \/ FgNext /\ UNCHANGED <<history, grants, dbQueue, historyOwnVars, cronOwnVars, dbOwnVars>>
    \/ HistoryNext /\ UNCHANGED <<txDb, dbQueue, fgOwnVars, cronOwnVars, dbOwnVars>>
    \/ CronNext /\ UNCHANGED <<txDb, historyQueue, fgOwnVars, historyOwnVars, dbOwnVars>>
    \/ DbNext /\ UNCHANGED <<txDb, historyQueue, history, fgOwnVars, historyOwnVars, cronOwnVars>>

FeegrantSpec == FeegrantInit /\ [][FeegrantNext]_fgAllVars

FairFeegrantSpec ==
    FeegrantSpec /\ FgFairness /\ HistoryFairness /\ CronFairness /\ DbFairness

-----------------------------------------------------------------------------
Cursor == {NoCursor, -1} \union Nat

\* Every variable has its type.
FeegrantTypeOK ==
    /\ txDb \in SUBSET Hashes
    /\ historyQueue \in Seq(JobOf(Seq(Hashes)))
    /\ \A i \in DOMAIN history :
          history[i].rec \in AllRecords /\ history[i].origin \in Hashes \union {NoHash}
    /\ \A g \in grants :
          /\ g.tx \in Hashes
          /\ g.status \in {"Available", "Fail", "Revoked", "Use up"}
          /\ g.amount \in Int \/ g.amount = NoLimit
    /\ fgCursor \in Cursor /\ fgBlock \in Cursor /\ fgTo \in Cursor /\ fgWrite \in Cursor
    /\ syncCatchUp \in BOOLEAN
    /\ fgStep \in {"idle", "range", "list"}
    /\ historySends \in Seq(Seq(Hashes))
    /\ late \subseteq txDb
    /\ lostBatches \union lostWork \union unrecorded \subseteq Hashes
    /\ historyWork \in Seq([list : Seq(Hashes), step : {"grants", "records"}])
    /\ cronStep \in {"idle", "match", "write"}
    /\ ToSet(listUnprocess) \subseteq AllRecords
    /\ \A i \in DOMAIN dbWork : dbWork[i].step \in {"read", "write"}

\* Transactions some queue or process of the feegrant services holds.
InHand ==
    UNION {ToSet(list) : list \in InFlight(historySends)
                                 \union Waiting(historyQueue)
                                 \union {work.list : work \in InFlight(historyWork)}}

\* The records of a transaction are all in the history, and its grants were made.
Recorded(h) ==
    \A r \in ToSet(RecordsOf[h]) :
        /\ KeyOf(r) \in HistoryKeys
        /\ r.action = "create" => \E g \in grants : g.tx = h

\* The cursor passes a transaction (feegrant-tx-handler.service.ts:397-399) only
\* if its records are on their way to the history or in it, its loss has a cause,
\* or it was stored late, at a height the cursor had passed.
NoneSkipped ==
    \A h \in txDb :
        TxOf[h].height <= fgCursor =>
            h \in InHand \union late \union lostBatches \union lostWork \union unrecorded
            \/ Recorded(h)

\* The handler's cursor never runs ahead of the transactions in the database,
\* though it skips ahead when it has caught up (:131-136).
CursorWithinDb ==
    \A c \in {fgCursor, fgWrite} :
        c >= 0 => \E h \in txDb : c <= TxOf[h].height

\* So the cursor of the handler skips no transaction, be it behind it or still to come
\* (feegrant-tx-handler.service.ts:119-166,397-399).
CursorSkipsNone ==
    /\ NoneSkipped
    /\ CursorWithinDb

\* A record is sent to feegrant.db again only after the job that sent it failed
\* between its createJob and its bulkWrite
\* (cronjob-update-origin-grant.service.ts:113-127).
ForwardedOnce ==
    \A r \in AllRecords :
        Cardinality({i \in DOMAIN forwarded : forwarded[i].rec = r}) <= 1 + cronFailures

\* What transaction h grants: the unique index keeps the first of its grants only.
Given(h) ==
    LET creates == {i \in DOMAIN RecordsOf[h] : RecordsOf[h][i].action = "create"}
    IN RecordsOf[h][Min(creates)].amount

\* What a list of matched records leaves of grant g.
Left(g, list) == Given(g.tx) - Spent(list, g.tx)

\* However the jobs of feegrant.db overlap, and whatever is replayed or dies, a
\* grant is charged for a record at most as often as it was sent
\* (feegrant-db.service.ts:141-185): overlaps only lose charges.
NeverOvercharged ==
    \A g \in grants : g.amount # NoLimit => g.amount >= Left(g, forwarded)

\* So a use is charged once, however often its record is sent and wherever the jobs on the
\* way fail (cronjob-update-origin-grant.service.ts:113-127,
\* feegrant-db.service.ts:141-185); only a cron job that failed has it sent again.
ChargedAsSent ==
    /\ ForwardedOnce
    /\ NeverOvercharged

\* A transaction that reaches the database is recorded in the end, unless it was
\* late or its loss has a cause.
EveryTxRecorded ==
    \A h \in Hashes :
        h \in txDb ~> \/ Recorded(h)
                      \/ h \in late \union lostBatches \union lostWork \union unrecorded

\* Nothing is on its way to the grants.
Quiet ==
    /\ cronStep = "idle" /\ dbSends = <<>> /\ dbQueue = <<>> /\ dbWork = <<>>

\* README.md of services/feegrant says of the feegrant db service: "Use => update
\* spendable".  When nothing is on its way, a grant has its limit less its uses.
SpendableIsExact ==
    Quiet => \A g \in grants : g.amount # NoLimit => g.amount = Left(g, history)

\* A comment in cronjob-update-origin-grant.service.ts:85 says which grant a
\* record belongs to: the one whose timestamp is "max of all less than or equal".
MatchesLatestOrEqual ==
    [][cronStep = "match" /\ cronStep' = "write" =>
          \A r \in ToSet(listUnprocess) :
              LET G == {g \in grants :
                           /\ g.status = "Available" /\ g.result
                           /\ g.granter = r.granter /\ g.grantee = r.grantee
                           /\ TimeOf(g.tx) <= TimeOf(r.tx)}
              IN G # {} => \E e \in ToSet(bulkUpdate') : e.rec = r /\ e.origin \in LatestOf(G)
      ]_fgAllVars

\* README.md says of the crontask: "Get all unprocessed records use and rovoke ...
\* and find its original create, update origin_feegrant_txhash".  A record whose
\* grant is there gets its origin, or the grant ceases to be available.
EveryUseFindsItsGrant ==
    \A r \in AllRecords :
        (\E i \in DOMAIN Unprocessed : Unprocessed[i].rec = r) /\ Origins(r) # {}
            ~> \/ \E i \in DOMAIN history : history[i].rec = r /\ history[i].origin # NoHash
               \/ Origins(r) = {}
=============================================================================
