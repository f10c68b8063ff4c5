----------------------- MODULE CronjobUpdateOriginGrant -----------------------
(* services/feegrant/cronjob-update-origin-grant.service.ts: a repeated job   *)
(* takes records of uses and revokes that have no origin yet, finds the grant *)
(* each belongs to, sends them to feegrant.db and only then writes down their *)
(* origin.  Steps: find records -> find grants, createJob -> bulkWrite.       *)
EXTENDS FeegrantStore

CONSTANTS
    MaxUnprocessed,     \* `limit` of the query for unprocessed records, 2000
    MaxCronFailures     \* bound: crashes of the job and writes that fail

ASSUME CronjobAssumption == MaxUnprocessed \in Nat \ {0} /\ MaxCronFailures \in Nat

VARIABLES
    cronStep,       \* where the job is
    listUnprocess,  \* records the job found
    bulkUpdate,     \* records it matched, with their origin
    dbSends,        \* feegrant.db jobs not in Redis yet
    forwarded,      \* history: what was sent to feegrant.db, in the order of sending
    cronFailures    \* failures so far

cronOwnVars == <<cronStep, listUnprocess, bulkUpdate, dbSends, forwarded, cronFailures>>

cronVars == <<history, grants, dbQueue, cronOwnVars>>

CronInit ==
    /\ dbQueue = <<>>
    /\ cronStep = "idle"
    /\ listUnprocess = <<>>
    /\ bulkUpdate = <<>>
    /\ dbSends = <<>>
    /\ forwarded = <<>>
    /\ cronFailures = 0

\* The query: no origin, and a result.
Unprocessed ==
    Selected(history, {i \in DOMAIN history :
                          history[i].origin = NoHash /\ history[i].rec.result})

\* Grants a record may belong to: available ones of its pair, from before it.
SuspiciousFeegrants(r) ==
    {g \in grants :
        /\ g.status = "Available" /\ g.result
        /\ g.granter = r.granter /\ g.grantee = r.grantee
        /\ TimeOf(g.tx) < TimeOf(r.tx)}

\* Its origin is the latest of them, if there is one.
LatestOf(G) == {g.tx : g \in {x \in G : \A y \in G : TimeOf(y.tx) <= TimeOf(x.tx)}}

Origins(r) == LatestOf(SuspiciousFeegrants(r))

\* The first records without an origin, in the order of the collection.
FindUnprocessed ==
    /\ cronStep = "idle"
    /\ Unprocessed # <<>>
    /\ listUnprocess' = [i \in 1 .. Min({MaxUnprocessed, Len(Unprocessed)})
                            |-> Unprocessed[i].rec]
    /\ cronStep' = "match"
    /\ UNCHANGED <<history, grants, dbQueue, bulkUpdate, dbSends, forwarded, cronFailures>>

\* The grants come: match, and send what was matched to feegrant.db.
MatchOrigins ==
    LET matched == Selected(listUnprocess, {i \in DOMAIN listUnprocess :
                                               Origins(listUnprocess[i]) # {}})
    IN /\ cronStep = "match"
       /\ \E origin \in [ToSet(matched) -> Hashes] :
             /\ \A r \in ToSet(matched) : origin[r] \in Origins(r)
             /\ bulkUpdate' = [i \in DOMAIN matched |->
                                  [rec |-> matched[i], origin |-> origin[matched[i]]]]
       /\ dbSends' = IF matched = <<>> THEN dbSends ELSE Append(dbSends, bulkUpdate')
       /\ forwarded' = forwarded \o bulkUpdate'
       /\ listUnprocess' = <<>>
       /\ cronStep' = "write"
       /\ UNCHANGED <<history, grants, dbQueue, cronFailures>>

\* bulkWrite: the origins are written down.
WriteOrigins ==
    /\ cronStep = "write"
    /\ history' = [i \in DOMAIN history |->
           IF \E e \in ToSet(bulkUpdate) : e.rec = history[i].rec
           THEN CHOOSE e \in ToSet(bulkUpdate) : e.rec = history[i].rec
           ELSE history[i]]
    /\ bulkUpdate' = <<>>
    /\ cronStep' = "idle"
    /\ UNCHANGED <<grants, dbQueue, listUnprocess, dbSends, forwarded, cronFailures>>

\* A query or the write fails, and with it the job; what was sent stays sent.
CronFails ==
    /\ cronStep # "idle"
    /\ cronFailures < MaxCronFailures
    /\ cronFailures' = cronFailures + 1
    /\ listUnprocess' = <<>>
    /\ bulkUpdate' = <<>>
    /\ cronStep' = "idle"
    /\ UNCHANGED <<history, grants, dbQueue, dbSends, forwarded>>

\* The oldest createJob call reaches Redis.
DbJobLands ==
    /\ dbSends # <<>>
    /\ dbQueue' = Add(dbQueue, Head(dbSends))
    /\ dbSends' = Tail(dbSends)
    /\ UNCHANGED <<history, grants, cronStep, listUnprocess, bulkUpdate, forwarded,
                   cronFailures>>

\* The process dies, with the sends that are in flight.
CrashCron ==
    /\ cronFailures < MaxCronFailures
    /\ cronFailures' = cronFailures + 1
    /\ listUnprocess' = <<>>
    /\ bulkUpdate' = <<>>
    /\ dbSends' = <<>>
    /\ cronStep' = "idle"
    /\ UNCHANGED <<history, grants, dbQueue, forwarded>>

CronNext ==
    \/ FindUnprocessed
    \/ MatchOrigins
    \/ WriteOrigins
    \/ CronFails
    \/ DbJobLands
    \/ CrashCron

CronFairness ==
    /\ WF_cronVars(FindUnprocessed)
    /\ WF_cronVars(MatchOrigins)
    /\ WF_cronVars(WriteOrigins)
    /\ WF_cronVars(DbJobLands)
=============================================================================
