------------------------------ MODULE Websocket ------------------------------
(* services/websocket: clients register the hashes of transactions they wait   *)
(* for in a set of Redis; a repeated job looks which are stored, broadcasts    *)
(* those and removes them.  The job does not wait for what it starts, so that  *)
(* a slow one overlaps the next.  Transactions that move coins are broadcast    *)
(* besides when they are announced.                                            *)
EXTENDS Naturals, FiniteSets

CONSTANTS
    Hashes,             \* transactions
    SafeTxs,            \* those with a message of listSafeTxAction
    SocketHandlers,     \* runs of handleNewBlock that may overlap
    MaxRegistrations,   \* bound: registrations of one hash
    MaxSocketFaults     \* bound: failed calls

ASSUME WebsocketAssumption ==
    SafeTxs \subseteq Hashes /\ {MaxRegistrations, MaxSocketFaults} \subseteq Nat

VARIABLES
    registered,         \* the set SORTEDSET
    inDb,               \* the transaction collection
    running,            \* running[h]: [step, txs]
    announcedTxs,       \* transactions whose 'list-tx.upsert' came
    safeJobs,           \* waiting jobs of websocket.safe-tx-handle
    safeCast,           \* history: broadcast to all as safe
    safeFailed,         \* history: safe broadcasts that failed
    owed,               \* history: registered and not broadcast since
    registrations,      \* history: how often, by hash
    casts,              \* history: broadcasts, by hash
    overlapped,         \* history: two handlers had a hash at once
    socketFaults

socketVars == <<registered, inDb, running, announcedTxs, safeJobs, safeCast, safeFailed, owed,
                registrations, casts, overlapped, socketFaults>>

safeVars == <<announcedTxs, safeJobs, safeCast, safeFailed>>

IdleHandler == [step |-> "idle", txs |-> {}]

SocketInit ==
    /\ registered = {} /\ inDb = {}
    /\ running = [h \in SocketHandlers |-> IdleHandler]
    /\ announcedTxs = {} /\ safeJobs = {} /\ safeCast = {} /\ safeFailed = {}
    /\ owed = {} /\ overlapped = {} /\ socketFaults = 0
    /\ registrations = [t \in Hashes |-> 0]
    /\ casts = [t \in Hashes |-> 0]

AnnounceHash(t) ==
    /\ t \notin announcedTxs
    /\ announcedTxs' = announcedTxs \union {t}
    /\ safeJobs' = safeJobs \union {t}
    /\ UNCHANGED <<registered, inDb, running, safeCast, safeFailed, owed, registrations, casts, overlapped, socketFaults>>

StoreHash(t) ==
    /\ t \in announcedTxs \ inDb
    /\ inDb' = inDb \union {t}
    /\ UNCHANGED <<registered, running, safeVars, owed, registrations, casts, overlapped, socketFaults>>

\* One SADD of all the hashes of a call.
ClientRegister(ts) ==
    /\ ts # {} /\ \A t \in ts : registrations[t] < MaxRegistrations
    /\ registered' = registered \union ts
    /\ owed' = owed \union ts
    /\ registrations' = [t \in Hashes |-> registrations[t] + IF t \in ts THEN 1 ELSE 0]
    /\ UNCHANGED <<inDb, running, safeVars, casts, overlapped, socketFaults>>

-----------------------------------------------------------------------------
\* handleNewBlock: the members of the set.
ReadMembers(h) ==
    /\ running[h].step = "idle"
    /\ running' = [running EXCEPT ![h] = [step |-> "find", txs |-> registered]]
    /\ overlapped' = overlapped \union (registered \intersect UNION {running[k].txs : k \in SocketHandlers})
    /\ UNCHANGED <<registered, inDb, safeVars, owed, registrations, casts, socketFaults>>

\* Those of them that are stored; none end it.
FindMembers(h) ==
    /\ running[h].step = "find"
    /\ running' = [running EXCEPT ![h] = IF @.txs \intersect inDb = {} THEN IdleHandler
                                         ELSE [step |-> "cast", txs |-> @.txs \intersect inDb]]
    /\ UNCHANGED <<registered, inDb, safeVars, owed, registrations, casts, overlapped, socketFaults>>

Broadcast(h) ==
    /\ running[h].step = "cast"
    /\ running' = [running EXCEPT ![h].step = "remove"]
    /\ owed' = owed \ running[h].txs
    /\ casts' = [t \in Hashes |-> casts[t] + IF t \in running[h].txs THEN 1 ELSE 0]
    /\ UNCHANGED <<registered, inDb, safeVars, registrations, overlapped, socketFaults>>

\* Variant for the mutants: what was broadcast stays in the set.
RemoveMemberNever(h, t) ==
    /\ running[h].step = "remove" /\ t \in running[h].txs
    /\ running' = [running EXCEPT ![h] = IF @.txs = {t} THEN IdleHandler ELSE [step |-> "remove", txs |-> @.txs \ {t}]]
    /\ UNCHANGED <<registered, inDb, safeVars, owed, registrations, casts, overlapped, socketFaults>>

\* One SREM for each, side by side.
RemoveMember(h, t) ==
    /\ running[h].step = "remove" /\ t \in running[h].txs
    /\ registered' = registered \ {t}
    /\ running' = [running EXCEPT ![h] = IF @.txs = {t} THEN IdleHandler ELSE [step |-> "remove", txs |-> @.txs \ {t}]]
    /\ UNCHANGED <<inDb, safeVars, owed, registrations, casts, overlapped, socketFaults>>

\* A call fails: it is logged, and the next job begins anew.
HandlerFails(h) ==
    /\ running[h].step # "idle" /\ socketFaults < MaxSocketFaults
    /\ socketFaults' = socketFaults + 1
    /\ running' = [running EXCEPT ![h] = IdleHandler]
    /\ UNCHANGED <<registered, inDb, safeVars, owed, registrations, casts, overlapped>>

\* handleSafeTx: a broadcast that fails is logged and not made again.
HandleSafeTx(t) ==
    /\ t \in safeJobs
    /\ safeJobs' = safeJobs \ {t}
    /\ \/ t \in SafeTxs /\ safeCast' = safeCast \union {t} /\ UNCHANGED <<safeFailed, socketFaults>>
       \/ t \notin SafeTxs /\ UNCHANGED <<safeCast, safeFailed, socketFaults>>
       \/ /\ t \in SafeTxs /\ socketFaults < MaxSocketFaults
          /\ socketFaults' = socketFaults + 1
          /\ safeFailed' = safeFailed \union {t}
          /\ UNCHANGED safeCast
    /\ UNCHANGED <<announcedTxs, registered, inDb, running, owed, registrations, casts, overlapped>>

HandlerStep(h) ==
    \/ ReadMembers(h) \/ FindMembers(h) \/ Broadcast(h)
    \/ \E t \in Hashes : RemoveMember(h, t)

SocketNext ==
    \/ \E t \in Hashes : AnnounceHash(t) \/ StoreHash(t) \/ HandleSafeTx(t)
    \/ \E ts \in SUBSET Hashes : ClientRegister(ts)
    \/ \E h \in SocketHandlers : HandlerStep(h) \/ HandlerFails(h)

SocketSpec == SocketInit /\ [][SocketNext]_socketVars

\* The job is repeated, and a safe job is taken.
SocketFairness ==
    /\ \A h \in SocketHandlers : WF_socketVars(HandlerStep(h))
    /\ \A t \in Hashes : WF_socketVars(HandleSafeTx(t))

-----------------------------------------------------------------------------
\* A handler broadcasts and removes what is stored.
SocketTypeOK ==
    \A h \in SocketHandlers : /\ running[h].step \in {"idle", "find", "cast", "remove"}
                        /\ running[h].step \in {"cast", "remove"} => running[h].txs \subseteq inDb /\ running[h].txs # {}

\* websocket.service.ts:137-161: a hash that was registered once stays in the set until
\* it is broadcast, and one that was registered again may be lost only to a handler
\* that was removing it.
NotForgotten == \A t \in owed : registrations[t] = 1 => t \in registered

\* A hash is broadcast more often than it was registered only if two handlers had it
\* at once or a handler failed.
CastOncePerRegistration ==
    \A t \in Hashes : casts[t] > registrations[t] => t \in overlapped \/ socketFaults > 0

\* websocket.service.ts:173-185: only coin moving transactions are broadcast as safe, and
\* each that was announced is, or its broadcast failed.
SafeIsCast ==
    \A t \in announcedTxs : t \in safeCast \union safeFailed <=> t \in SafeTxs /\ t \notin safeJobs

\* Who registers a hash hears of it, with handlers that overlap and clients that register meanwhile
\* (websocket.service.ts:132-187).
ListenersAreTold == SocketTypeOK /\ NotForgotten /\ CastOncePerRegistration /\ SafeIsCast

\* A hash registered once is broadcast when it is stored.
StoredIsCast ==
    SocketFairness =>
        \A t \in Hashes : t \in registered /\ t \in inDb ~> t \notin owed \/ registrations[t] > 1
=============================================================================
