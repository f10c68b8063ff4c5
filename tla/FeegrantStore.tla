---------------------------- MODULE FeegrantStore ----------------------------
(* What the four services of services/feegrant share: the classification of a *)
(* transaction by feegrant-tx-handler.service.ts, the records that            *)
(* feegrant-history-db.service.ts makes of it, and the collections and queues *)
(* between the services.                                                      *)
EXTENDS Integers, SequencesExt, BullQueue

CONSTANTS
    Hashes,     \* hashes of transactions
    TxOf,       \* TxOf[h]: the transaction, see below
    NoPayer,    \* the empty fee.granter
    NoLimit,    \* the empty spend_limit
    NoHash      \* origin_feegrant_txhash: null

(* A transaction is [height, payer, fee, ok, usedUp, msgs]: `usedUp` says that  *)
(* paying its fee used a grant up, which the chain reports as the first event.  *)
(* A message is [kind, granter, grantee, limit]; of a message that is neither a *)
(* grant nor a revoke, `grantee` is its owner (getOwnerMsg).                    *)
ASSUME FeegrantAssumption ==
    \A h \in Hashes :
        /\ TxOf[h].height \in Nat /\ TxOf[h].fee \in Nat
        /\ TxOf[h].ok \in BOOLEAN /\ TxOf[h].usedUp \in BOOLEAN
        /\ TxOf[h].msgs \in Seq(ToSet(TxOf[h].msgs))
        /\ \A m \in ToSet(TxOf[h].msgs) :
              /\ m.kind \in {"grant", "revoke", "other"}
              /\ m.limit \in Nat \union {NoLimit}

ASSUME NoValueAssumption == NoHash \notin Hashes /\ NoLimit \notin Int

\* The time of a record is that of its block, so its height stands for it.
TimeOf(h) == TxOf[h].height

\* Some event of the transaction is a revoke_feegrant: of its fee, or of a
\* revoke message that was executed.
HasRevokeEvent(tx) ==
    \/ tx.usedUp
    \/ tx.ok /\ \E i \in DOMAIN tx.msgs : tx.msgs[i].kind = "revoke"

Action(h, kind, granter, grantee, amount, limit) ==
    [tx |-> h, action |-> kind, granter |-> granter, grantee |-> grantee,
     payer |-> TxOf[h].payer, result |-> TxOf[h].ok, amount |-> amount,
     limit |-> limit]

\* The actions of one message of a transaction whose fee a grant pays...
PaidActions(h, m) ==
    LET tx == TxOf[h]
        UseUp(user, amount) ==
            Action(h, "use_up", tx.payer, user, amount, NoLimit)
    IN CASE m.kind = "grant" ->
              (IF HasRevokeEvent(tx) THEN <<UseUp(m.granter, 0)>> ELSE <<>>)
              \o <<Action(h, "create_with", m.granter, m.grantee, tx.fee, m.limit)>>
         [] m.kind = "revoke" ->
              (IF tx.usedUp THEN <<UseUp(m.granter, 0)>> ELSE <<>>)
              \o <<Action(h, "revoke_with", m.granter, m.grantee, tx.fee, NoLimit)>>
         [] m.kind = "other" ->
              IF HasRevokeEvent(tx) THEN <<UseUp(m.grantee, tx.fee)>>
              ELSE <<Action(h, "use", tx.payer, m.grantee, tx.fee, NoLimit)>>

\* ... and of one that pays for itself.
OwnActions(h, m) ==
    CASE m.kind = "grant"  -> <<Action(h, "create", m.granter, m.grantee,
                                       TxOf[h].fee, m.limit)>>
      [] m.kind = "revoke" -> <<Action(h, "revoke", m.granter, m.grantee,
                                       TxOf[h].fee, NoLimit)>>
      [] m.kind = "other"  -> <<>>

\* feegrantList of one transaction.
ActionsOf ==
    [h \in Hashes |->
        FlattenSeq([i \in DOMAIN TxOf[h].msgs |->
            IF TxOf[h].payer # NoPayer THEN PaidActions(h, TxOf[h].msgs[i])
            ELSE OwnActions(h, TxOf[h].msgs[i])])]

Record(a, action, status, granter, grantee, result, amount) ==
    [tx |-> a.tx, action |-> action, status |-> status, granter |-> granter,
     grantee |-> grantee, result |-> result, amount |-> amount]

\* The history records of one action.
RecordsOfAction(a) ==
    LET Create == Record(a, "create", IF a.result THEN "Available" ELSE "Fail",
                         a.granter, a.grantee, a.result, a.limit)
        Revoke == Record(a, "revoke", "Revoked", a.granter, a.grantee, a.result, a.amount)
        PayFee == Record(a, "use", "Available", a.payer, a.granter, TRUE, a.amount)
    IN CASE a.action = "create" -> <<Create>>
         [] a.action = "use" ->
              <<Record(a, "use", "Available", a.payer, a.grantee, a.result, a.amount)>>
         [] a.action = "use_up" ->
              <<Record(a, "use", "Use up", a.payer, a.grantee, a.result, a.amount),
                Record(a, "revoke", "Use up", a.payer, a.grantee, a.result, a.amount)>>
         [] a.action = "revoke" -> <<Revoke>>
         [] a.action = "revoke_with" -> <<Revoke, PayFee>>
         [] a.action = "create_with" -> <<Create, PayFee>>

\* The records of one transaction.
RecordsOf ==
    [h \in Hashes |->
        FlattenSeq([i \in DOMAIN ActionsOf[h] |-> RecordsOfAction(ActionsOf[h][i])])]

AllRecords == UNION {ToSet(RecordsOf[h]) : h \in Hashes}

\* Both collections have a unique index on this key.
KeyOf(r) == <<r.tx, r.action, r.status>>

\* The elements of a list at the positions in I, in their order.
Selected(list, I) ==
    LET upto[n \in 0 .. Len(list)] ==
            IF n = 0 THEN <<>>
            ELSE IF n \in I THEN Append(upto[n - 1], list[n]) ELSE upto[n - 1]
    IN upto[Len(list)]

VARIABLES
    txDb,           \* the transaction collection, as a set of hashes
    historyQueue,   \* wait list of feegrant.history-db; a job is a list of hashes
    history,        \* the feegrant history: records with their origin, as inserted
    grants,         \* the feegrant collection, as a set
    dbQueue         \* wait list of feegrant.db; a job is a list of history records
=============================================================================
