------------------------------ MODULE TxIndexes ------------------------------
(* handleListTransaction of handle-transaction, here and in aura-network: the  *)
(* indexes a transaction is found by.  The messages come first, in one try,    *)
(* then the attributes of the events, each in a try of its own.                *)
(*                                                                             *)
(* A value of a message is <<"null">>, <<"text", s>>, <<"list", values>> or     *)
(* <<"object", fields>>; the input of a contract is a sequence of [key, arg].  *)
EXTENDS Naturals, Sequences, FiniteSets, SequencesExt

CONSTANTS
    Values,             \* what an argument of a message may be, with all that is in it
    Nesting,            \* Nesting[v]: how deep a value is nested
    MaxNesting,         \* bound: the nesting of a value
    Transactions,       \* what comes: [msgs, events]
    TxAddresses,        \* the texts that are addresses
    LongTexts           \* those of more than 200 characters

Parts(v) == IF v[1] \in {"object", "list"} THEN {v[2][f] : f \in DOMAIN v[2]} ELSE {}

Message == [execute : BOOLEAN, sender : STRING, contract : STRING, input : Seq([key : STRING, arg : Values])]

\* The index of addresses is no event's: these have the type and a key in their name.
ASSUME IndexAssumption ==
    /\ MaxNesting \in Nat /\ Nesting \in [Values -> 0 .. MaxNesting]
    /\ \A v \in Values : \A w \in Parts(v) : w \in Values /\ Nesting[w] < Nesting[v]
    /\ \A t \in Transactions : t.msgs \in Seq(Message) /\ \A e \in t.events : e.name # "addresses"

VARIABLES
    tx,                 \* the transaction
    position,           \* the message it is at
    broken,             \* a message threw: those after it are left out
    indexed,            \* the events are done too
    indexes             \* {<<name, value>>}: a value is in an index once

indexVars == <<tx, position, broken, indexed, indexes>>

IndexInit == tx \in Transactions /\ position = 1 /\ broken = FALSE /\ indexed = FALSE /\ indexes = {}

\* _addToIndexes, for a set of values.
AddToIndexes(name, values) == {name} \X values

\* _scanAllAddressInTxInput: the callback of the filter returns nothing, and no
\* element of a list passes.
ScanAddresses[v \in Values] ==
    IF v[1] = "text" THEN {v[2]} \intersect TxAddresses
    ELSE UNION {ScanAddresses[w] : w \in IF v[1] = "object" THEN Parts(v) ELSE {}}

\* The fields of an argument that have an index of their own.
FieldIndex == [recipient |-> "wasm_recipient", owner |-> "wasm_owner", token_id |-> "wasm_token_id"]

FieldValues(arg, att) ==
    IF arg[1] = "object" /\ att \in DOMAIN arg[2] /\ arg[2][att][1] = "text"
    THEN {arg[2][att][2]} \ (LongTexts \union {""}) ELSE {}

ThrowsAt(input) == {j \in DOMAIN input : input[j].arg = <<"null">>}

\* The arguments in turn; null has no fields and throws.
Arguments(input) ==
    UNION {AddToIndexes("wasm_action", {input[j].key})
               \union UNION {LET values == FieldValues(input[j].arg, att)
                             IN AddToIndexes(FieldIndex[att], values)
                                    \union AddToIndexes("addresses", values \intersect TxAddresses)
                               : att \in DOMAIN FieldIndex}
               : j \in {j \in DOMAIN input : \A k \in ThrowsAt(input) : j <= k}}

MessageIndexes(m) ==
    AddToIndexes("message_action", {"execute"})
        \union AddToIndexes("wasm_sender", {m.sender})
        \union AddToIndexes("wasm__contract_address", {m.contract})
        \union AddToIndexes("execute__contract_address", {m.contract})
        \union AddToIndexes("addresses", UNION {ScanAddresses[m.input[j].arg] : j \in DOMAIN m.input})
        \union Arguments(m.input)

IndexMessage ==
    /\ ~broken /\ position <= Len(tx.msgs)
    /\ indexes' = indexes \union IF tx.msgs[position].execute THEN MessageIndexes(tx.msgs[position]) ELSE {}
    /\ broken' = (tx.msgs[position].execute /\ ThrowsAt(tx.msgs[position].input) # {})
    /\ position' = position + 1
    /\ UNCHANGED <<tx, indexed>>

\* Variant for the mutants: the events are in the try of the messages.
IndexEventsUnlessBroken ==
    /\ ~indexed /\ (broken \/ position > Len(tx.msgs))
    /\ indexed' = TRUE
    /\ indexes' = IF broken THEN indexes
                  ELSE indexes \union UNION {AddToIndexes(e.name, {e.value})
                             \union AddToIndexes("addresses", {e.value} \intersect TxAddresses) : e \in tx.events}
    /\ UNCHANGED <<tx, position, broken>>

\* The attributes that can be decoded.
IndexEvents ==
    /\ ~indexed /\ (broken \/ position > Len(tx.msgs))
    /\ indexed' = TRUE
    /\ indexes' = indexes \union UNION {AddToIndexes(e.name, {e.value})
                             \union AddToIndexes("addresses", {e.value} \intersect TxAddresses)
                                 : e \in {e \in tx.events : e.decodes}}
    /\ UNCHANGED <<tx, position, broken>>

IndexNext == IndexMessage \/ IndexEvents

IndexSpec == IndexInit /\ [][IndexNext]_indexVars

-----------------------------------------------------------------------------
\* The addresses in a value, those in lists with the rest.
AddressesIn[v \in Values] ==
    IF v[1] = "text" THEN {v[2]} \intersect TxAddresses ELSE UNION {AddressesIn[w] : w \in Parts(v)}

\* Those in objects, and in objects in them.
AddressesOutsideLists[v \in Values] ==
    IF v[1] = "text" THEN {v[2]} \intersect TxAddresses
    ELSE UNION {AddressesOutsideLists[w] : w \in IF v[1] = "list" THEN {} ELSE Parts(v)}

InputAddresses(m, addresses) == UNION {addresses[m.input[j].arg] : j \in DOMAIN m.input}

EventAddresses == {e.value : e \in {e \in tx.events : e.decodes}} \intersect TxAddresses

Executed == {tx.msgs[i] : i \in {i \in DOMAIN tx.msgs : tx.msgs[i].execute}}

MessageAddresses == UNION {InputAddresses(m, AddressesIn) : m \in Executed}

Indexed(name) == {p[2] : p \in {p \in indexes : p[1] = name}}

\* A message is passed over only after one of a null argument.
IndexTypeOK ==
    /\ position \in 1 .. Len(tx.msgs) + 1
    /\ broken => position > 1 /\ ThrowsAt(tx.msgs[position - 1].input) # {}

\* handle-transaction.service.ts:126,148,185: an address a transaction is found by is
\* in the input of one of its messages or in its events, and nothing else is.
OnlyItsAddresses == Indexed("addresses") \subseteq MessageAddresses \union EventAddresses

\* handle-transaction.service.ts:106-191: a message that throws costs the
\* transaction the messages after it and no more: it is found by the addresses of
\* its events and by those of each message up to there, outside of lists.
FoundByAddress ==
    indexed => EventAddresses \union UNION {InputAddresses(m, AddressesOutsideLists) : m \in {tx.msgs[i] : i \in
                   {i \in 1 .. position - 1 : tx.msgs[i].execute}}} \subseteq Indexed("addresses")

\* handle-transaction.service.ts:129-130: and by what each of these messages does,
\* the argument that throws included.
FoundByAction ==
    indexed => \A i \in 1 .. position - 1 : tx.msgs[i].execute =>
        \A j \in DOMAIN tx.msgs[i].input :
            (\A k \in ThrowsAt(tx.msgs[i].input) : j <= k)
                => tx.msgs[i].input[j].key \in Indexed("wasm_action")

\* The indexes of a transaction: it is found by its addresses and actions and by no other, up to
\* and with the message that throws (handle-transaction.service.ts:100-191).
TxIsFound ==
    /\ IndexTypeOK
    /\ OnlyItsAddresses
    /\ FoundByAddress
    /\ FoundByAction
=============================================================================
