----------------------------- MODULE BlockLedger -----------------------------
(* What the block pipeline promises, without its queues, processes and        *)
(* crashes: a cursor that says how far the chain was taken over, and for each *)
(* block that was taken over where it is.                                     *)
(*                                                                            *)
(* The cursor moves over a block only when the block is accounted for, and a  *)
(* block that is pending stays so until it is settled or written off.         *)
EXTENDS Naturals

CONSTANTS
    Start,  \* the cursor of a fresh deployment
    Block   \* heights

VARIABLES
    cursor,     \* height the pipeline would resume from
    pending,    \* blocks some queue or worker is responsible for
    settled,    \* blocks in the database
    writtenOff  \* blocks the pipeline has given up at least once

ledgerVars == <<cursor, pending, settled, writtenOff>>

Accounted == pending \union settled \union writtenOff

LedgerInit ==
    /\ cursor = Start
    /\ pending = {}
    /\ settled = {}
    /\ writtenOff = {}

\* Blocks become the pipeline's business.
Claim ==
    /\ \E S \in SUBSET Block : pending' = pending \union S
    /\ UNCHANGED <<cursor, settled, writtenOff>>

\* The cursor moves forward over accounted blocks.
Advance ==
    /\ \E n \in Block :
          /\ cursor < n
          /\ (cursor + 1) .. n \subseteq Accounted
          /\ cursor' = n
    /\ UNCHANGED <<pending, settled, writtenOff>>

\* A pending block is stored.
Settle ==
    /\ \E b \in pending \ settled : settled' = settled \union {b}
    /\ UNCHANGED <<cursor, pending, writtenOff>>

\* Pending blocks are let go: each is settled, or written off from now on.
Release ==
    /\ \E S \in SUBSET pending :
          /\ writtenOff' = writtenOff \union S
          /\ pending' \in SUBSET pending
          /\ pending \ pending' \subseteq settled \union writtenOff'
    /\ UNCHANGED <<cursor, settled>>

LedgerNext == Claim \/ Advance \/ Settle \/ Release

LedgerSpec == LedgerInit /\ [][LedgerNext]_ledgerVars
=============================================================================
