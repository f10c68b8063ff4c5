----------------------------- MODULE TxListQueue -----------------------------
(* The Bull queue crawl.transaction, which handle-block fills with the lists  *)
(* of transactions of the blocks and crawl-transaction empties.               *)
EXTENDS BullQueue

VARIABLE txListQueue    \* wait list of crawl.transaction; a list is its block
=============================================================================
