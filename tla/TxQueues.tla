------------------------------ MODULE TxQueues ------------------------------
(* The two queues between crawl-transaction and handle-transaction.          *)
EXTENDS BullQueue

CONSTANT Txs            \* transactions, by their hash

VARIABLES
    handleTxQueue,      \* wait list of handle.transaction
    hashQueue           \* wait list of crawl.transaction-hash
=============================================================================
