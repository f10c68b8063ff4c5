----------------------------- MODULE BlockQueue -----------------------------
(* The Bull queue handle.block, which crawl-block fills and handle-block     *)
(* empties: the only state the two services share.                           *)
EXTENDS BullQueue

VARIABLE blockQueue     \* wait list of handle.block, oldest first
=============================================================================
