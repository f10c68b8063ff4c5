---------------------------- MODULE MCTxPipeline ----------------------------
EXTENDS TxPipeline, TLC

CONSTANTS t1, t2, w1, w2, q1, q2

MCTxs == {t1, t2}
MCTwoWorkers == {w1, w2}
MCOneWorker == {w1}
MCWorkerSymmetry == Permutations(MCTwoWorkers)
MCTwoQueues == {q1, q2}
MCOneQueue == {q1}
\* Both transactions in block 1, or each in a block of its own.
MCOneBlock == <<{t1, t2}>>
MCTwoBlocks == <<{t1}, {t2}>>
MCSecondMalformed == {t2}
=============================================================================
