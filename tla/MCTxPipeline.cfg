SPECIFICATION TxSpec
CONSTANTS
    t1 = t1
    t2 = t2
    w1 = w1
    w2 = w2
    q1 = q1
    q2 = q2
    NoTx = NoTx
    NoTxJob = NoTxJob
    Txs <- MCTxs
    TxsOf <- MCOneBlock
    TxWorkers <- MCTwoWorkers
    Malformed = {}
    Downstream <- MCOneQueue
    MaxLists = 2
    MaxTxCrashes = 1
    MaxTxHandlerCrashes = 1
    MaxTxWriteErrors = 1
SYMMETRY MCWorkerSymmetry
INVARIANTS
    TxTypeOK
    TxAccounted
    StoredIsHeardDownstream
CHECK_DEADLOCK FALSE
