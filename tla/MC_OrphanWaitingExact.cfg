CONSTANTS
    A = A
    X = X
    D = D
    Y = Y
    Z = Z
    W = W
    G = G
    TxIds <- MCTxIds
    Genesis <- MCGenesis
    InputSeq <- MCInputSeq
    NOut <- MCNOut
    Fee <- MCFee
    Size <- MCSize
    LockTime <- MCLockTime
    SeqLock <- MCSeqLock
    NonStandard = {}
    ScriptFail = {}
    MinRelay = 1
    MaxOrphans = 2
    MaxAncestors = 3
    MaxSize = 1
    Threshold = 1
    Expiry = 1
    MaxTime = 1
    MaxHeight = 0
    MaxBlockTxs = 2
SPECIFICATION Spec
CONSTRAINT DescBounded
INVARIANT
    OrphanWaitingExact
