CONSTANTS
    A = A
    X = X
    D = D
    Y = Y
    Z = Z
    W = W
    G = G
    TxIds <- MCChainTxIds
    Genesis <- MCGenesis
    InputSeq <- MCInputSeq
    NOut <- MCNOut
    Fee <- MCFee
    Size <- MCSize
    LockTime <- MCReorgLockTime
    SeqLock <- MCReorgSeqLock
    NonStandard = {}
    ScriptFail = {}
    MinRelay = 1
    MaxOrphans = 1
    MaxAncestors = 3
    MaxSize = 2
    Threshold = 1
    Expiry = 1
    MaxTime = 1
    MaxHeight = 2
    MaxBlockTxs = 2
SPECIFICATION Spec
CONSTRAINT DescBounded
INVARIANTS
    TypeOK
    IndexConsistent
    OrphanIndexConsistent
    OrphansBounded
    SizeBounded
    PoolValidAtTip
PROPERTIES
    ConnectKeepsPoolSpendable
    RefinesAbstract
