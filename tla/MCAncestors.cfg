CONSTANTS
    a = a
    b = b
    c = c
    d = d
    e = e
    f = f
    g = g
    G = G
    TxIds <- AncTxIds
    Genesis = G
    InputSeq <- AncInputSeq
    NOut <- AncNOut
    Fee <- AncOnes
    Size <- AncOnes
    LockTime <- AncZeros
    SeqLock <- AncZeros
    NonStandard = {}
    ScriptFail = {}
    MinRelay = 1
    MaxOrphans = 1
    MaxAncestors = 3
    MaxSize = 2
    Threshold = 1
    Expiry = 1
    MaxTime = 1
    MaxHeight = 1
    MaxBlockTxs = 1
SPECIFICATION AncSpec
INVARIANT
    AncestorsExact
