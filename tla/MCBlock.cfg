CONSTANTS
    c1 = c1
    c2 = c2
    none = none
    Commitments <- MCCommitments
    NoCommitment = none
    MaxBlockSize = 6
    MaxSigopsCost = 8
    ScaleFactor = 4
    HeaderSize = 1
    CountSize = 1
    SizeWidth = 16
SPECIFICATION BlockSpec
INVARIANTS
    CheckBodyExact
    CommitmentIsLast
