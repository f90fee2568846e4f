CONSTANTS
    n1 = n1
    n2 = n2
    b = b
    tA = tA
    tB = tB
    tX = tX
    NoChoice = NoChoice
    Malformed = Malformed
    BadAnnotation = BadAnnotation
    Nodes <- MCByzNodes
    Byz = {b}
    ValList <- MCByzValList
    Txs <- MCTxs
    BadTxs = {tX}
    Conflicts <- MCConflicts
    Heights = {2}
    MaxRound = 1
    MaxBatch = 2
    MaxBuf = 0
    MaxTime = 1
    TicksPerSecond = 2
    Skew <- MCSkew
    MaxRestarts = 0
    ByzHeaders <- MCByzHeaders
    MaxInt = 7
SPECIFICATION Spec
INVARIANTS
    TypeOK
    ChosenIsSound
