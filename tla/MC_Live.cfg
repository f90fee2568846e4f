CONSTANTS
    n1 = n1
    n2 = n2
    b = b
    tA = tA
    tB = tB
    tX = tX
    NoChoice = NoChoice
    Malformed = Malformed
    BadAnnotation = BadAnnotation
    Nodes <- MCNodes
    Byz = {b}
    ValList <- MCValList
    Txs <- MCTxsHonest
    BadTxs = {}
    Conflicts <- MCConflicts
    Heights = {2}
    MaxRound = 1
    MaxBatch = 1
    MaxBuf = 1
    MaxTime = 2
    TicksPerSecond = 2
    Skew <- MCSkew
    MaxRestarts = 1
    ByzHeaders <- MCByzHeadersFew
    MaxInt = 7
SPECIFICATION LiveSpec
CHECK_DEADLOCK FALSE
PROPERTY
    HonestProposalEventuallyChosen
