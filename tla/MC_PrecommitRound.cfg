CONSTANTS
    v1 = v1
    v2 = v2
    vb = vb
    x = x
    y = y
    Nil = Nil
    NoVote = NoVote
    Voters <- MCVoters
    ByzVoters = {vb}
    Power <- MCPower
    Hashes <- MCHashes
SYMMETRY MCSymmetry
SPECIFICATION Spec
CHECK_DEADLOCK FALSE
INVARIANT PrecommitAgreement
INVARIANT PInv
