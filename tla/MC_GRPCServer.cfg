CONSTANTS
    Txs = {tA, tB}
    BadTxs = {}
    Conflicts = {}
    MaxBuf = 2
SPECIFICATION Spec
INVARIANT QueryNeverCrashes
