CONSTANTS
    MaxInt = 7
    NVals = 3
    MaxRoundValue = 3
SPECIFICATION Spec
INVARIANT SelectionIndexInRange
