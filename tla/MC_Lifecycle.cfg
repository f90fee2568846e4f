SPECIFICATION LiveSpec
CHECK_DEADLOCK FALSE
INVARIANTS
    FieldsReleased
PROPERTY
    StopReturns
    ReleaseAfterExit
