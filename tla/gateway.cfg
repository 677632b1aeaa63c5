CONSTANTS
    Fd = {1, 2}
    MaxClient = 1
    MaxData = 2
    Web = FALSE
SPECIFICATION FairSpec
INVARIANTS ClientsOK
PROPERTIES ClientsServed
CHECK_DEADLOCK FALSE
