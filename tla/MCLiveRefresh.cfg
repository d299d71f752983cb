SPECIFICATION FairSpec
CONSTANTS
    Series = {s1}
    Others = {o1}
    Buffer = 1
    MaxChanges = 3
    MaxFaults = 1
INVARIANTS
    TypeOK
    StaleIsComing
    OneConnection
PROPERTIES
    CatchesUp
CHECK_DEADLOCK FALSE
