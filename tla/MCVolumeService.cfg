SPECIFICATION Spec
CONSTANTS
    Last = 2
    Slots = {r1}
    MaxRequests = 3
INVARIANTS
    TypeOK
    LentIsOwned
    LedgerAgrees
    CountMatches
    RowsCoherent
    StatusFollows
CHECK_DEADLOCK FALSE
