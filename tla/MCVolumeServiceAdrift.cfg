SPECIFICATION Spec
CONSTANTS
    Last = 2
    Slots = {r1}
    MaxRequests = 3
INVARIANTS
    NoLoanAdrift
CHECK_DEADLOCK FALSE
