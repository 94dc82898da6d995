SPECIFICATION Spec
CONSTANTS
    Orders = {o1}
    MaxTime = 2
INVARIANT
    CompletedIsPaid
CHECK_DEADLOCK FALSE
