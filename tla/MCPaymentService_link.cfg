\* No fault: what becomes of the gateway's answer.
SPECIFICATION Spec
CONSTANTS
    o1 = o1
    o2 = o2
    Order = {o1, o2}
    Amount <- PaidAndFree
    Replica = {r1}
    MaxFaults = 0
    NoOrder = NoOrder
INVARIANT LinkRecorded
CHECK_DEADLOCK FALSE
