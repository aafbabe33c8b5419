\* Two replicas, a payable and a free order, two faults, with fairness.
SPECIFICATION FairSpec
CONSTANTS
    o1 = o1
    o2 = o2
    Order = {o1, o2}
    Amount <- PaidAndFree
    Replica = {r1, r2}
    MaxFaults = 2
    NoOrder = NoOrder
INVARIANTS TypeOK InboxMatchesPayments OneAttempt NoOrderLost
PROPERTIES VerdictFinal EventuallyCreated
CHECK_DEADLOCK FALSE
