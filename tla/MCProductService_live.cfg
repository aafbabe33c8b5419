\* The ledger, and every event under fairness.
SPECIFICATION FairSpec
CONSTANTS
    Product = {p1}
    EventID = {e1, e2}
    Quantity = {1}
    MaxStock = 1
    Replica = {r1}
    Caller = {c1}
    MaxFaults = 1
    NoEvent = NoEvent
    NoProduct = NoProduct
PROPERTIES ImplementsLedger EventuallyApplied
