\* Concurrent writers and readers of the cache, illegal quantities included.
SPECIFICATION Spec
CONSTANTS
    Product = {p1}
    EventID = {e1}
    Quantity <- LegalAndIllegal
    MaxStock = 1
    Replica = {r1, r2}
    Caller = {c1, c2}
    MaxFaults = 1
    NoEvent = NoEvent
    NoProduct = NoProduct
SYMMETRY Symmetric
INVARIANTS
    TypeOK NoOversell EventAppliedOnce NoEventLost
    CachedRowPlausible StaleOnlyWhileOwed HandlerKnowledge
