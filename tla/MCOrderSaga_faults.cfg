\* Up to two faults anywhere: lost calls and answers, crashes, redeliveries.
SPECIFICATION Spec
CONSTANTS
    p1 = p1
    p2 = p2
    Product = {p1, p2}
    EventID = {}
    Quantity = {1}
    Order = {o1, o2}
    Carts <- MCCarts
    InitStock <- MCStock
    MaxFaults = 2
    NoOrder = NoOrder
SYMMETRY Symmetric
INVARIANTS
    TypeOK StockAccounted OnlyHeldSettled PaymentBacked VerdictNotLost
    SettledOnce SettlementMatchesStatus
PROPERTIES StatusFinal
CHECK_DEADLOCK FALSE
