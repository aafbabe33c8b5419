\* At most one fault, anywhere: what is due happens.
SPECIFICATION FairSpec
CONSTANTS
    p1 = p1
    p2 = p2
    Product = {p1, p2}
    EventID = {}
    Quantity = {1}
    Order = {o1, o2}
    Carts <- MCCarts
    InitStock <- MCStock
    MaxFaults = 1
    NoOrder = NoOrder
PROPERTIES ReservationResolved VerdictTakesEffect
CHECK_DEADLOCK FALSE
