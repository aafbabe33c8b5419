\* One fault, with fairness: is stock of a refused order given back?
SPECIFICATION FairSpec
CONSTANTS
    p1 = p1
    p2 = p2
    Product = {p1, p2}
    EventID = {}
    Quantity = {1}
    Order = {o1, o2}
    Carts <- MCCarts
    InitStock <- MCStock
    MaxFaults = 1
    NoOrder = NoOrder
PROPERTY CompensationSettles
CHECK_DEADLOCK FALSE
