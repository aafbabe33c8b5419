SPECIFICATION Spec
CONSTANTS
  None = None
  Services = {"order", "product"}
  Provided = {TRUE}
  MaxFaults = 0
  MaxEvents = 1
  MaxMoving = 2
  MaxCalls = 1
INVARIANT StockEventArrives
