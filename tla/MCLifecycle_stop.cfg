SPECIFICATION Spec
CONSTANTS
  None = None
  Services = {"api", "order", "payment", "product"}
  Provided = {TRUE, FALSE}
  MaxFaults = 2
  MaxEvents = 3
  MaxMoving = 1
  MaxCalls = 1
INVARIANTS TypeOK ResourcesOutliveCalls VerdictRouted EventsSurvive
