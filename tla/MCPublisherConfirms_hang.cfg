\* One goroutine; the broker answers everything.
SPECIFICATION FairSpec
CONSTANTS
    Caller = {c1}
    MaxTag = 3
PROPERTIES PublishReturns
CHECK_DEADLOCK FALSE
