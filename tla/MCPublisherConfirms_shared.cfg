\* Three goroutines share the publisher, four messages.
SPECIFICATION Spec
CONSTANTS
    Caller = {c1, c2, c3}
    MaxTag = 4
SYMMETRY Symmetric
INVARIANTS TypeOK ErrorMeansTrouble OwnConfirmation
CHECK_DEADLOCK FALSE
