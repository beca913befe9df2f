SPECIFICATION Spec
CONSTANTS
    Invocations = {i1, i2, i3}
INVARIANTS
    TypeOK
    ExecutedInOrderOnce
    NoMissedInvocation
    CloseMissedOnlyByOverlap
PROPERTIES
    AcceptedIsInvoked
    ImplementsQueue
    ImplementsLiveQueue
CHECK_DEADLOCK FALSE
