SPECIFICATION Spec
CONSTANTS
    Commands = {"launch", "configurationDone", "setBreakpoints", "stackTrace", "continue", "next", "disconnect"}
    ClientMay = {}
    MaxRequests = 8
    MaxStops = 2
INVARIANTS
    NoFault
    ClientSeesItsStop
    RequestMeetsItsStop
    NotStranded
    SeqUnique
PROPERTIES
    ImplementsStopProtocol
    EveryRequestAnswered
CHECK_DEADLOCK FALSE
