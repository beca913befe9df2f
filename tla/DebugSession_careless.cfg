SPECIFICATION Spec
CONSTANTS
    Commands = {"launch", "attach", "configurationDone", "setBreakpoints", "setFunctionBreakpoints", "threads", "stackTrace", "scopes", "continue", "stepOut", "disconnect"}
    ClientMay = {"vanish", "malformed"}
    MaxRequests = 6
    MaxStops = 2
INVARIANTS
    TypeOK
    ScheduledIsAwaited
    SessionLossHasACause
PROPERTIES
    RunReturns
CHECK_DEADLOCK FALSE
