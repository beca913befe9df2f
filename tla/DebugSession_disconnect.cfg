SPECIFICATION Spec
CONSTANTS
    Commands = {"launch", "configurationDone", "setBreakpoints", "continue", "disconnect"}
    ClientMay = {"disconnectArmed"}
    MaxRequests = 6
    MaxStops = 2
INVARIANTS
    HookFindsSession
CHECK_DEADLOCK FALSE
