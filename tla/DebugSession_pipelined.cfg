SPECIFICATION Spec
CONSTANTS
    Commands = {"launch", "configurationDone", "setBreakpoints", "stackTrace", "continue"}
    ClientMay = {"pipeline"}
    MaxRequests = 6
    MaxStops = 1
PROPERTIES
    SuccessfulResumeResumes
CHECK_DEADLOCK FALSE
