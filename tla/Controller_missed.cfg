SPECIFICATION Spec
CONSTANTS
    Paths = {p1}
    C = c
    Lines = {1, 2}
    Names = {}
    NoName = noName
    MaxRequest = 1
    MaxId = 1
    MaxDepth = 2
INVARIANTS
    VerifiedBreakpointStops
CHECK_DEADLOCK FALSE
