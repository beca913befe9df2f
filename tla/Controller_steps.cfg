SPECIFICATION Spec
CONSTANTS
    Paths = {p1}
    C = c
    Lines = {1, 2}
    Names = {f}
    NoName = noName
    MaxRequest = 1
    MaxId = 1
    MaxDepth = 4
INVARIANTS
    StepStaysOut
    StepStops
CHECK_DEADLOCK FALSE
