SPECIFICATION Spec
CONSTANTS
    Paths = {p1, p2}
    C = c
    Lines = {1, 2}
    Names = {f}
    NoName = noName
    MaxRequest = 2
    MaxId = 3
    MaxDepth = 1
INVARIANTS
    TypeOK
    TablesMatchAnswers
    IdsUnique
    StopsWhereAsked
PROPERTIES
    ImplementsStopDecision
CHECK_DEADLOCK FALSE
