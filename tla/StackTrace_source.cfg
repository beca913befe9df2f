SPECIFICATION Spec
CONSTANTS
    File = File
    Other = Other
    CFunctions = CFunctions
    t1 = t1
    t2 = t2
    plain = plain
    nil = nil
    one = one
    oneAndHalf = oneAndHalf
    name = name
    nameNul = nameNul
    flag = flag
    NoSource = NoSource
    Plain = plain
    Nil = nil
    Sources <- MCSources
    Tables <- MCTables
    Keys <- MCKeys
    Numbers <- MCNumbers
    NoNames <- MCNoNames
    Shown <- MCShown
    CString <- MCCString
    Stacks <- MCStacks
    Heaps <- MCHeaps
    UnsignedRange = 8
    MaxVariables = 8
INVARIANT
    FrameShowsItsSource
CHECK_DEADLOCK FALSE
