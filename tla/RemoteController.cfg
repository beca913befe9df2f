SPECIFICATION Spec
CONSTANTS
    CopyOrders = {"up", "down"}
    HeaderSizes = {2}
    BodySizes = {0, 3}
    ClientMay = {"eager", "noLength"}
    MaxPackets = 4
INVARIANTS
    TypeOK
    HandshakeTakesItsOwn
    OverlapIsPipelined
PROPERTIES
    ImplementsStream
    EveryPacketRead
    ConnectionEnds
CHECK_DEADLOCK FALSE
