SPECIFICATION FramingFairSpec
CONSTANTS
    a = a
    b = b
    c = c
    Senders = {a, b, c}
    BodyLength <- Lengths
    HeaderLength = 2
    MaxPacketSize = 2
    Capacity = 3
INVARIANTS PacketsArriveWhole
PROPERTIES SendsReturn
CHECK_DEADLOCK FALSE
