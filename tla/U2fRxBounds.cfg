CONSTANTS
    Clients = {}
    PacketSize = 64
    BufferSize = 130
    MaxLength = 130
    WordModulus = 65536
    Version = 2
    Caps = {"CBOR"}
    Commands = {"MSG"}
    Lengths = {60}
    Contents = {1}
    AnswerLengths = {2, 120}
    MaxRequests = 5
    StrayLengths = {8, 127, 128}
    Strays = {TRUE}
    NULL = NULL
SPECIFICATION Spec
INVARIANTS
    RxInBounds
CHECK_DEADLOCK FALSE
