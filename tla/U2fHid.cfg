CONSTANTS
    Clients = {c1, c2}
    PacketSize = 64
    BufferSize = 261
    MaxLength = 261
    WordModulus = 65536
    Version = 2
    Caps = {"CBOR"}
    Commands = {"MSG", "CBOR", "PING", "WINK"}
    Lengths = {6, 60, 120}
    Contents = {1, 2}
    AnswerLengths = {2, 57, 58, 120}
    MaxRequests = 4
    StrayLengths = {8, 60}
    Strays = {FALSE, TRUE}
    NULL = NULL
SPECIFICATION FairSpec
INVARIANTS
    
    NotWedged
PROPERTY Answered
CHECK_DEADLOCK FALSE
