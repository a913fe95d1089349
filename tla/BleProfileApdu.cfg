CONSTANTS
    ApduBufferSize = 9
    ProtoBufSize = 11
    SeqModulus = 16
    WordModulus = 64
    NULL = NULL
    DefaultMtu = 9
    Mtus = {11}
    WriteSize = 6
    Lengths = {2, 5}
    AnswerLengths = {2, 5}
    Modes = {"req", "cmd"}
    Transfer = TRUE
    MaxApdus = 2
    MaxLinks = 2
    MaxInFlight = 2
SPECIFICATION FairSpec
INVARIANTS
    ExchangeExact
 
CHECK_DEADLOCK FALSE
