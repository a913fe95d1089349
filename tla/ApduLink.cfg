CONSTANTS
    ApduBufferSize = 9
    ProtoBufSize = 10
    SeqModulus = 16
    WordModulus = 64
    NULL = NULL
    HostChunk = 6
    Padded = TRUE
    Lengths = {0, 3, 6, 8}
    AnswerLengths = {0, 9}
    Mtus = {7, 10}
    MaxApdus = 3
    FaultSets = {{}, {"abandon"}, {"timeout"}, {"loss"}}
SPECIFICATION FairSpec
INVARIANTS
    CleanDelivery
PROPERTIES
    RequestAnswered
    ImplementsExchange
CHECK_DEADLOCK FALSE
