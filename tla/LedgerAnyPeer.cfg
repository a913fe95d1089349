CONSTANTS
    ApduBufferSize = 4
    ProtoBufSize = 8
    SeqModulus = 3
    WordModulus = 16
    NULL = NULL
    Chunks <- MCChunks
    ControlLengths = {12}
    Mtus = {2, 5, 8, 9}
    AnswerLengths = {1, 6}
    Answers = {2}
SPECIFICATION Spec
INVARIANTS
    RxSafe
    TxSafe
