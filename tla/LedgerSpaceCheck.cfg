CONSTANTS
    ApduBufferSize = 5
    ProtoBufSize = 8
    SeqModulus = 3
    WordModulus = 16
    NULL = NULL
    Chunks <- MCChunks
    ControlLengths = {3}
    Mtus = {8}
    AnswerLengths = {}
    Answers = {}
SPECIFICATION Spec
INVARIANTS
    SpaceChecked
