CONSTANTS
    Transports = {usb, nfc}
    Acked = {usb}
    MaxChunks = 2
    WaitMax = 2
    Scenarios <- MCScenarios
    NULL = NULL
    MaxCommands = 2
    Timeouts = {0, 1}
    MaxVisits = 2
    MaxStarts = 2
SPECIFICATION MCSpec
INVARIANTS
    AnswersKept
    NfcAnswerIsOwn
PROPERTIES
    RequestAnswered
    CallbackDue
CHECK_DEADLOCK FALSE
