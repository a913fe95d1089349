CONSTANTS
    TagLists <- MCTagLists
    ExtraLists <- MCExtraLists
    SettingContents <- MCSettings
    Operations <- MCOperations
    Warnings <- MCWarnings
    DetailsLengths = {7, 12, 13, 20}
    MaxUseCases = 2
    NanoPairs <- MCNanoPairs
    NanoContents <- MCNanoContents
    NanoWarnings <- MCNanoWarnings
    MaxNanoUses = 2
    MaxSets = 2
    UxFlows <- MCUxFlows
    UxSteps <- MCUxSteps
    UxMain = "main"
    UxModal = "modal"
    UX_STACK_SLOT_COUNT = 2
    PIXEL_PER_LINE = 3
    UX_LAYOUT_PAGING_LINE_COUNT = 2
    BUTTON_FAST_THRESHOLD_CS = 2
    ListLength = 3
    MaxPress = 2
    LAYOUT_OBJ_POOL_LEN = 6
    HOLD_TO_APPROVE_STEP_PERCENT = 25
    HOLD_TO_APPROVE_FIRST_STEP = 1
    MaxHold = 5
    BackPages <- MCBackPages
    OverPages <- MCOverPages
SPECIFICATION Spec
INVARIANTS
    
    SignedWasShown
    
    ScreenIsCurrent
    
CHECK_DEADLOCK FALSE
