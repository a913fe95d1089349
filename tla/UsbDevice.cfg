CONSTANTS
    Scenarios <- MCScenarios
    EP0_SIZE = 64
    MaxChunks = 2
    NULL = NULL
SPECIFICATION FairSpec
INVARIANTS
    
    DescriptorExact
 
CHECK_DEADLOCK FALSE
