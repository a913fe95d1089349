CONSTANTS
    HeapSizes = {200, 216}
    BlockSizes = {4, 28, 60}
    MaxBlocks = 3
    MaxShrinks = 1
    Nodes = {1, 2, 3, 4}
    ValueOf <- MCValueOf
    Comparators = {"le"}
    APP_STORAGE_SIZE = 3
    APP_STORAGE_ERASE_BLOCK_SIZE = 2
    StorageBytes = {1, 2}
    MaxVersion = 1
    MaxCuts = 2
    Names <- MCNames
    Scopes <- MCScopes
    Identifiers <- MCScopes
    Networks <- MCNetworks
    Paths = {1}
    MaxChunked = 2
    MaxGroups = 2
    MaxReviews = 2
    HostWaits = TRUE
    TlvBytes = {0, 1, 2, 128, 129, 131}
    MaxPayload = 5
    MaxCalls = 2
    CX_MAX_TRIES = 2
    Pieces = {0, 1, 2, 3, 4, 5, 7, 9}
    MaxMessage = 26
    CX_HASH_MAX_BLOCK_COUNT = 5
    CipherPieces = {1, 3, 4, 5, 8}
    MaxText = 9
    MldsaParams <- MCMldsaParams
    KeySeeds <- MCKeySeeds
    Masks <- MCMasks
    ChallengeSeeds <- MCChallenges
    SignedMessages <- MCSigned
    CheckedMessages <- MCChecked
    SignAttempts = 2
    KemParams <- MCKemParams
    KemSeeds <- MCKemSeeds
    KemCoins <- MCKemCoins
    KemMessages <- MCKemMessages
    KemFaults = {1, 7, 15}
    Items <- MCItems
    BufferSizes = {0, 5, 10, 18}
    MaxItems = 3
    Base58Bytes = {0, 1, 57, 58, 255}
    MaxBase58 = 5
    MAX_ENC_INPUT_SIZE = 5
    MAX_DEC_INPUT_SIZE = 9
    DerIntegers <- MCIntegers
    DerBytes <- MCDerBytes
    Amounts = {0, 5, 9, 10, 12345, 100}
    Decimals = {0, 2, 3, 6}
    TextSizes = {1, 2, 4, 6, 14}
    FormatPaths <- MCPaths
    MAX_BIP32_PATH = 2
    Apdus <- MCApdus
    PCBUF_SIZE = 4
    WordMod = 256
    Formats <- MCFormats
    Sources <- MCSources
    StrSizes = {0, 1, 2, 3, 4, 5, 8, 12}
    StdCommands <- MCStdCommands
    RxSize = 7
    SWAP_ERROR_HELPER_MAX_BUFFER_COUNT = 1
    TxBuffers = 1
    HeaderSize = 2
    PacketSize = 4
    BufSize = 12
    XfrMax = 8
    CcidCommands <- MCCcidCommands
    AnswerLengths = {1, 2, 6, 7}
    CcidSeqs = {1, 2}
    MaxCcidCommands = 3
SPECIFICATION Spec
INVARIANTS
    HeapSound
    ListMirrors
    StorageIntact
    
    TlvExact
    OutputSigned
    
    DigestOfWhole
    
    SignVerify
    SecretShared
    CodecsAgree
    
    
    
CHECK_DEADLOCK FALSE
