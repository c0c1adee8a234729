\* A machine that serves two hashes, of two programs of two iterations each.
CONSTANTS
    Modes = {"fast", "light"}
    programCount = 2
    programIterations = 2
    configurationBytes = 8
    programBytes = 16
    numRegisters = 4
    numFloats = 2
    wordBytes = 2
    scratchpadL3Size = 16
    stateBytes = 8
    maxHashes = 2
    wordBits = 3
    datasetItems = 3
    cacheItems = 4
    cacheAccesses = 2
    superscalarMul0 = 5
    superscalarAdd <- MCAdd
    data <- MCData
    programs <- MCPrograms
    reciprocals <- MCReciprocals
SPECIFICATION Spec
INVARIANTS
    TypeOK
    HashPure
    LinesWrittenBack
    SameItem
PROPERTY
    ReadsStream
CHECK_DEADLOCK FALSE
