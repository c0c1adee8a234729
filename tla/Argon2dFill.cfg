\* Three passes over two lanes of four segments of four blocks.
CONSTANTS
    passes = 3
    lanes = 2
    segmentLength = 4
    W = 128
    Watched = {0, 1, 22, 47, 64, 101, 127}
    TagLengths = {1, 32, 63, 64, 65, 95, 96, 97, 128, 129, 1024}
SPECIFICATION ArgonSpec
INVARIANTS
    TypeOK
    ReferenceAllowed
    WindowReached
    CacheComplete
    Diffused
    TagAsSpecified
CHECK_DEADLOCK FALSE
