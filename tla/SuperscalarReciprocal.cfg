\* The reciprocals of one program.
CONSTANTS
    superscalarLatency = 3
    cacheAccesses = 1
    numRegisters = 2
    Kinds = {"IXOR_R", "IMUL_RCP"}
    Immediates = {0, 3, 11, 13}
    halfWidth = 4
SPECIFICATION Spec
INVARIANT
    ReciprocalApproximates
CHECK_DEADLOCK FALSE
