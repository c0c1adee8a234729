\* Every instruction type, with the first and the last opcode of each, on
\* every pair of words.
CONSTANTS
    programLength = 1
    wordBits = 4
    wordBytes = 2
    numRegisters = 2
    scratchpadL1Size = 2
    scratchpadL2Size = 4
    scratchpadL3Size = 8
    Opcodes = {0, 15, 16, 22, 23, 38, 39, 45, 46, 61, 62, 65, 66, 69, 70, 73, 74, 77,
               78, 81, 82, 89, 90, 91, 92, 106, 107, 111, 112, 119,
               120, 121, 122, 125, 126, 129, 130, 145, 146, 150, 151,
               166, 167, 171, 172, 177, 178, 209, 210, 213, 214, 219,
               220, 244, 245, 246, 255}
    Mods = {0, 1, 2, 3}
    Immediates = {0, 3}
SPECIFICATION Spec
INVARIANTS
    TypeOK
    DecodedByFrequency
    AccessInLevel
    DestinationKept
CHECK_DEADLOCK FALSE
