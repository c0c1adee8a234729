\* Two programs of three cycles: what occupies a port or a register for
\* longer than a cycle, and two tables of reciprocals that follow each other.
CONSTANTS
    superscalarLatency = 3
    cacheAccesses = 2
    numRegisters = 2
    Kinds = {"ISUB_R", "IMUL_R", "IMULH_R", "IMUL_RCP"}
    Immediates = {0, 5}
    halfWidth = 4
SPECIFICATION Spec
INVARIANTS
    TypeOK
    PortsRespected
    SourceDiffers
    ProgramComplete
    AddressMostDelayed
    ReciprocalOfDivisor
CHECK_DEADLOCK FALSE
