\* A fast and a light hasher share the pool of virtual machines, and the
\* caller of New writes its buffer again.
CONSTANTS
    Goroutines = {g1, g2}
    NoG = NoG
    Hashers = {h1, h2}
    NoHasher = NoHasher
    Keys = {k1, k2}
    NoKey = NoKey
    Inputs = {i1}
    NoInput = NoInput
    Modes = {"fast", "light"}
    Addrs = {1, 2, 3, 4}
    NoAddr = 0
    VMs = {1, 2}
    NoVM = 0
    Used = {"new", "hash", "close"}
    Programs = 1
    BuildMayFail = FALSE
    CallerReusesBuffer = TRUE
SPECIFICATION Spec
SYMMETRY Symmetry
INVARIANTS
    NoUseAfterRelease
    HashOfInputAndKey
