CONSTANTS
    Goroutines = {g1, g2}
    NoG = NoG
    Hashers = {h1}
    NoHasher = NoHasher
    Keys = {k1, k2}
    NoKey = NoKey
    Inputs = {i1}
    NoInput = NoInput
    Modes = {"fast", "light", "other"}
    Addrs = {1, 2, 3, 4}
    NoAddr = 0
    VMs = {1, 2}
    NoVM = 0
    Used = {"new", "hash", "update", "close", "isready"}
    Programs = 1
    BuildMayFail = TRUE
    CallerReusesBuffer = FALSE
SPECIFICATION Spec
SYMMETRY Symmetry
INVARIANTS
    TypeOK
    VMExclusive
    NoUseAfterRelease
    ResourcesMatchConfig
    LiveMemoryOwned
    UpdateTakesEffect
    IInv
PROPERTY
    ImplementsAPI
