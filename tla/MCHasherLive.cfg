\* Every call returns: three goroutines that never pause between calls.
CONSTANTS
    Goroutines = {g1, g2, g3}
    NoG = NoG
    Hashers = {h1}
    NoHasher = NoHasher
    Keys = {k1, k2}
    NoKey = NoKey
    Inputs = {i1}
    NoInput = NoInput
    Modes = {"fast", "light", "other"}
    Addrs = {1, 2, 3}
    NoAddr = 0
    VMs = {1}
    NoVM = 0
    Used = {"new", "hash", "update", "close", "isready"}
    Programs = 1
    BuildMayFail = TRUE
    CallerReusesBuffer = FALSE
    Owners = {g1}
    Updaters = {g2}
    Watchers = {g3}
SPECIFICATION LiveSpec
PROPERTY
    CallsReturn
