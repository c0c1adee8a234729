\* Ten items over four workers: the last takes the remainder.
CONSTANTS
    datasetItems = 10
    numWorkers = 4
SPECIFICATION FairSpec
INVARIANTS
    TypeOK
    CompleteOnReturn
    DisjointWindows
PROPERTIES
    QuietAfterReturn
    Returns
CHECK_DEADLOCK FALSE
