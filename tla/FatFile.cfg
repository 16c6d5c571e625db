SPECIFICATION FairSpec
CONSTANTS
    ClusterSize = 2
    EntriesPerSec = 4
    DataEntry = 10
    RamWrap = 3
    PtrWrap = 8
    LenWrap = 64
    Volumes <- MCVolumes
    MaxCount = 5
    MaxCalls = 3
    Calls = {"rom", "ram", "skip"}
    CardFails = TRUE
    Clusters = {2, 3, 5}
    MaxChain = 3
    Marks = {0, 99}
INVARIANTS
    InPlace
PROPERTIES
    ReaderSpec
    EveryCallReturns
CHECK_DEADLOCK FALSE
