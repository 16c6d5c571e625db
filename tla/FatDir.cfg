SPECIFICATION FairSpec
CONSTANTS
    ClusterSize = 2
    RecsPerSec = 2
    DataEntry = 10
    EntriesPerSec = 4
    Word = 1024
    MaxRecords = 3
    Names = {"a", "b", "c", "d", "x"}
    Paths <- MCPaths
    Volumes <- MCVolumes
    MaxCalls = 2
    CardFails = TRUE
    MaxItems = 2
    Fills = {"ended", "full", "over"}
INVARIANTS
    FindsTheFile
    BufferIsCurrent
PROPERTIES
    SearchEnds
CHECK_DEADLOCK FALSE
