SPECIFICATION FilesSpec
CONSTANTS
    image <- Image
    Root = 1
    SECTOR_PAYLOAD = 2
    MAX_OPEN_FILES = 2
    MAX_DIRECTORY_DEPTH = 3
    Mounts = {"rom", "sd"}
    NoPrefix = "none"
    MAX_FILESYSTEMS = 2
    MAX_OPEN_HANDLES = 2
    WalkPaths <- Paths
    OpenPaths <- FromRoot
    RelativePaths <- Relative
    Counts = {1, 3}
    Offsets <- Moves
    MaxHandle = 3
INVARIANTS
    PathsLead
    NumbersHold
