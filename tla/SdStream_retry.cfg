SPECIFICATION Spec
CONSTANTS
    NumSectors = 4
    MaxLen = 2
    MaxPolls = 2
    HighCapacity = TRUE
    SectorBytes = 2
    ArgRange = 8
    Faults = {}
INVARIANTS
    ReadsDeliver
