SPECIFICATION FairSpec
CONSTANTS
    NumSectors = 4
    MaxLen = 2
    MaxPolls = 2
    HighCapacity = FALSE
    SectorBytes = 2
    ArgRange = 8
    Faults = {"cmd", "resp", "crc", "dma"}
INVARIANTS
    TypeOK
    RightSectors
    Coherent
PROPERTIES
    DeviceSpec
    EveryCallReturns
