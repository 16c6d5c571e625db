SPECIFICATION Spec
CONSTANTS
    RingSize = 7
    Slack = 2
    LongestCommand = 2
    DrawSizes = {1, 2}
    ClientSyncs = TRUE
INVARIANTS
    DetachCompletes
