SPECIFICATION FairSpec
CONSTANTS
    Callbacks = {c1, c2}
    Nodes = {n1, n2, n3}
    Nil = Nil
    Wild = Wild
    MaxDepth = 3
    MaxLinks = 3
INVARIANTS
    Exclusive
    Reenabled
    HandlerFindsList
PROPERTIES
    CallsReturn
