SPECIFICATION MempakSpec
CONSTANTS
    BLOCK_VALID_FIRST = 5
    BLOCK_VALID_LAST = 7
    FirstChunk = {5}
    NoteCount = 2
    Modulus = 2
    Lengths = {1, 2}
    Garbage = Garbage
    NameLength = 4
    Titles <- MCTitles
INVARIANTS
    NotesIntact
    NothingLost
