SPECIFICATION Spec
CONSTANTS
    Sounds = {"hush", "tone"}
    Silence = "hush"
    Bits = 3
    NUM_BUFFERS = 3
    Asked = {1, 2, 9}
    Timer = {t1, t2}
    Ticks = {1, 3, 4}
    Margin = 1
    Latency = 1
    Far = 6
    Block = 2
    Lens = {0, 1, 3}
    Depth = 2
INVARIANTS
    AlwaysArmed
    BlocksInOrder
PROPERTIES
    QueueSpec
    EveryChunkIsSent
    EveryTimerFires
    EarlyByTheCounter
    CallsReturn
