SPECIFICATION LiveSpec
CONSTANTS
    Workers = {w1}
    Dispatchers = {d1}
    Pushers = {p1}
    Handles = {h1, h2}
    Event = Event
    None = None
    QueueCap = 1
    MaxBatch = 2
    MaxTopics = 1
INVARIANTS
    MappedWhileSending
    JobsQuietOnOrderlyExit
    NoSubmitAfterDrain
    FlushedOnce
PROPERTIES
    ShutdownEndsProcess
    ResultsFlushed
