SPECIFICATION Spec
CONSTANTS
    Workers = {w1}
    Dispatchers = {d1}
    Pushers = {p1}
    Handles = {h1}
    Event = Event
    None = None
    QueueCap = 1
    MaxBatch = 1
    MaxTopics = 1
INVARIANT
    JobsQuietOnEveryExit
