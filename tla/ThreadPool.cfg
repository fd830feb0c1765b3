SPECIFICATION PoolSpec
CONSTANTS
    Enqueuer = {p1}
    Dequeuer = {w1, w2}
    Size = 1
    MaxCalls = 1
    Strategies = {"block"}
    None = None
PROPERTIES DestructorReturns
