SPECIFICATION FairSpec
CONSTANTS
    Enqueuer = {p1, p2}
    Dequeuer = {c1, c2}
    Size = 1
    MaxCalls = 2
    Strategies = {"poll", "block", "timeout"}
PROPERTIES BreakReleasesAll WaiterGetsElement
