SPECIFICATION Spec
CONSTANTS
    Null = Null
    None = None
    Feeder = {f1, f2}
    Others = 2
    QueueSize = 2
    OtherSize = 2
    MaxMsg = 4
    MaxOther = 3
INVARIANTS RingKeepsNewest FetchedInOrder NewestNotLost TuplesInOrder
PROPERTIES SkipsOnlyOverrun FusedIsFresh
