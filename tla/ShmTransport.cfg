CONSTANTS
    Writer = {w1, w2}
    Reader = {r1}
    Proc = {w1, w2, r1}
    BlockNum16K = 2
    BlockNumMore = 1
    BufLength = 2
    NoInfo = NoInfo
    MaxMsg = 3
    OversizeAt = {2}
    MaxLeave = 1
SPECIFICATION Spec
SYMMETRY WriterSymmetry
CONSTRAINT NoMishap
INVARIANTS LocksExact WholeMessages MessageFits HeardIsNotified NotifiedIsReadable
CHECK_DEADLOCK FALSE
