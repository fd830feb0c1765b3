SPECIFICATION FairSpec
CONSTANTS
    Reader = {r1, r2}
    Writer = {w1, w2}
    write_first_ = TRUE
INVARIANTS MutualExclusion CountersExact NotOvertaken
PROPERTIES WriterGetsLock
