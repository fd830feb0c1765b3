SPECIFICATION FairSpec
CONSTANTS
    Producer = {p1, p2}
    Consumer = {c1, c2}
    Size = 2
    MaxCalls = 3
    Torn = Torn
    Blank = Blank
INVARIANTS SlotsOwned
PROPERTIES ImplementsFifo EmptyIsReal ReservedIsPublished
