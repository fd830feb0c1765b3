SPECIFICATION FairSpec
CONSTANTS
    c1 = c1
    c2 = c2
    k1 = k1
    k2 = k2
    k3 = k3
    s1 = s1
    Clients = {c1, c2}
    Call = {k1, k2, k3}
    client <- MCclient
    NoCall = NoCall
    Services = {s1}
    NoRequest = NoRequest
    MaxEnds = 1
INVARIANTS ResponsesMatch
PROPERTIES AnswerArrives DestroyReturns
CHECK_DEADLOCK FALSE
