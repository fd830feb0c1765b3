SPECIFICATION FairSpec
CONSTANTS
    a = a b = b s1 = s1 s2 = s2 r1 = r1 task1 = task1
    None = None Main = Main
    Proc = {p1, p2}
    CRoutine = {a}
    Source = {s1, s2}
    Remover = {}
    IdOf <- OneTask
    PrioOf <- LevelZero
    Feeds <- BothFeedA
    Removes <- Nothing
    Prio = {0, 1}
    Sleeper = {a}
    EarlyMessages = FALSE
    MayShutdown = FALSE
    MaxMsg = 1
    ShutdownNotify = 2
INVARIANTS RunExclusive NoLostWakeup
PROPERTIES MessagesHandled
