SPECIFICATION FairSpec
CONSTANTS
    a = a b = b s1 = s1 s2 = s2 r1 = r1 task1 = task1
    None = None Main = Main
    Proc = {p1}
    CRoutine = {a}
    Source = {s1}
    Remover = {}
    IdOf <- OneTask
    PrioOf <- LevelZero
    Feeds <- OneFeedsA
    Removes <- Nothing
    Prio = {0}
    Sleeper = {}
    EarlyMessages = TRUE
    MayShutdown = FALSE
    MaxMsg = 1
    ShutdownNotify = 2
PROPERTIES MessagesHandled
