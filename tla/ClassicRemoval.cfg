SPECIFICATION FairSpec
CONSTANTS
    a = a b = b s1 = s1 s2 = s2 r1 = r1 task1 = task1
    None = None Main = Main
    Proc = {p1}
    CRoutine = {a, b}
    Source = {}
    Remover = {r1}
    IdOf <- SameTask
    PrioOf <- OneLevel
    Feeds <- Nothing
    Removes <- RemovesTask1
    Prio = {0}
    Sleeper = {}
    EarlyMessages = FALSE
    MayShutdown = TRUE
    MaxMsg = 1
    ShutdownNotify = 2
INVARIANTS RegistryMatchesQueues RemovedIsIdle
PROPERTIES ShutdownReturns
