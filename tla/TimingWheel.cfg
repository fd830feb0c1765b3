SPECIFICATION Spec
CONSTANTS
    t1 = t1
    t2 = t2
    Timer = {t1, t2}
    Worker = {w1}
    QueueSizes = {1, 2}
    Tick = Tick
    Caller <- MCCaller
    Job <- MCJob
    NoJob = NoJob
    WORK_WHEEL_SIZE = 2
    ASSISTANT_WHEEL_SIZE = 2
    TIMER_RESOLUTION_MS = 2
    Options <- MCOptions
    Durations = {2}
    MaxStarts = 1
    MaxOvertaken = 1
INVARIANTS OnePlace ClearedIsQuiet
PROPERTIES FiresOnTime ArmedIsFired NotifiedDrains ClearReturns
