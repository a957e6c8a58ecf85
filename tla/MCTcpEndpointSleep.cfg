SPECIFICATION FairSpec
CONSTANTS
    None = None
    t1 = t1
    r1 = r1
    MaxConns = 1
    MaxCalls = 1
    Topics = {t1}
    Requests = {r1}
    Threads = 1
    MaxExtra = 1
PROPERTY SleepIsHarmless
CHECK_DEADLOCK FALSE
