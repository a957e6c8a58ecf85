SPECIFICATION FairSpec
CONSTANTS
    None = None
    t1 = t1
    r1 = r1
    MaxConns = 2
    MaxCalls = 2
    Topics = {t1}
    Requests = {r1}
    Threads = 2
    MaxExtra = 1
INVARIANTS TypeOK HandshakeFirst WaitingTracked AnswerMatches
PROPERTIES ThreadsEnd SleepEnds
CHECK_DEADLOCK FALSE
