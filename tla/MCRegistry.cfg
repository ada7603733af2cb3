SPECIFICATION FairSpec
CONSTANTS
    s1 = s1
    s2 = s2
    t1 = t1
    t2 = t2
    Sessions = {s1, s2}
    Tasks = {t1}
    MaxProcs = 2
    Env = {}
    None = None
INVARIANT ServesWhatWasTold
PROPERTIES NotEndedWhileItRuns GoneIsEnded
CHECK_DEADLOCK FALSE
