SPECIFICATION FairSpec
CONSTANTS
    i1 = i1
    i2 = i2
    s1 = s1
    n1 = n1
    Ids = {i1}
    Sessions = {s1}
    SessionOf <- OneSession
    NowTasks = {n1}
    Env = {"update", "delete", "recurring", "fireNow", "limit", "crash", "otherSends"}
    Times = {1, 2}
    Grace = 2
    Period = 2
    ResumeDelay = 1
    Stagger = 1
    MaxTime = 3
    MaxVersions = 2
    MaxSends = 2
    None = None
INVARIANT OutcomeIsTrue
PROPERTIES KeepsPromise OneShotOnce FiringResolves
CHECK_DEADLOCK FALSE
