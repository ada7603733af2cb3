SPECIFICATION LockFairSpec
CONSTANTS
    Sessions <- MCSessions
    Calls <- MCCallsSequential
    Projects <- MCProjects
    SessionOf <- MCSessionOfSequential
    ProjectOf <- MCProjectOf
    Registered <- MCRegistered
    NoSession = NoSession
    TTL = 5
    Budget = 3
    Interval = 2
    ClientMaxTime = 5
    MaxCommit = 4
INVARIANTS CommitsExclusive AnsweredBeforeCurlGivesUp
PROPERTIES LockNeverStuck
