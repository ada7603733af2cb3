SPECIFICATION FairSpec
CONSTANTS
    i1 = i1
    i2 = i2
    s1 = s1
    n1 = n1
    Ids = {i1, i2}
    Sessions = {s1}
    SessionOf <- MessageAndNewChat
    NowTasks = {}
    Env = {"update", "delete", "recurring"}
    Times = {1}
    Grace = 2
    Period = 2
    ResumeDelay = 1
    Stagger = 1
    MaxTime = 3
    MaxVersions = 3
    MaxSends = 2
    None = None
PROPERTIES UsersWordIsLast DueItemsSettle NeverIntoATurn
CHECK_DEADLOCK FALSE
