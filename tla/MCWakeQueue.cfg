SPECIFICATION FairSpec
CONSTANTS
    d1 = d1
    d2 = d2
    d3 = d3
    Drains = {d1, d2, d3}
    Queues = {"fleet", "channel"}
    Cap = 1
    Env = {"failures", "lateDeath", "earlyDeath", "silent"}
    MaxLines = 3
    MaxSends = 1
INVARIANT InOrder
PROPERTIES KeepsPromise NeverMidTurn WaitingIsTold
CHECK_DEADLOCK FALSE
