SPECIFICATION FairSpec
CONSTANTS
    u1 = u1
    p1 = p1
    p2 = p2
    Users = {u1}
    Prompts = {p1}
    Env = {}
    ChanCap = 1
    MaxConns = 2
    MaxVersion = 2
PROPERTIES CallsReturn CacheFollows CardsFollow
CHECK_DEADLOCK FALSE
