SPECIFICATION FairSpec
CONSTANTS
    s1 = s1
    s2 = s2
    e1 = e1
    e2 = e2
    e3 = e3
    Sessions = {s1, s2}
    Engines = {e1, e2, e3}
    Countdown = 2
    Env = {}
PROPERTIES FiresOverIdle OnlyTheArmedFires ClosingEnds
CHECK_DEADLOCK FALSE
