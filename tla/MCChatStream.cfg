SPECIFICATION FairSpec
CONSTANTS
    Loads = {l1}
    Env = {}
    Capacity = 1
    MaxBlocks = 2
    MaxChunks = 2
INVARIANTS TextIsWhole NoMessageTwice
PROPERTIES Recovered
CHECK_DEADLOCK FALSE
