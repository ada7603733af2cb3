SPECIFICATION FairSpec
CONSTANTS
    t1 = t1
    t2 = t2
    Tasks = {t1, t2}
    Ops = {"send", "start", "restart", "setModel", "freeze", "unfreeze", "end", "move", "mark"}
    Env = {"slow"}
    MaxProcs = 4
INVARIANTS ChildIsOwned FrozenMeansDown
PROPERTIES EndLeavesNoChild EndedStaysDown OpsReturn
CHECK_DEADLOCK FALSE
