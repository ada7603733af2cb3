SPECIFICATION FairSpec
CONSTANTS
    Clients = {c1}
    Env <- CalmEnv
    PromptKinds = {"work", "close", "dryClose"}
    Statuses = {"done", "question"}
    MaxGen = 2
    MaxProcs = 2
    MaxStream = 2
    PipeSize = 2
    None = None
INVARIANTS QuietMeansNotBusy
PROPERTIES ClearedByNewestTurn StatusFromItsOwnTurn BusyEnds
CHECK_DEADLOCK FALSE
