SPECIFICATION FairSpec
CONSTANTS
    Clients = {c1}
    Env <- WildEnv
    PromptKinds = {"work", "close"}
    Statuses = {}
    MaxGen = 2
    MaxProcs = 2
    MaxStream = 1
    PipeSize = 2
    None = None
INVARIANTS ClosingHasOwner
PROPERTIES ConfirmedCloseEnds
CHECK_DEADLOCK FALSE
