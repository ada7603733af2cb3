SPECIFICATION Spec
CONSTANTS
    p1 = p1
    q1 = q1
    q2 = q2
    c1 = c1
    Permissions = {p1}
    Questions = {q1}
    Cards = {c1}
    Env = {}
    MaxLives = 2
INVARIANTS WaiterHasCard NoGhosts InputNeededHasQuestion
CHECK_DEADLOCK FALSE
