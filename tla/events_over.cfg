SPECIFICATION Spec
CONSTANTS
    Jobs = {j1}
    Requests = {r1}
    Clients = {c1}
    MaxVersion = 4
    MaxFaults = 2
    MaxDrops = 1
    MaxRefreshes = 1
INVARIANTS TypeOK OverIsShown GoneIsGone
CHECK_DEADLOCK FALSE
