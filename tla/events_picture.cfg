SPECIFICATION Spec
CONSTANTS
    Jobs = {j1}
    Requests = {r1}
    Clients = {c1}
    MaxVersion = 4
    MaxFaults = 0
    MaxDrops = 0
    MaxRefreshes = 0
INVARIANTS FullPicture
CHECK_DEADLOCK FALSE
