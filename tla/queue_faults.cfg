SPECIFICATION FairSpec
CONSTANTS
    MaxJobs = 1
    NumFiles = 1
    Concurrency = 1
    MaxAttempts = 2
    Slots = {s1, s2}
    Requests = {r1}
    MaxRestarts = 1
    MaxFaults = 2
INVARIANTS TypeOK SlotsBounded AbortReachable RunningIsOwned AttemptBudget
 
CHECK_DEADLOCK FALSE
