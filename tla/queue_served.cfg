SPECIFICATION FairSpec
CONSTANTS
    MaxJobs = 2
    NumFiles = 1
    Concurrency = 1
    MaxAttempts = 1
    Slots = {s1}
    Requests = {r1}
    MaxRestarts = 0
    MaxFaults = 0
PROPERTIES OldestServed AbortIsMeant
CHECK_DEADLOCK FALSE
