SPECIFICATION CancelSpec
CONSTANTS
    MaxJobs = 1
    NumFiles = 1
    Concurrency = 1
    MaxAttempts = 2
    Slots = {s1}
    Requests = {r1, r2}
    MaxRestarts = 1
    MaxFaults = 0
PROPERTIES CancelTerminates BootServed
CHECK_DEADLOCK FALSE
