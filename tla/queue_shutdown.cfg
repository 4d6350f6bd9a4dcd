SPECIFICATION Spec
CONSTANTS
    MaxJobs = 1
    NumFiles = 1
    Concurrency = 1
    MaxAttempts = 1
    Slots = {s1}
    Requests = {r1}
    MaxRestarts = 1
    MaxFaults = 0
PROPERTIES CancelledWasAsked
CHECK_DEADLOCK FALSE
