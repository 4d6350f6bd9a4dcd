SPECIFICATION Spec
CONSTANTS
    MaxJobs = 1
    NumFiles = 1
    Concurrency = 1
    MaxAttempts = 1
    Slots = {s1}
    Requests = {r1}
    MaxRestarts = 0
    MaxFaults = 0
PROPERTIES TerminalSticks
CHECK_DEADLOCK FALSE
