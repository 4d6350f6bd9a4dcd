SPECIFICATION Spec
CONSTANTS
    MaxJobs = 1
    NumFiles = 2
    Concurrency = 1
    MaxAttempts = 2
    Slots = {s1, s2}
    Requests = {r1, r2}
    MaxRestarts = 0
    MaxFaults = 0
SYMMETRY SlotRequestSymmetry
INVARIANTS VerdictMatchesFiles RecordedIsWhole ScannedWhenDone
PROPERTIES FilesStick
CHECK_DEADLOCK FALSE
