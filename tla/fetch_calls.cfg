SPECIFICATION FairSpec
CONSTANTS
    MaxSize = 3
    MaxCalls = 3
    LengthStated = TRUE
INVARIANTS TypeOK NeverPartial ResultIsFile
PROPERTIES ResumeKept KeepsPromise CallEnds
CHECK_DEADLOCK FALSE
