SPECIFICATION Spec
CONSTANTS
    Lists <- MCLists
    Plans <- MCPlans
    Concurrency = 2
    Limit = 3
    Exchange = 2
    Delay = 1
    EnrichTime = 2
    ProbeTime = 3
    ProbeWait = 2
    Connect = 1
    MaxRedirects = 1
    MaxGaps = 1
    Viewers = {v1, v2}
    MaxCrashes = 1
    MaxFailures = 1
    NumberOf <- MCNumberOf
    PartsOf <- MCPartsOf
    Posts <- MCPosts
    MaxChanges = 1
    MaxTicks = 2
    MaxJobs = 2
    Paths = {p1, p2}
    MaxCreations = 2
    People = {u1, u2}
    NoOne = NoOne
    MaxSessions = 3
    MaxLoads = 1
    MaxCalls = 2
    MaxBroken = 1
    Me = Me
    Others = {o1}
    Codes = {i1}
    MaxWrites = 2
    MaxErrors = 1
SYMMETRY Alike
INVARIANTS
    TypeOK
    AnswersInTime
    ShownIfFound
    HalfIsPassing
    TypeFollows
    ShownIsQueued
    NothingOverwritten
    OneUnlessOvertaken
    RecordedStays
    PageTellsSession
    OnlyStaleGoesWrong
    OwnChangeShown
CHECK_DEADLOCK FALSE
