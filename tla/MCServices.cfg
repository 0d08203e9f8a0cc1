SPECIFICATION FairSpec
CONSTANTS
    Requests = {r1, r2}
    HttpWorkers = {w1, w2}
    MaxDepth = 1
    StartMayFail = FALSE
    NoRequest = NoRequest
    s1 = s1
    s2 = s2
    tick = tick
    once = once
    twice = twice
    r1 = r1
    r2 = r2
    NodeLoads <- SomeNodeLoads
    TestLoads <- SomeTestLoads
    Servants = {s1, s2}
    Pools <- OneOrTwo
    NodePools <- OneServant
    Tasks = {once, twice, tick}
    Repeated <- OnlyTick
    Period = 1
    MaxTime = 2
    NoTask = NoTask
INVARIANTS AnsweredOrHeld QueueDeletedAlone OnTimeAlone 
PROPERTIES RequestsAnswered TasksRun ShutdownEnds
CHECK_DEADLOCK FALSE
