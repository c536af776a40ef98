\* No failed run: a merge while Devin waits and nothing else changes.
SPECIFICATION Spec
CONSTANTS
    r1 = r1
    r2 = r2
    r3 = r3
    w1 = w1
    w2 = w2
    Parent = Parent
    None = None
    Runs <- TwoRuns
    Workers <- OneWorker
    MAX_FIX_ATTEMPTS = 1
    MAX_CONCURRENT_SESSIONS = 2
    RawStatuses = {"running", "exit"}
    ChildrenReportPR = FALSE
    SameSecond = FALSE
    PrEnds = {"merged"}
    HumanPushes = FALSE
    METRICS_LIMIT = 2
    MaxDeliveries = 0
    MaxFaults = 0
PROPERTY
    MergeNoticed
