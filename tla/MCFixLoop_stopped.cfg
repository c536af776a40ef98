\* Two threads: an escalation overlaps the creation of a fix-session.
SPECIFICATION Spec
CONSTANTS
    r1 = r1
    r2 = r2
    r3 = r3
    w1 = w1
    w2 = w2
    Parent = Parent
    None = None
    Runs <- TwoRuns
    Workers <- TwoWorkers
    MAX_FIX_ATTEMPTS = 1
    MAX_CONCURRENT_SESSIONS = 2
    RawStatuses = {"running", "exit"}
    ChildrenReportPR = FALSE
    SameSecond = TRUE
    PrEnds = {"merged"}
    HumanPushes = FALSE
    METRICS_LIMIT = 2
    MaxDeliveries = 2
    MaxFaults = 0
PROPERTY
    FixSessionsStopped
