\* One thread, two failed runs, attempts capped at one, /metrics looking at two
\* rows; children may list the pull request and become parents, Devin may
\* report a status nobody knows, the pull request may be merged or closed, a
\* human may push to it, recognisably or not; nothing fails.
SPECIFICATION FairSpec
CONSTANTS
    r1 = r1
    r2 = r2
    r3 = r3
    w1 = w1
    w2 = w2
    Parent = Parent
    None = None
    Runs <- TwoRuns
    Workers <- OneWorker
    MAX_FIX_ATTEMPTS = 1
    MAX_CONCURRENT_SESSIONS = 2
    RawStatuses = {"unrecognised", "exit"}
    ChildrenReportPR = TRUE
    SameSecond = FALSE
    PrEnds = {"merged", "closed"}
    HumanPushes = TRUE
    METRICS_LIMIT = 2
    MaxDeliveries = 2
    MaxFaults = 0
INVARIANTS
    HandsOff
PROPERTIES
    RacesOnlyTheLoose
    SlotsReleased
    StageSettles
    LifetimeCountsGrow
