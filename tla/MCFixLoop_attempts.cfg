\* Two threads, three failed runs, attempts capped at two; Devin may suspend
\* sessions: every overlap of the handlers with each other and the poller, and
\* one crash, exception or failed termination anywhere.
SPECIFICATION Spec
CONSTANTS
    r1 = r1
    r2 = r2
    r3 = r3
    w1 = w1
    w2 = w2
    Parent = Parent
    None = None
    Runs <- ThreeRuns
    Workers <- TwoWorkers
    MAX_FIX_ATTEMPTS = 2
    MAX_CONCURRENT_SESSIONS = 2
    RawStatuses = {"suspended"}
    ChildrenReportPR = FALSE
    SameSecond = FALSE
    PrEnds = {}
    HumanPushes = FALSE
    METRICS_LIMIT = 2
    MaxDeliveries = 3
    MaxFaults = 1
SYMMETRY Interchangeable
INVARIANTS
    TypeOK
    AttemptChain
    AttemptsShared
    FixedOnce
    EscalatesAfterLastAttempt
PROPERTY
    RacesOnlyTheLoose
