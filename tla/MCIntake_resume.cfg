\* Two issues and a crash, with the fairness of the service.
CONSTANTS
    d1 = d1
    d2 = d2
    d3 = d3
    d4 = d4
    Deliveries = {d1, d2}
    Payload <- TwoIssues
    None = None
    Workers = {w1}
    Poller = poller
    MAX_CONCURRENT_SESSIONS = 2
    MAX_SESSIONS_PER_DAY = 3
    SyncedStatuses = {"running", "completed"}
    LostPerCall = 0
    MaxCrashes = 1
    MaxFaults = 0
    MaxReplays = 0
    LastDay = 1
SPECIFICATION FairSpec
PROPERTY
    InterruptedWorkResumes
