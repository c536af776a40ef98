\* An issue, opened and labeled, a failed run and a ping for one slot, over a
\* midnight; nothing fails.
CONSTANTS
    d1 = d1
    d2 = d2
    d3 = d3
    d4 = d4
    Deliveries = {d1, d2, d3, d4}
    Payload <- OpenedLabeledARunAndAPing
    None = None
    Workers = {w1}
    Poller = poller
    MAX_CONCURRENT_SESSIONS = 1
    MAX_SESSIONS_PER_DAY = 2
    SyncedStatuses = {"running", "completed"}
    LostPerCall = 0
    MaxCrashes = 0
    MaxFaults = 0
    MaxReplays = 0
    LastDay = 2
SPECIFICATION FairSpec
INVARIANTS
    NoAbandonedReservation
    EverySessionIsExplained
    PaidOnce
PROPERTIES
    EventsSettle
