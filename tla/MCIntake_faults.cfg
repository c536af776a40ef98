\* Two issues, one of which does not parse, and a failed run; both caps are one;
\* a crash, an exception and a replay at any moment, and each create call may
\* lose one response.
CONSTANTS
    d1 = d1
    d2 = d2
    d3 = d3
    d4 = d4
    Deliveries = {d1, d2, d3}
    Payload <- IssuesAndARun
    None = None
    Workers = {w1}
    Poller = poller
    MAX_CONCURRENT_SESSIONS = 1
    MAX_SESSIONS_PER_DAY = 1
    SyncedStatuses = {"running", "completed"}
    LostPerCall = 1
    MaxCrashes = 1
    MaxFaults = 1
    MaxReplays = 1
    LastDay = 1
SPECIFICATION Spec
INVARIANTS
    TypeOK
    ResultMatchesLedger
    ActiveOvershootBounded
    DailyOvershootBounded
    PaidOnce
PROPERTIES
    QueueNeverLoses
    ImplementsLedger
