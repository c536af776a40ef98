\* Two threads make their first call to Devin at once; two attempts each;
\* a shutdown at any moment.
SPECIFICATION FairSpec
CONSTANTS
    w1 = w1
    w2 = w2
    None = None
    Callers <- TwoCallers
    max_retries = 2
INVARIANTS
    TypeOK
    OneTransport
    RaisesOnlyWhenExhausted
    SessionsAccounted
    ReturnedMeansOver
PROPERTIES
    CallsEnd
\* Every caller makes one call: the system stops when both have ended.
CHECK_DEADLOCK FALSE
