\* One SMS of two segments on one link whose slider changes between 1 and 2;
\* the audit switched on, one gateway fault.
CONSTANTS
    Links = {l1}
    Sms = {m1}
    Segs <- MCTwoSegs
    Total <- MCTwoSegs
    Sliders = {1, 2}
    FirstSlider = 2
    HeartLimit = 1
    ResetTicks = 1
    SessionTicks = 2
    MaxFaults = 1
    MaxQueue = 1
    MaxSendTimes = 2
    AuditSwitch = TRUE
    MaxMqFaults = 0
SPECIFICATION PoolSpec
INVARIANTS
    PoolWindowBounded
    SessionsMatch
    RebackedNotSent
CHECK_DEADLOCK FALSE
