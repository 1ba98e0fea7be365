\* One link and one SMS of two segments on a window of one or two; one gateway
\* fault, configuration changes and the deletion of the channel.
CONSTANTS
    Links = {l1}
    Sms = {m1}
    Segs <- MCTwoSegs
    Total <- MCTwoSegs
    Sliders = {1, 2}
    FirstSlider = 2
    HeartLimit = 1
    ResetTicks = 2
    SessionTicks = 3
    MaxFaults = 1
    MaxQueue = 1
SPECIFICATION LinkSpec
INVARIANTS
    LinkTypeOK
    LinkStateConsistent
    WindowCapped
    WindowAccounting
    SessionsConserved
CHECK_DEADLOCK FALSE
