\* One timer with every delay and two overlapping alarm threads; up to three
\* ticks pending.
CONSTANTS
    Slots = 3
    TimeUnit = 2
    Timers = {t1}
    Delays <- MCDelays
    Alarms = {a1, a2}
    MaxPending = 2
SPECIFICATION FairSpec
INVARIANTS
    TypeOK
    ListedOnce
    NeverLate
    TicksConserved
PROPERTIES
    NeverEarly
    TimersFire
