\* Two perpetual timers and one of long periods, every call interleaved.
CONSTANTS
    p1 = p1
    p2 = p2
    a1 = a1
    NoTimer = NoTimer
    Timers = {p1, p2, a1}
    Perpetual = {p1, p2}
    Periodic = {a1}
    MaxPeriod = 2
    Half = 8
    MaxDelay = 2
    MaxAuto = 3
    MaxTsc = 3
    MaxBlock = 2
SPECIFICATION FairSpec
INVARIANTS TypeOK ListOK TargetNotLate
PROPERTIES KeepsTime DueIsServed
