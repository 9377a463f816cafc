CONSTANTS
    Task = {t1, t2, t3}
    Key = {k1, k2}
    Value = {v1, v2}
    NoKey = NoKey
    NoValue = NoValue
SPECIFICATION FairSpec
INVARIANTS
    TypeOK
    RunOnce
    NoLostWakeup
    NoPanic
PROPERTY
    ImplementsMemo
    WaitersReturn
