\* Two task slots, every fault, no running task slower than the sweep's window.
CONSTANTS
    t1 = t1
    t2 = t2
    Tasks = {t1, t2}
    IterationCap = 2
    RateLimit = 2
    MaxSends = 3
    Arrivals <- EventKinds
    NoTask = NoTask
    Budgeted = TRUE
    SlowWakes = FALSE
    Faults <- AllFaults
SPECIFICATION Spec
INVARIANTS
    TypeOK
    OneWakeAtATime
    RowIsWhereTaskThinks
    PriorStatusIsCurrent
    LogFollowsRow
    CountIsThisWakes
    SweepTakesAbandoned
    UnreadMessageIsPending
PROPERTY
    ImplementsLease
