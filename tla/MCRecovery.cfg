\* Wakes may outlive the sweep's window while their task still runs; every wake is cut
\* at its first check of the cap.  Or two tasks spend, and no wake is that slow.
CONSTANTS
    t1 = t1
    t2 = t2
    Tasks <- TwoTasks
    IterationCap = 0
    RateLimit = 1
    MaxSends = 2
    Arrivals <- MessagesOnly
    NoTask = NoTask
    Budgeted = FALSE
    SlowWakes = TRUE
    Faults <- TaskFaults
    Workers <- TwoTasks
    Nobody = Nobody
    Limits <- NoneOrOne
    Prices <- NoneOrOne
    MaxRounds = 2
    MaxWakes = 4
    MaxBilled = 2
SPECIFICATION RecoverySpec
INVARIANTS
    FewWakesAfterTheBudget
    UsedIsTheSumOfCalls
    VersionsIncrease
PROPERTIES
    CanonicalTransitions
    ReturnsToRest
