\* As in MCRecovery: a wake may outlive the sweep's window while its task runs.
CONSTANTS
    t1 = t1
    t2 = t2
    Tasks = {t1, t2}
    IterationCap = 1
    RateLimit = 1
    MaxSends = 2
    Arrivals <- MessagesOnly
    NoTask = NoTask
    Budgeted = FALSE
    SlowWakes = TRUE
    Faults = {}
SPECIFICATION Spec
INVARIANT
    OneWakeAtATime
