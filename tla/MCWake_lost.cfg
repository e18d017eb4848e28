\* No fault, no slow wake, two messages.
CONSTANTS
    t1 = t1
    t2 = t2
    Tasks = {t1, t2}
    IterationCap = 1
    RateLimit = 1
    MaxSends = 2
    Arrivals <- MessagesOnly
    NoTask = NoTask
    Budgeted = FALSE
    SlowWakes = FALSE
    Faults = {}
SPECIFICATION FairSpec
PROPERTY
    MessageInWakeIsRead
