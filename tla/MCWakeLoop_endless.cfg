\* One wake, after which the model stops; its task is always scheduled.
CONSTANTS
    key = key
    Names = {key}
    MaxCredentials = 0
    Requests <- SomeRequests
    ModeStrings <- OneMode
    IterationCap = 1
    RateLimit = 1
    SchemaCap = 1
    MaxBatch = 1
    MaxRemarks = 1
    MaxWakes = 1
SPECIFICATION FairSpec
PROPERTY
    WakeEnds
CHECK_DEADLOCK FALSE
