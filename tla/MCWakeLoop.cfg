\* One wake; its second call may cross the iteration cap, a third the rate limit.
\* Its credential is created and revoked at any moment.
CONSTANTS
    key = key
    Names = {key}
    MaxCredentials = 1
    Requests <- SomeRequests
    ModeStrings <- SomeModes
    IterationCap = 2
    RateLimit = 2
    SchemaCap = 2
    MaxBatch = 2
    MaxRemarks = 2
    MaxWakes = 1
SPECIFICATION Spec
INVARIANTS
    TypeOK
    SecretsAreCurrent
    EffectsAreLogged
    CallsAreAnswered
    NonceGuardsEffect
    GateUsesARecentMode
    DispatchesBounded
    TerminalEventsAreLast
    FailureIsEarned
PROPERTY
    ImplementsGuard
