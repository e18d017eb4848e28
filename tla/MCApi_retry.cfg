\* A retry after a failure between the idempotency key and the event.
CONSTANTS
    d1 = d1
    d2 = d2
    k1 = k1
    none = none
    c1 = c1
    c2 = c2
    a1 = a1
    a2 = a2
    w1 = w1
    key = key
    other = other
    p = p
    q = q
    Deliveries <- TwoDeliveries
    Keys = {k1}
    NoKey = none
    MaxSecrets = 1
    Clients = {}
    Admins = {}
    Wakes = {}
    Names <- TwoNames
    MaxCredentials = 2
    ProviderNames <- TwoProviders
    NoName = none
    MaxProviders = 2
SPECIFICATION ApiSpec
INVARIANT
    AnsweredIsLogged
