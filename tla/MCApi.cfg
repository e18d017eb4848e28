\* Two deliveries, of which one may be a retry of the other, beside a rotation; or
\* two bootstraps and logins, then two administrators and a wake over two providers.
CONSTANTS
    d1 = d1
    d2 = d2
    k1 = k1
    none = none
    c1 = c1
    c2 = c2
    a1 = a1
    a2 = a2
    w1 = w1
    key = key
    other = other
    p = p
    q = q
    Deliveries <- TwoDeliveries
    Keys = {k1}
    NoKey = none
    MaxSecrets = 2
    Clients <- TwoClients
    Admins <- TwoAdmins
    Wakes = {w1}
    Names <- TwoNames
    MaxCredentials = 2
    ProviderNames <- TwoProviders
    NoName = none
    MaxProviders = 2
SPECIFICATION ApiSpec
CONSTRAINT SettledOnceInUse
SYMMETRY Interchangeable
INVARIANTS
    DeliveredAtMostOnce
    AcceptedWasAuthorized
    BootstrapsOnce
    KeyGoesToItsProvider
PROPERTIES
    DefaultIsHandedOn
