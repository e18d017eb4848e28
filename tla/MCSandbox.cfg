\* One call at a time over every host, setting and profile, with a restart; and, in one
\* of these cases, its denials.
\* A server that is down for good stops: no deadlock check.
CONSTANTS
    c1 = c1
    nobody = nobody
    Nobody = nobody
    Calls <- OneCall
    Hosts <- AllHosts
    Environments <- AllEnvironments
    Profiles <- BothProfiles
    MaxStarts = 2
    MaxDenials = 2
SPECIFICATION Spec
CONSTRAINT DenialsWhereAudited
CHECK_DEADLOCK FALSE
INVARIANTS
    TypeOK
    CommandIsConfined
    ReportedDenialIsTheCommands
    SampledDenialsAreAppended
    StrictFloorAdmitsCalls
PROPERTIES
    NothingIsLeftRunning
