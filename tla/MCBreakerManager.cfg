SPECIFICATION ManagerSpec
CONSTANTS
    c1 = c1
    c2 = c2
    c3 = c3
    c4 = c4
    r1 = r1
    Callers <- MCCallers
    Replicas <- MCReplicas
    window_size = 3
    threshold_num = 1
    threshold_den = 2
INVARIANTS
    ProbeOwned
    ClosedIsHealthy
PROPERTIES
    ProbePerCooldown
    OnlyHalfOpenCloses
    Recovers
