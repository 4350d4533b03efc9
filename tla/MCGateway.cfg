SPECIFICATION Spec
CONSTANTS
    q1 = q1
    q2 = q2
    r1 = r1
    r2 = r2
    Requests <- MCRequests
    Replicas <- MCReplicas
    max_tokens <- MCTokens
    max_capacity <- MCCapacity
    max_retries = 2
    max_size = 1
    Impatient <- MCImpatient
    Volatile <- MCVolatile
    window_size = 1
    threshold_num = 1
    threshold_den = 2
INVARIANTS
    TypeOK
    ActiveExact
    NeverRetried
PROPERTIES
    AnswerIsPrefix
    KeepsBreakerProtocol
