SPECIFICATION HedgeSpec
CONSTANTS
    q1 = q1
    q2 = q2
    r1 = r1
    r2 = r2
    Requests <- MCRequests
    Replicas <- MCReplicas
    Hedged <- MCOne
    Silent <- MCNobody
    max_tokens <- MCTokens
    max_capacity <- MCCapacity
    max_retries = 1
    max_size = 1
    Impatient <- MCOne
    Volatile <- MCSecond
    window_size = 1
    threshold_num = 1
    threshold_den = 2
INVARIANTS
    RaceCountsExact
    EverySlotTold
    GrantsBackedBySlots
    OneWinner
    HedgedAnswer
PROPERTIES
    EveryRequestReturns
