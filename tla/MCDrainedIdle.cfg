SPECIFICATION Spec
CONSTANTS
    r1 = r1
    r2 = r2
    c1 = c1
    c2 = c2
    sender = sender
    Replicas <- MCReplicas
    replica_ids <- MCOrder
    GossipThreads <- MCGossip
    Calls <- MCCalls
    Reported <- MCNobody
    Volatile <- MCNobody
PROPERTIES
    DrainedIsIdle
