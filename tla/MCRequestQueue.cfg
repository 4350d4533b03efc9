SPECIFICATION QueueSpec
CONSTANTS
    t1 = t1
    t2 = t2
    t3 = t3
    Threads <- MCThreads
    max_size = 2
    MaxCalls = 4
    MaxNotify = 3
INVARIANTS
    WaitingCountExact
    NoSleeperForgotten
PROPERTIES
    ImplementsGate
    NoLostWakeup
