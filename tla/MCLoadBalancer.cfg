SPECIFICATION Spec
CONSTANTS
    r1 = r1
    r2 = r2
    r3 = r3
    c1 = c1
    c2 = c2
    b1 = b1
    Replicas <- MCReplicas
    Callers <- MCCallers
    Rebuilders <- MCRebuilders
    max_capacity <- MCCapacity
    virtual_nodes = 2
    hash_range = 6
    HashFunctions <- MCHashFunctions
    Prompts <- MCPrompts
    Exclusions <- MCExclusions
    Volatile <- MCVolatile
INVARIANTS
    WalkIsClockwise
    OpenIsFound
    OverbookedByRace
PROPERTIES
    FullLoop
    WalkShrinks
    WalkEnds
    MovesOnlyWithMembership
