SPECIFICATION Spec
CONSTANTS
    a = a
    b = b
    c = c
    sa = sa
    Nodes <- Trio
    Members <- TrioMembers
    addr <- TrioAddr
    Seeds <- TrioSeeds
    Known <- TrioKnown
    kMaxPiggybackSends = 2
    kMaxPiggybackBuffer = 3
    max_piggyback_updates = 2
    indirect_ping_count = 1
    Broken <- AtoB
    Prompt = TRUE
    MaxSeq <- TrioSeq
    MaxNet = 9
    MaxLives <- OneLife
INVARIANTS
    NoFalseSuspicion
