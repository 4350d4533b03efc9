SPECIFICATION Spec
CONSTANTS
    a = a
    b = b
    c = c
    sa = sa
    Nodes <- Pair
    Members <- PairMembers
    addr <- PairAddr
    Seeds <- PairSeeds
    Known <- PairKnown
    kMaxPiggybackSends = 2
    kMaxPiggybackBuffer = 2
    max_piggyback_updates = 2
    indirect_ping_count = 1
    Broken = {}
    Prompt = FALSE
    MaxSeq <- PairSeq
    MaxNet = 1
    MaxLives <- PairLives
INVARIANTS
    SwimTypeOK
    IncarnationsIssued
PROPERTIES
    NeverRegresses
    ImplementsBeliefs
