------------------------------ MODULE Beliefs ------------------------------
(***************************************************************************)
(* What the gossip membership promises of what its nodes think of each     *)
(* other, without probes, sequence numbers, buffers or datagrams.  A node  *)
(* changes its mind for three reasons only: it has met somebody, its own   *)
(* failure detector accuses somebody, or it has heard a newer rumour; and  *)
(* a rumour that accuses itself it answers, in a new incarnation, which    *)
(* nobody else may speak for.  Rumours spread, and are lost, at will, but  *)
(* none comes from nowhere.  Swim implements it.                           *)
(***************************************************************************)
EXTENDS Integers

CONSTANTS Nodes,    \* those that run and think
          Members   \* those that are thought of

VARIABLES belief,       \* belief[n][m]: what n thinks of m
          incarnation,  \* the incarnation a node speaks in
          rumours,      \* what is said of members, by anybody, anywhere
          up            \* the nodes that run

beliefVars == <<belief, incarnation, rumours, up>>

Opinion(s, i) == [state |-> s, incarnation |-> i]
Rumour(m, o) == [id |-> m, info |-> o]

NoOpinion == Opinion("UNKNOWN", 0)
Fresh == Opinion("ALIVE", 0)
Own(n) == Opinion("ALIVE", incarnation[n])

\* A later incarnation is newer; within one, suspicion is newer than life, and
\* death than both.
Newer(new, old) ==
    \/ old.state = "UNKNOWN"
    \/ new.incarnation > old.incarnation
    \/ /\ new.incarnation = old.incarnation
       /\ \/ old.state = "ALIVE" /\ new.state \in {"SUSPECT", "DEAD"}
          \/ old.state = "SUSPECT" /\ new.state = "DEAD"

\* u says of n, in its present incarnation or a later one, that it fails.
Accusation(n, u) ==
    /\ u.id = n
    /\ u.info.state \in {"SUSPECT", "DEAD"}
    /\ u.info.incarnation >= incarnation[n]

BeliefInit ==
    /\ belief \in [Nodes -> [Members -> {NoOpinion, Fresh}]]
    /\ \A n \in Nodes : belief[n][n] = Fresh
    /\ incarnation = [n \in Nodes |-> 0]
    /\ rumours = {}
    /\ up = Nodes

Spread(new) == rumours' \in SUBSET (rumours \cup new)

\* n comes to think o of m, and may tell.
Think(n, m, o) ==
    /\ belief' = [belief EXCEPT ![n][m] = o]
    /\ Spread({Rumour(m, o)})

\* n learns that there is an m.
Meet(n, m) ==
    /\ belief[n][m] = NoOpinion
    /\ Think(n, m, Fresh)
    /\ UNCHANGED <<incarnation, up>>

\* n accuses another of what is worse than it thought, in the incarnation that it
\* knows of.
Accuse(n, m, s) ==
    /\ m # n
    /\ belief[n][m].state # "UNKNOWN"
    /\ Newer(Opinion(s, belief[n][m].incarnation), belief[n][m])
    /\ Think(n, m, Opinion(s, belief[n][m].incarnation))
    /\ UNCHANGED <<incarnation, up>>

\* n believes a rumour that is newer than what it thought.
Hear(n, u) ==
    /\ ~Accusation(n, u)
    /\ Newer(u.info, belief[n][u.id])
    /\ Think(n, u.id, u.info)
    /\ UNCHANGED <<incarnation, up>>

\* n answers an accusation in a new incarnation.  One that is newer even than that
\* (it is left over from an earlier life of n) n has to believe, as others do.
Refute(n, u) ==
    LET answer == Opinion("ALIVE", incarnation[n] + 1) IN
    /\ Accusation(n, u)
    /\ incarnation' = [incarnation EXCEPT ![n] = @ + 1]
    /\ belief' = [belief EXCEPT ![n][n] = IF Newer(u.info, answer) THEN u.info ELSE answer]
    /\ Spread({Rumour(n, answer)})
    /\ UNCHANGED up

\* n says that it lives.
Announce(n) ==
    /\ Spread({Rumour(n, Own(n))})
    /\ UNCHANGED <<belief, incarnation, up>>

\* n crashes, and with it goes what it knew, its own incarnation too.
Forget(n) ==
    /\ up' = up \ {n}
    /\ belief' = [belief EXCEPT ![n] = [m \in Members |-> NoOpinion]]
    /\ incarnation' = [incarnation EXCEPT ![n] = 0]
    /\ Spread({})

\* n starts again, and knows nobody but itself.
Begin(n) ==
    /\ up' = up \cup {n}
    /\ belief' = [belief EXCEPT ![n] = [m \in Members |-> IF m = n THEN Fresh ELSE NoOpinion]]
    /\ incarnation' = [incarnation EXCEPT ![n] = 0]
    /\ Spread({Rumour(n, Fresh)})

BeliefNext ==
    \/ \E n \in up :
          \/ Announce(n) \/ Forget(n)
          \/ \E m \in Members : Meet(n, m) \/ Accuse(n, m, "SUSPECT") \/ Accuse(n, m, "DEAD")
          \/ \E u \in rumours : Hear(n, u) \/ Refute(n, u)
    \/ \E n \in Nodes \ up : Begin(n)

BeliefSpec == BeliefInit /\ [][BeliefNext]_beliefVars
=============================================================================
