------------------------------- MODULE MCSwim -------------------------------
(* Clusters around the seed a, whose placeholder id is sa.  The seed itself *)
(* may never hear of its placeholder; the nodes that joined through it know *)
(* it.  Pair: a and b, and b restarts.  Trio: a probes b and c, twice, and  *)
(* b and c answer, act as proxies and do not probe, and b may restart.      *)
EXTENDS Swim

CONSTANTS a, b, c, sa

Pair == {a, b}
PairMembers == Pair \cup {sa}
PairAddr == [m \in PairMembers |-> IF m = sa THEN a ELSE m]
PairSeeds == [n \in Pair |-> IF n = a THEN {} ELSE {sa}]
PairKnown == [n \in Pair |-> IF n = a THEN Pair ELSE PairMembers]
PairSeq == [n \in Pair |-> 1]
PairLives == [n \in Pair |-> IF n = a THEN 1 ELSE 2]

Trio == {a, b, c}
TrioMembers == Trio \cup {sa}
TrioAddr == [m \in TrioMembers |-> IF m = sa THEN a ELSE m]
TrioSeeds == [n \in Trio |-> IF n = a THEN {} ELSE {sa}]
TrioKnown == [n \in Trio |-> IF n = a THEN Trio ELSE TrioMembers]
TrioSeq == [n \in Trio |-> IF n = a THEN 3 ELSE 0]
TrioLives == [n \in Trio |-> IF n = b THEN 2 ELSE 1]
OneLife == [n \in Trio |-> 1]
AtoB == {<<a, b>>, <<b, a>>}
=============================================================================
