---------------------------- MODULE MCLoadBalancer ----------------------------
(***************************************************************************)
(* Two callers and three replicas: r2 has no limit, r3 joins and leaves.   *)
(* The first hash function fills a range of six points, so that a prompt   *)
(* may hash to a point or, while r3 is away, behind the last one; in the   *)
(* second, points of r1 and r3 collide.                                    *)
(***************************************************************************)
EXTENDS LoadBalancer

CONSTANTS r1, r2, r3, c1, c2, b1

MCReplicas == {r1, r2, r3}
MCCapacity == [r \in MCReplicas |-> IF r = r2 THEN 0 ELSE 1]
MCCallers == {c1, c2}
MCRebuilders == {b1}
MCHash(p1, p2, p3) == [k \in MCReplicas \X {0, 1} |->
    (IF k[1] = r1 THEN p1 ELSE IF k[1] = r2 THEN p2 ELSE p3)[k[2] + 1]]
MCHashFunctions == {MCHash(<<0, 3>>, <<1, 2>>, <<4, 5>>), MCHash(<<5, 2>>, <<0, 4>>, <<2, 3>>)}
MCPrompts == {1, 3, 5}
MCExclusions == {{}, {r2}}
MCVolatile == {r3}
=============================================================================
