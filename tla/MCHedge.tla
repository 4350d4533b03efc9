------------------------------ MODULE MCHedge --------------------------------
(***************************************************************************)
(* A request of two tokens that may ask for hedging and a plain one compete*)
(* for two replicas with a slot each: the plain one may have taken one of  *)
(* them, or both selections may come before the other's slot is counted.   *)
(***************************************************************************)
EXTENDS Hedge

CONSTANTS q1, q2, r1, r2

MCRequests == {q1, q2}
MCReplicas == {r1, r2}
MCTokens == [q \in MCRequests |-> IF q = q1 THEN 2 ELSE 1]
MCCapacity == [r \in MCReplicas |-> 1]
MCOne == {q1}
MCSecond == {r2}
MCNobody == {}
=============================================================================
