----------------------------- MODULE MCGateway ------------------------------
(* Two requests compete for two replicas with one slot each, or for one,    *)
(* when r2 is out of routing: then the second waits in the queue.  q1 asks  *)
(* for two tokens, so that a stream can fail after the first, and its       *)
(* client may cancel.  A breaker opens on one failure, so that a request    *)
(* can find a circuit open, be the probe, and be overtaken by a failure.    *)
EXTENDS Gateway

CONSTANTS q1, q2, r1, r2

MCRequests == {q1, q2}
MCReplicas == {r1, r2}
MCTokens == [q \in MCRequests |-> IF q = q1 THEN 2 ELSE 1]
MCCapacity == [r \in MCReplicas |-> 1]
MCImpatient == {q1}
MCVolatile == {r2}
=============================================================================
