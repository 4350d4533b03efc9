--------------------------- MODULE MCRollingUpdate ---------------------------
(***************************************************************************)
(* Two replicas, updated in turn, and two threads that call them.  Gossip  *)
(* has something to say of r1, which may also crash; or nothing happens    *)
(* but the update.                                                         *)
(***************************************************************************)
EXTENDS RollingUpdate

CONSTANTS r1, r2, c1, c2, sender

MCReplicas == {r1, r2}
MCOrder    == <<r1, r2>>
MCCalls    == {c1, c2}
MCGossip   == {sender}
MCReported == {r1}
MCNobody   == {}
=============================================================================
