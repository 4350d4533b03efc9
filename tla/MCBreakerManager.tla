-------------------------- MODULE MCBreakerManager --------------------------
(* One replica, since breakers share nothing, and four callers: three fill  *)
(* the window of three outcomes and trip the breaker while the fourth's     *)
(* stream, admitted before, is still in flight.                             *)
EXTENDS BreakerManager

CONSTANTS c1, c2, c3, c4, r1

MCCallers == {c1, c2, c3, c4}
MCReplicas == {r1}
=============================================================================
