--------------------------- MODULE AdmissionGate ---------------------------
(***************************************************************************)
(* What the gateway's backpressure queue promises, without its tickets,    *)
(* lock or condition variable: a bounded set of callers waits inside, the  *)
(* gate is given permits (one per freed replica slot), and a caller that   *)
(* is let through uses up a permit of its own.  RequestQueue implements    *)
(* it.                                                                     *)
(***************************************************************************)
EXTENDS Integers, FiniteSets

CONSTANTS Threads,   \* the gateway's request-handling threads
          max_size   \* how many of them may wait at once

VARIABLES inside,    \* the callers that wait
          permits,   \* how many permits were ever given
          grants     \* how many callers were ever let through

gateVars == <<inside, permits, grants>>

GateInit == inside = {} /\ permits = 0 /\ grants = 0

HasRoom == Cardinality(inside) < max_size

PermitLeft == grants < permits

\* A caller is admitted to the bounded waiting room.
Admit(t) ==
    /\ HasRoom
    /\ t \notin inside
    /\ inside' = inside \cup {t}
    /\ UNCHANGED <<permits, grants>>

\* A caller that arrives while a permit is left need not wait.
PassThrough ==
    /\ HasRoom
    /\ PermitLeft
    /\ grants' = grants + 1
    /\ UNCHANGED <<inside, permits>>

\* A waiting caller is let through, on a permit nobody else used.
Grant(t) ==
    /\ t \in inside
    /\ PermitLeft
    /\ inside' = inside \ {t}
    /\ grants' = grants + 1
    /\ UNCHANGED permits

\* A waiting caller gives up.
Abandon(t) ==
    /\ t \in inside
    /\ inside' = inside \ {t}
    /\ UNCHANGED <<permits, grants>>

\* A replica slot was freed.
Release ==
    /\ permits' = permits + 1
    /\ UNCHANGED <<inside, grants>>

GateNext ==
    \/ PassThrough
    \/ Release
    \/ \E t \in Threads : Admit(t) \/ Grant(t) \/ Abandon(t)

GateSpec == GateInit /\ [][GateNext]_gateVars
=============================================================================
