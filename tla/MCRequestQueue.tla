--------------------------- MODULE MCRequestQueue ---------------------------
(* Three threads, two of which may wait at once: one can find the queue     *)
(* full, one can time out while its ticket is still ahead of serving_ticket *)
(* and a later caller can take a ticket that is served already.             *)
EXTENDS RequestQueue

CONSTANTS t1, t2, t3

MCThreads == {t1, t2, t3}
=============================================================================
