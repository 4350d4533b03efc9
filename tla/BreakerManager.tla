--------------------------- MODULE BreakerManager ---------------------------
(***************************************************************************)
(* CircuitBreakerManager (gateway/circuit_breaker.{h,cpp}) under the calls *)
(* gateway_server.cpp makes of it from many threads.  Infer() asks         *)
(* AllowRequest() before it dispatches a stream and records the outcome    *)
(* after it; InferHedged() dispatches without asking and records some of   *)
(* the outcomes.  Any number of streams, admitted under any state of the   *)
(* breaker, can be in flight when an outcome is recorded.                  *)
(***************************************************************************)
EXTENDS CircuitBreaker

CONSTANTS Callers,    \* threads of Infer() and InferHedged()
          Replicas    \* replica ids, the keys of breakers_

VARIABLES breaker,    \* breakers_: GetOrCreate makes a NewBreaker on demand
          call,       \* the stream each caller has in flight
          waited      \* history: a cooldown has passed since the last probe

managerVars == <<breaker, call, waited>>

\* normal: admitted by a CLOSED breaker; probe: admitted by any other;
\* hedged: dispatched by InferHedged without asking.
Kinds == {"normal", "probe", "hedged"}
Idle  == [kind |-> "none"]
Calls == {Idle} \cup [kind : Kinds, replica : Replicas]

InFlight(kind, r) == {c \in Callers : call[c] = [kind |-> kind, replica |-> r]}

ManagerInit ==
    /\ breaker = [r \in Replicas |-> NewBreaker]
    /\ call = [c \in Callers |-> Idle]
    /\ waited = [r \in Replicas |-> FALSE]

\* AllowRequest(r) that returns true.  A call that returns false changes
\* nothing, neither in the breaker nor for the caller.
AllowRequest(c, r) ==
    /\ call[c] = Idle
    /\ Allows(breaker[r])
    /\ breaker' = [breaker EXCEPT ![r] = AfterAllowRequest(@)]
    /\ LET kind == IF breaker[r].state = "CLOSED" THEN "normal" ELSE "probe"
       IN  /\ call' = [call EXCEPT ![c] = [kind |-> kind, replica |-> r]]
           /\ waited' = [waited EXCEPT ![r] = (kind = "normal") /\ @]

\* InferHedged dispatches to r whatever the state of its breaker.
DispatchHedged(c, r) ==
    /\ call[c] = Idle
    /\ call' = [call EXCEPT ![c] = [kind |-> "hedged", replica |-> r]]
    /\ UNCHANGED <<breaker, waited>>

RecordSuccess(c) ==
    /\ call[c] # Idle
    /\ breaker' = [breaker EXCEPT ![call[c].replica] = AfterRecordSuccess(@)]
    /\ call' = [call EXCEPT ![c] = Idle]
    /\ UNCHANGED waited

RecordFailure(c) ==
    /\ call[c] # Idle
    /\ breaker' = [breaker EXCEPT ![call[c].replica] = AfterRecordFailure(@)]
    /\ call' = [call EXCEPT ![c] = Idle]
    /\ UNCHANGED waited

\* A racer of InferHedged that produced no token is recorded nowhere.
ForgetHedged(c) ==
    /\ call[c] # Idle
    /\ call[c].kind = "hedged"
    /\ call' = [call EXCEPT ![c] = Idle]
    /\ UNCHANGED <<breaker, waited>>

CooldownElapses(r) ==
    /\ breaker[r].state = "OPEN"
    /\ ~breaker[r].cooled
    /\ breaker' = [breaker EXCEPT ![r] = AfterCooldown(@)]
    /\ waited' = [waited EXCEPT ![r] = TRUE]
    /\ UNCHANGED call

ManagerNext ==
    \/ \E r \in Replicas : CooldownElapses(r)
    \/ \E c \in Callers :
          \/ \E r \in Replicas : AllowRequest(c, r) \/ DispatchHedged(c, r)
          \/ RecordSuccess(c)
          \/ RecordFailure(c)
          \/ ForgetHedged(c)

\* Time passes, streams end, and some caller keeps asking for each replica
\* (the last is an assumption about traffic, not about the code).
ManagerFairness ==
    /\ \A r \in Replicas : WF_managerVars(CooldownElapses(r))
    /\ \A c \in Callers : WF_managerVars(RecordSuccess(c) \/ RecordFailure(c))
    /\ \A r \in Replicas : SF_managerVars(\E c \in Callers : AllowRequest(c, r))

ManagerSafety == ManagerInit /\ [][ManagerNext]_managerVars

ManagerSpec == ManagerSafety /\ ManagerFairness

-----------------------------------------------------------------------------
(* Properties                                                              *)

ManagerTypeOK ==
    /\ breaker \in [Replicas -> Breaker]
    /\ \A r \in Replicas : Len(breaker[r].outcomes) <= window_size
    /\ call \in [Callers -> Calls]
    /\ waited \in [Replicas -> BOOLEAN]

\* A breaker is never stuck half-open: probe_in_flight_ is set exactly in
\* HALF_OPEN, and then a caller that was admitted as a probe still is in
\* flight and will record an outcome, whatever stale outcomes of earlier
\* streams arrive in between.
ProbeOwned ==
    \A r \in Replicas :
        /\ breaker[r].probe_in_flight <=> breaker[r].state = "HALF_OPEN"
        /\ breaker[r].state = "HALF_OPEN" => InFlight("probe", r) # {}

\* A breaker that lets everything through has no full window above the
\* threshold: no order of outcomes, not even successes recorded late, leaves
\* a failing replica's circuit closed.
ClosedIsHealthy ==
    \A r \in Replicas :
        breaker[r].state = "CLOSED" => ~Failing(breaker[r].outcomes)

\* A degraded replica gets at most one probe per cooldown: whenever a breaker
\* that is not closed admits a request, a whole cooldown has passed since the
\* previous probe was admitted.
ProbePerCooldown ==
    [][\A r \in Replicas :
         (\E c \in Callers : AllowRequest(c, r)) /\ breaker[r].state # "CLOSED"
            => waited[r]]_managerVars

\* Only an outcome recorded in HALF_OPEN closes a circuit: successes of streams
\* dispatched before it opened (or hedged past it) do not.
OnlyHalfOpenCloses ==
    [][\A r \in Replicas :
         breaker[r].state = "OPEN" => breaker'[r].state # "CLOSED"]_managerVars

\* When a replica fails no more requests, its circuit closes for good, from
\* whatever window and whatever calls in flight it starts.
NoMoreFailures == <>[][~\E c \in Callers : RecordFailure(c)]_managerVars
Recovers ==
    NoMoreFailures => <>[](\A r \in Replicas : breaker[r].state = "CLOSED")
=============================================================================
