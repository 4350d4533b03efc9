------------------------ MODULE BreakerManagerProofs ------------------------
(***************************************************************************)
(* Theorems about BreakerManager, for every window size, every threshold,  *)
(* every set of replicas and of callers.                                   *)
(***************************************************************************)
EXTENDS BreakerManager, CircuitBreakerProofs

\* ProbeOwned needs the types only; together they are inductive.
ManagerInv == ManagerTypeOK /\ ProbeOwned /\ ClosedIsHealthy

-----------------------------------------------------------------------------
(* The inductive invariant                                                 *)

\* The invariant says of each breaker that it is sound.
LEMMA InvIsSound ==
    ManagerInv <=> /\ breaker = [r \in Replicas |-> breaker[r]]
                   /\ \A r \in Replicas : Sound(breaker[r])
                   /\ call \in [Callers -> Calls]
                   /\ waited \in [Replicas -> BOOLEAN]
                   /\ \A r \in Replicas :
                        breaker[r].state = "HALF_OPEN" => InFlight("probe", r) # {}
<1> USE DEF ManagerInv, ManagerTypeOK, ProbeOwned, ClosedIsHealthy, Sound, GoodBreaker
<1>1. ASSUME ManagerInv
      PROVE  /\ breaker = [r \in Replicas |-> breaker[r]]
             /\ \A r \in Replicas : Sound(breaker[r])
    BY <1>1
<1>2. ASSUME breaker = [r \in Replicas |-> breaker[r]],
             \A r \in Replicas : Sound(breaker[r])
      PROVE  breaker \in [Replicas -> Breaker]
    BY <1>2
<1> QED
    BY <1>1, <1>2

\* New breakers are closed, with an empty window.
LEMMA ManagerInvInit == ManagerInit => ManagerInv
BY NewBreakerSound, InvIsSound DEF ManagerInit, Calls

\* A breaker's methods keep the invariant as long as a probe stays in flight
\* while its breaker is half-open.
LEMMA BreakerStep ==
    ASSUME ManagerInv, NEW r \in Replicas, NEW b,
           breaker' = [breaker EXCEPT ![r] = b], Sound(b),
           call' \in [Callers -> Calls], waited' \in [Replicas -> BOOLEAN],
           b.state = "HALF_OPEN" => InFlight("probe", r)' # {},
           \A s \in Replicas \ {r} :
                InFlight("probe", s) # {} => InFlight("probe", s)' # {}
    PROVE  ManagerInv'
<1> USE InvIsSound
<1>1. /\ breaker' = [s \in Replicas |-> breaker'[s]]
      /\ breaker'[r] = b
      /\ \A s \in Replicas \ {r} : breaker'[s] = breaker[s]
    OBVIOUS
<1>2. \A s \in Replicas : Sound(breaker'[s])
    BY <1>1
<1>3. \A s \in Replicas :
         breaker'[s].state = "HALF_OPEN" => InFlight("probe", s)' # {}
    BY <1>1
<1> QED
    BY <1>1, <1>2, <1>3 DEF ManagerInv, ManagerTypeOK, ProbeOwned, ClosedIsHealthy, Sound, GoodBreaker

\* A caller's record ends its own flight only: a half-open breaker whose probe
\* it was is half-open no more.
LEMMA RecordKeepsOthers ==
    ASSUME ManagerInv, NEW c \in Callers, call[c] # Idle,
           call' = [call EXCEPT ![c] = Idle]
    PROVE  /\ call[c].replica \in Replicas
           /\ call' \in [Callers -> Calls]
           /\ \A s \in Replicas \ {call[c].replica} :
                InFlight("probe", s) # {} => InFlight("probe", s)' # {}
<1>1. call \in [Callers -> Calls]
    BY DEF ManagerInv, ManagerTypeOK
<1>2. call[c].replica \in Replicas
    BY <1>1 DEF Calls
<1>3. call' \in [Callers -> Calls]
    BY <1>1 DEF Calls
<1>4. ASSUME NEW s \in Replicas \ {call[c].replica}, InFlight("probe", s) # {}
      PROVE  InFlight("probe", s)' # {}
    <2>1. PICK p \in Callers : call[p] = [kind |-> "probe", replica |-> s]
        BY <1>4 DEF InFlight
    <2>2. p # c
        BY <2>1, <1>4
    <2> QED
        BY <1>1, <2>1, <2>2 DEF InFlight
<1> QED
    BY <1>2, <1>3, <1>4

\* Every step keeps the invariant.
LEMMA ManagerInvStep == ManagerInv /\ [ManagerNext]_managerVars => ManagerInv'
<1> SUFFICES ASSUME ManagerInv, [ManagerNext]_managerVars PROVE ManagerInv'
    OBVIOUS
<1>0. /\ call \in [Callers -> Calls]
      /\ waited \in [Replicas -> BOOLEAN]
      /\ \A r \in Replicas : Sound(breaker[r])
    BY InvIsSound
<1>1. ASSUME NEW c \in Callers, NEW r \in Replicas, AllowRequest(c, r)
      PROVE  ManagerInv'
    <2> DEFINE kind == IF breaker[r].state = "CLOSED" THEN "normal" ELSE "probe"
    <2>1. /\ call' = [call EXCEPT ![c] = [kind |-> kind, replica |-> r]]
          /\ breaker' = [breaker EXCEPT ![r] = AfterAllowRequest(breaker[r])]
          /\ waited' \in [Replicas -> BOOLEAN]
          /\ call[c] = Idle
        BY <1>0, <1>1 DEF AllowRequest
    <2>2. Sound(AfterAllowRequest(breaker[r]))
        BY <1>0, <1>1, AllowSound DEF AllowRequest
    <2>3. call' \in [Callers -> Calls]
        BY <1>0, <2>1 DEF Calls, Kinds
    <2>4. ASSUME AfterAllowRequest(breaker[r]).state = "HALF_OPEN"
          PROVE  InFlight("probe", r)' # {}
        <3>1. breaker[r].state # "CLOSED"
            BY <1>0, <1>1, <2>4, AllowSound DEF AllowRequest
        <3>2. call'[c] = [kind |-> "probe", replica |-> r]
            BY <1>0, <2>1, <3>1
        <3> QED
            BY <3>2 DEF InFlight
    <2>5. ASSUME NEW s \in Replicas \ {r}, InFlight("probe", s) # {}
          PROVE  InFlight("probe", s)' # {}
        <3>1. PICK p \in Callers : call[p] = [kind |-> "probe", replica |-> s]
            BY <2>5 DEF InFlight
        <3>2. call[p].kind = "probe" /\ call[p].replica = s
            BY <3>1
        <3>3. p # c
            <4>1. "kind" \in DOMAIN call[p] /\ "replica" \in DOMAIN call[p]
                BY <3>1
            <4>2. "replica" \notin DOMAIN Idle
                BY DEF Idle
            <4> QED
                BY <2>1, <4>1, <4>2
        <3> QED
            BY <1>0, <2>1, <3>1, <3>3 DEF InFlight
    <2> QED
        BY <2>1, <2>2, <2>3, <2>4, <2>5, BreakerStep
<1>2. ASSUME NEW c \in Callers, NEW r \in Replicas, DispatchHedged(c, r)
      PROVE  ManagerInv'
    <2>1. call' \in [Callers -> Calls]
        BY <1>0, <1>2 DEF DispatchHedged, Calls, Kinds
    <2>2. ASSUME NEW s \in Replicas, InFlight("probe", s) # {}
          PROVE  InFlight("probe", s)' # {}
        <3>1. PICK p \in Callers : call[p] = [kind |-> "probe", replica |-> s]
            BY <2>2 DEF InFlight
        <3>2. p # c
            <4>1. "replica" \in DOMAIN call[p]
                BY <3>1
            <4>2. "replica" \notin DOMAIN Idle
                BY DEF Idle
            <4> QED
                BY <1>2, <4>1, <4>2 DEF DispatchHedged
        <3> QED
            BY <1>0, <1>2, <3>1, <3>2 DEF InFlight, DispatchHedged
    <2> QED
        BY <1>2, <2>1, <2>2
        DEF DispatchHedged, ManagerInv, ManagerTypeOK, ProbeOwned, ClosedIsHealthy
<1>3. ASSUME NEW c \in Callers, RecordSuccess(c) PROVE ManagerInv'
    <2> DEFINE r == call[c].replica
    <2>1. /\ r \in Replicas
          /\ call' \in [Callers -> Calls]
          /\ \A s \in Replicas \ {r} :
                InFlight("probe", s) # {} => InFlight("probe", s)' # {}
        BY <1>3, RecordKeepsOthers DEF RecordSuccess
    <2>2. /\ breaker' = [breaker EXCEPT ![r] = AfterRecordSuccess(breaker[r])]
          /\ waited' \in [Replicas -> BOOLEAN]
        BY <1>0, <1>3 DEF RecordSuccess
    <2>3. /\ Sound(AfterRecordSuccess(breaker[r]))
          /\ AfterRecordSuccess(breaker[r]).state # "HALF_OPEN"
        BY <1>0, <2>1, SuccessSound
    <2> HIDE DEF r
    <2> QED
        BY <2>1, <2>2, <2>3, BreakerStep
<1>4. ASSUME NEW c \in Callers, RecordFailure(c) PROVE ManagerInv'
    <2> DEFINE r == call[c].replica
    <2>1. /\ r \in Replicas
          /\ call' \in [Callers -> Calls]
          /\ \A s \in Replicas \ {r} :
                InFlight("probe", s) # {} => InFlight("probe", s)' # {}
        BY <1>4, RecordKeepsOthers DEF RecordFailure
    <2>2. /\ breaker' = [breaker EXCEPT ![r] = AfterRecordFailure(breaker[r])]
          /\ waited' \in [Replicas -> BOOLEAN]
        BY <1>0, <1>4 DEF RecordFailure
    <2>3. /\ Sound(AfterRecordFailure(breaker[r]))
          /\ AfterRecordFailure(breaker[r]).state # "HALF_OPEN"
        BY <1>0, <2>1, FailureSound
    <2> HIDE DEF r
    <2> QED
        BY <2>1, <2>2, <2>3, BreakerStep
<1>5. ASSUME NEW c \in Callers, ForgetHedged(c) PROVE ManagerInv'
    <2>1. /\ call' \in [Callers -> Calls]
          /\ \A s \in Replicas :
                InFlight("probe", s) # {} => InFlight("probe", s)' # {}
        <3>1. call' \in [Callers -> Calls]
            BY <1>0, <1>5 DEF ForgetHedged, Calls
        <3>2. ASSUME NEW s \in Replicas, InFlight("probe", s) # {}
              PROVE  InFlight("probe", s)' # {}
            <4>1. PICK p \in Callers : call[p] = [kind |-> "probe", replica |-> s]
                BY <3>2 DEF InFlight
            <4>2. p # c
                BY <1>5, <4>1 DEF ForgetHedged
            <4> QED
                BY <1>0, <1>5, <4>1, <4>2 DEF InFlight, ForgetHedged
        <3> QED
            BY <3>1, <3>2
    <2> QED
        BY <1>5, <2>1
        DEF ForgetHedged, ManagerInv, ManagerTypeOK, ProbeOwned, ClosedIsHealthy
<1>6. ASSUME NEW r \in Replicas, CooldownElapses(r) PROVE ManagerInv'
    <2>1. /\ Sound(AfterCooldown(breaker[r]))
          /\ AfterCooldown(breaker[r]).state # "HALF_OPEN"
        BY <1>0, <1>6, CooldownSound DEF CooldownElapses
    <2>2. /\ breaker' = [breaker EXCEPT ![r] = AfterCooldown(breaker[r])]
          /\ waited' \in [Replicas -> BOOLEAN]
          /\ call' = call
        BY <1>0, <1>6 DEF CooldownElapses
    <2>3. \A s \in Replicas : InFlight("probe", s)' = InFlight("probe", s)
        BY <2>2 DEF InFlight
    <2> QED
        BY <1>0, <2>1, <2>2, <2>3, BreakerStep
<1>7. CASE UNCHANGED managerVars
    BY <1>7
    DEF managerVars, ManagerInv, ManagerTypeOK, ProbeOwned, ClosedIsHealthy, InFlight
<1> QED
    BY <1>1, <1>2, <1>3, <1>4, <1>5, <1>6, <1>7 DEF ManagerNext

\* ManagerInv is an invariant.
LEMMA ManagerInvariant == ManagerSafety => []ManagerInv
BY ManagerInvInit, ManagerInvStep, PTL DEF ManagerSafety

\* Type correctness: windows are never longer than window_size.
THEOREM ManagerTypeCorrect == ManagerSpec => []ManagerTypeOK
<1>1. ManagerInv => ManagerTypeOK
    BY DEF ManagerInv
<1> QED
    BY <1>1, ManagerInvariant, PTL DEF ManagerSpec

\* No breaker is ever half-open without a probe in flight that will record an
\* outcome.
THEOREM ProbesAreOwned == ManagerSpec => []ProbeOwned
<1>1. ManagerInv => ProbeOwned
    BY DEF ManagerInv
<1> QED
    BY <1>1, ManagerInvariant, PTL DEF ManagerSpec

\* A closed breaker never has a full window above the threshold.
THEOREM ClosedMeansHealthy == ManagerSpec => []ClosedIsHealthy
<1>1. ManagerInv => ClosedIsHealthy
    BY DEF ManagerInv
<1> QED
    BY <1>1, ManagerInvariant, PTL DEF ManagerSpec

\* Late successes never close an open circuit.
THEOREM OpenClosesOnlyThroughProbe == ManagerSpec => OnlyHalfOpenCloses
<1>1. ASSUME ManagerInv, [ManagerNext]_managerVars, NEW r \in Replicas,
             breaker[r].state = "OPEN"
      PROVE  breaker'[r].state # "CLOSED"
    <2>0. /\ breaker = [s \in Replicas |-> breaker[s]]
          /\ \A s \in Replicas : Sound(breaker[s])
        BY <1>1, InvIsSound
    <2>1. ASSUME NEW c \in Callers, NEW s \in Replicas, AllowRequest(c, s)
          PROVE  breaker'[r].state # "CLOSED"
        <3>1. breaker[s].state # "CLOSED" => AfterAllowRequest(breaker[s]).state = "HALF_OPEN"
            BY <2>0, <2>1, AllowSound DEF AllowRequest
        <3>2. breaker'[r] = IF r = s THEN AfterAllowRequest(breaker[s]) ELSE breaker[r]
            BY <2>0, <2>1 DEF AllowRequest
        <3> QED
            BY <1>1, <3>1, <3>2
    <2>2. ASSUME NEW c \in Callers, RecordSuccess(c)
          PROVE  breaker'[r].state # "CLOSED"
        <3>1. breaker'[r] = breaker[r] \/ breaker'[r] = AfterRecordSuccess(breaker[r])
            BY <2>0, <2>2 DEF RecordSuccess
        <3> QED
            BY <1>1, <2>0, <3>1, SuccessSound
    <2>3. ASSUME NEW c \in Callers, RecordFailure(c)
          PROVE  breaker'[r].state # "CLOSED"
        <3>1. breaker'[r] = breaker[r] \/ breaker'[r] = AfterRecordFailure(breaker[r])
            BY <2>0, <2>3 DEF RecordFailure
        <3> QED
            BY <1>1, <2>0, <3>1, FailureSound
    <2>4. ASSUME NEW s \in Replicas, CooldownElapses(s)
          PROVE  breaker'[r].state # "CLOSED"
        <3>1. breaker'[r] = breaker[r] \/ breaker'[r] = AfterCooldown(breaker[r])
            BY <2>0, <2>4 DEF CooldownElapses
        <3> QED
            BY <1>1, <2>0, <3>1, CooldownSound
    <2> QED
        BY <1>1, <2>1, <2>2, <2>3, <2>4
        DEF ManagerNext, DispatchHedged, ForgetHedged, managerVars
<1>2. ManagerInv /\ [ManagerNext]_managerVars
        => [\A r \in Replicas :
              breaker[r].state = "OPEN" => breaker'[r].state # "CLOSED"]_managerVars
    BY <1>1
<1> QED
    BY <1>2, ManagerInvariant, PTL DEF ManagerSpec, ManagerSafety, OnlyHalfOpenCloses
\* The history variable is set while a rested breaker waits for its probe.
RestIsWaited == \A r \in Replicas : Rested(breaker[r]) => waited[r]

\* Only the passing of a cooldown rests a breaker, and only a probe, which
\* leaves it half-open, takes the history back.
LEMMA RestIsWaitedStep ==
    ManagerInv /\ RestIsWaited /\ [ManagerNext]_managerVars => RestIsWaited'
<1> SUFFICES ASSUME ManagerInv, RestIsWaited, [ManagerNext]_managerVars,
                    NEW r \in Replicas, Rested(breaker'[r])
             PROVE  waited'[r]
    BY DEF RestIsWaited
<1>0. /\ breaker = [s \in Replicas |-> breaker[s]]
      /\ \A s \in Replicas : Sound(breaker[s])
      /\ call \in [Callers -> Calls]
      /\ waited \in [Replicas -> BOOLEAN]
    BY InvIsSound
<1>1. ASSUME NEW c \in Callers, NEW s \in Replicas, AllowRequest(c, s)
      PROVE  waited'[r]
    <2>1. CASE r = s
        <3>1. breaker'[r] = AfterAllowRequest(breaker[r])
            BY <1>0, <1>1, <2>1 DEF AllowRequest
        <3>2. breaker[r].state = "CLOSED" /\ AfterAllowRequest(breaker[r]) = breaker[r]
            BY <1>0, <1>1, <2>1, <3>1, AllowSound DEF AllowRequest, Rested
        <3> QED
            BY <3>1, <3>2 DEF Rested
    <2>2. CASE r # s
        <3>1. breaker'[r] = breaker[r]
            BY <1>0, <1>1, <2>2 DEF AllowRequest
        <3>2. waited'[r] = waited[r]
            BY <1>0, <1>1, <2>2 DEF AllowRequest
        <3> QED
            BY <3>1, <3>2 DEF RestIsWaited
    <2> QED
        BY <2>1, <2>2
<1>2. ASSUME NEW c \in Callers, RecordSuccess(c)
      PROVE  waited'[r]
    <2>1. breaker'[r] = breaker[r] \/ breaker'[r] = AfterRecordSuccess(breaker[r])
        BY <1>0, <1>2 DEF RecordSuccess
    <2>2. Rested(breaker[r])
        BY <1>0, <2>1, RecordKeepsRest
    <2> QED
        BY <1>2, <2>2 DEF RecordSuccess, RestIsWaited
<1>3. ASSUME NEW c \in Callers, RecordFailure(c)
      PROVE  waited'[r]
    <2>1. breaker'[r] = breaker[r] \/ breaker'[r] = AfterRecordFailure(breaker[r])
        BY <1>0, <1>3 DEF RecordFailure
    <2>2. Rested(breaker[r])
        BY <1>0, <2>1, RecordKeepsRest
    <2> QED
        BY <1>3, <2>2 DEF RecordFailure, RestIsWaited
<1>4. ASSUME NEW s \in Replicas, CooldownElapses(s)
      PROVE  waited'[r]
    <2>1. CASE r = s
        BY <1>0, <1>4, <2>1 DEF CooldownElapses
    <2>2. CASE r # s
        <3>1. breaker'[r] = breaker[r] /\ waited'[r] = waited[r]
            BY <1>0, <1>4, <2>2 DEF CooldownElapses
        <3> QED
            BY <3>1 DEF RestIsWaited
    <2> QED
        BY <2>1, <2>2
<1>5. CASE UNCHANGED <<breaker, waited>>
    BY <1>5 DEF RestIsWaited
<1> QED
    BY <1>1, <1>2, <1>3, <1>4, <1>5
    DEF ManagerNext, DispatchHedged, ForgetHedged, managerVars

LEMMA RestIsWaitedAlways == ManagerSafety => [](ManagerInv /\ RestIsWaited)
<1>1. ManagerInit => RestIsWaited
    BY DEF ManagerInit, NewBreaker, RestIsWaited, Rested
<1> QED
    BY <1>1, RestIsWaitedStep, ManagerInvariant, PTL DEF ManagerSafety

\* The same without fairness, for those that compose the manager with their own
\* steps.
LEMMA SafetyProbesOnce == ManagerSafety => ProbePerCooldown
<1>1. ASSUME ManagerInv, RestIsWaited, NEW r \in Replicas, NEW c \in Callers,
             AllowRequest(c, r), breaker[r].state # "CLOSED"
      PROVE  waited[r]
    <2>1. Sound(breaker[r]) /\ Allows(breaker[r])
        BY <1>1, InvIsSound DEF AllowRequest
    <2>2. Rested(breaker[r])
        BY <1>1, <2>1 DEF Allows, Rested, Sound
    <2> QED
        BY <1>1, <2>2 DEF RestIsWaited
<1>2. ManagerInv /\ RestIsWaited
        => [\A r \in Replicas :
              (\E c \in Callers : AllowRequest(c, r)) /\ breaker[r].state # "CLOSED"
                 => waited[r]]_managerVars
    BY <1>1
<1> QED
    BY <1>2, RestIsWaitedAlways, PTL DEF ProbePerCooldown

\* At most one probe per cooldown: between two requests that a breaker admits
\* while its circuit is not closed, a whole cooldown passes.
THEOREM OneProbePerCooldown == ManagerSpec => ProbePerCooldown
BY SafetyProbesOnce, PTL DEF ManagerSpec
=============================================================================
