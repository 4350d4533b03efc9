------------------------ MODULE CircuitBreakerProofs ------------------------
(***************************************************************************)
(* What each method of CircuitBreaker keeps of one breaker, for every      *)
(* window size and threshold: the lemmas that BreakerManagerProofs and     *)
(* GatewayProofs rest on.                                                  *)
(***************************************************************************)
EXTENDS CircuitBreaker, SequenceTheorems, FiniteSetTheorems, TLAPS

\* A breaker with a window no longer than window_size.
GoodBreaker(b) == b \in Breaker /\ Len(b.outcomes) <= window_size

\* Appending an outcome and trimming keeps the window a window.
LEMMA SlideWindow ==
    ASSUME NEW w \in Seq(BOOLEAN), Len(w) <= window_size, NEW ok \in BOOLEAN
    PROVE  Slide(w, ok) \in Seq(BOOLEAN) /\ Len(Slide(w, ok)) <= window_size
<1> DEFINE longer == Append(w, ok)
<1>1. /\ longer \in Seq(BOOLEAN)
      /\ longer # <<>>
      /\ Len(longer) = Len(w) + 1
    BY AppendProperties
<1>2. /\ Tail(longer) \in Seq(BOOLEAN)
      /\ Len(Tail(longer)) = Len(longer) - 1
    BY <1>1, HeadTailProperties
<1>3. Len(w) \in Nat /\ window_size \in Nat
    BY LenProperties, BreakerAssumption DEF BreakerAssumption
<1>4. Slide(w, ok) = IF Len(longer) > window_size THEN Tail(longer) ELSE longer
    BY DEF Slide
<1> HIDE DEF longer
<1>5. CASE Len(longer) > window_size
    <2>1. Slide(w, ok) = Tail(longer)
        BY <1>4, <1>5
    <2>2. Len(Tail(longer)) <= window_size
        <3>1. Len(longer) - 1 <= window_size
            BY <1>1, <1>3
        <3> QED
            BY <1>2, <3>1
    <2> QED
        BY <1>2, <2>1, <2>2
<1>6. CASE ~(Len(longer) > window_size)
    <2>1. Slide(w, ok) = longer
        BY <1>4, <1>6
    <2>2. Len(longer) <= window_size
        BY <1>1, <1>3, <1>6
    <2> QED
        BY <1>1, <2>1, <2>2
<1> QED
    BY <1>5, <1>6

\* Recording an outcome changes nothing but the window.
LEMMA RecordedGood ==
    ASSUME NEW b, GoodBreaker(b), NEW ok \in BOOLEAN
    PROVE  /\ GoodBreaker(Recorded(b, ok))
           /\ Recorded(b, ok).state = b.state
           /\ Recorded(b, ok).probe_in_flight = b.probe_in_flight
<1>1. b \in Breaker /\ b.outcomes \in Seq(BOOLEAN) /\ Len(b.outcomes) <= window_size
    BY DEF GoodBreaker, Breaker
<1>2. /\ Slide(b.outcomes, ok) \in Seq(BOOLEAN)
      /\ Len(Slide(b.outcomes, ok)) <= window_size
    BY <1>1, SlideWindow
<1> QED
    BY <1>1, <1>2 DEF GoodBreaker, Recorded, Breaker

\* EvaluateState() opens a closed breaker or changes nothing; after it a closed
\* breaker is healthy.
LEMMA EvaluateStateGood ==
    ASSUME NEW b, GoodBreaker(b)
    PROVE  LET e == EvaluateState(b)
           IN  /\ GoodBreaker(e)
               /\ e.probe_in_flight = b.probe_in_flight
               /\ e.state = "CLOSED" => ~Failing(e.outcomes)
               /\ e.state = "HALF_OPEN" => b.state = "HALF_OPEN"
               /\ b.state = "HALF_OPEN" => e.state = "HALF_OPEN"
               /\ b.state = "OPEN" => e.state = "OPEN"
BY DEF GoodBreaker, EvaluateState, Open, Breaker, BreakerState

\* What every call of a breaker's methods guarantees of the breaker after it.
Sound(b) ==
    /\ GoodBreaker(b)
    /\ b.probe_in_flight <=> b.state = "HALF_OPEN"
    /\ b.state = "CLOSED" => ~Failing(b.outcomes)

\* A success ends HALF_OPEN, and only from HALF_OPEN does it close a circuit.
LEMMA SuccessSound ==
    ASSUME NEW b, Sound(b)
    PROVE  /\ Sound(AfterRecordSuccess(b))
           /\ AfterRecordSuccess(b).state # "HALF_OPEN"
           /\ b.state = "OPEN" => AfterRecordSuccess(b).state = "OPEN"
<1>1. CASE b.state = "HALF_OPEN"
    <2> DEFINE d == [b EXCEPT !.state = "CLOSED", !.probe_in_flight = FALSE,
                              !.outcomes = <<>>]
    <2>1. /\ GoodBreaker(d)
          /\ d.state = "CLOSED"
          /\ d.probe_in_flight = FALSE
        <3>1. /\ <<>> \in Seq(BOOLEAN)
              /\ Len(<<>>) <= window_size
            BY BreakerAssumption DEF BreakerAssumption
        <3>2. b \in Breaker
            BY DEF Sound, GoodBreaker
        <3>3. d \in Breaker /\ d.outcomes = <<>>
            BY <3>1, <3>2 DEF Breaker, BreakerState
        <3>4. d.state = "CLOSED" /\ d.probe_in_flight = FALSE
            BY <3>2 DEF Breaker
        <3> QED
            BY <3>1, <3>3, <3>4 DEF GoodBreaker
    <2>2. AfterRecordSuccess(b) = EvaluateState(d)
        BY <1>1 DEF AfterRecordSuccess
    <2> HIDE DEF d
    <2> QED
        BY <1>1, <2>1, <2>2, EvaluateStateGood DEF Sound
<1>2. CASE b.state # "HALF_OPEN"
    <2>1. AfterRecordSuccess(b) = EvaluateState(Recorded(b, TRUE))
        BY <1>2 DEF AfterRecordSuccess
    <2>2. /\ GoodBreaker(Recorded(b, TRUE))
          /\ Recorded(b, TRUE).state = b.state
          /\ Recorded(b, TRUE).probe_in_flight = b.probe_in_flight
        BY RecordedGood DEF Sound
    <2>3. b.probe_in_flight = FALSE
        BY <1>2 DEF Sound, GoodBreaker, Breaker
    <2> DEFINE e == EvaluateState(Recorded(b, TRUE))
    <2>4. /\ GoodBreaker(e)
          /\ e.probe_in_flight = FALSE
          /\ e.state = "CLOSED" => ~Failing(e.outcomes)
          /\ e.state # "HALF_OPEN"
          /\ b.state = "OPEN" => e.state = "OPEN"
        BY <1>2, <2>2, <2>3, EvaluateStateGood
    <2> HIDE DEF e
    <2>5. Sound(e)
        BY <2>4 DEF Sound
    <2> QED
        BY <2>1, <2>4, <2>5 DEF e
<1> QED
    BY <1>1, <1>2

\* A failure ends HALF_OPEN and closes no circuit.
LEMMA FailureSound ==
    ASSUME NEW b, Sound(b)
    PROVE  /\ Sound(AfterRecordFailure(b))
           /\ AfterRecordFailure(b).state # "HALF_OPEN"
           /\ b.state = "OPEN" => AfterRecordFailure(b).state = "OPEN"
<1>1. /\ GoodBreaker(Recorded(b, FALSE))
      /\ Recorded(b, FALSE).state = b.state
      /\ Recorded(b, FALSE).probe_in_flight = b.probe_in_flight
    BY RecordedGood DEF Sound
<1>2. CASE b.state = "HALF_OPEN"
    BY <1>1, <1>2
    DEF AfterRecordFailure, Open, Sound, GoodBreaker, Breaker, BreakerState
<1>3. CASE b.state # "HALF_OPEN"
    <2>1. AfterRecordFailure(b) = EvaluateState(Recorded(b, FALSE))
        BY <1>3 DEF AfterRecordFailure
    <2>2. b.probe_in_flight = FALSE
        BY <1>3 DEF Sound, GoodBreaker, Breaker
    <2> DEFINE e == EvaluateState(Recorded(b, FALSE))
    <2>3. /\ GoodBreaker(e)
          /\ e.probe_in_flight = FALSE
          /\ e.state = "CLOSED" => ~Failing(e.outcomes)
          /\ e.state # "HALF_OPEN"
          /\ b.state = "OPEN" => e.state = "OPEN"
        BY <1>1, <1>3, <2>2, EvaluateStateGood
    <2> HIDE DEF e
    <2>4. Sound(e)
        BY <2>3 DEF Sound
    <2> QED
        BY <2>1, <2>3, <2>4 DEF e
<1> QED
    BY <1>2, <1>3

\* An admitted request leaves the breaker closed or makes itself the probe.
LEMMA AllowSound ==
    ASSUME NEW b, Sound(b), Allows(b)
    PROVE  /\ Sound(AfterAllowRequest(b))
           /\ b.state = "CLOSED" => AfterAllowRequest(b) = b
           /\ b.state # "CLOSED" => AfterAllowRequest(b).state = "HALF_OPEN"
           /\ b.state # "HALF_OPEN"
BY DEF Sound, GoodBreaker, Breaker, BreakerState, Allows, AfterAllowRequest

\* The clock changes no state.
LEMMA CooldownSound ==
    ASSUME NEW b, Sound(b)
    PROVE  Sound(AfterCooldown(b)) /\ AfterCooldown(b).state = b.state
BY DEF Sound, GoodBreaker, Breaker, AfterCooldown

\* A breaker starts closed with an empty window.
LEMMA NewBreakerSound == Sound(NewBreaker) /\ NewBreaker.state = "CLOSED"
<1>1. Failures(<<>>) = 0
    BY FS_EmptySet DEF Failures
<1> QED
    BY <1>1, BreakerAssumption
    DEF Sound, GoodBreaker, NewBreaker, Breaker, BreakerState, Failing, BreakerAssumption
\* An open circuit whose cooldown has passed: the next request is a probe.
Rested(b) == b.state = "OPEN" /\ b.cooled

\* A recorded outcome rests no breaker and unrests none: an opening starts a
\* cooldown of its own, and an open breaker keeps the one it has.
LEMMA RecordKeepsRest ==
    ASSUME NEW b, Sound(b)
    PROVE  /\ Rested(AfterRecordSuccess(b)) <=> Rested(b)
           /\ Rested(AfterRecordFailure(b)) <=> Rested(b)
<1>1. ASSUME NEW ok \in BOOLEAN
      PROVE  Rested(EvaluateState(Recorded(b, ok))) <=> Rested(b)
    <2>1. /\ Recorded(b, ok) \in Breaker
          /\ Recorded(b, ok).state = b.state
          /\ Recorded(b, ok).cooled = b.cooled
        <3>1. GoodBreaker(Recorded(b, ok)) /\ Recorded(b, ok).state = b.state
            BY RecordedGood DEF Sound
        <3> QED
            BY <3>1 DEF GoodBreaker, Recorded, Sound, Breaker
    <2> DEFINE d == Recorded(b, ok)
    <2>2. /\ Open(d).state = "OPEN"
          /\ Open(d).cooled = FALSE
        BY <2>1 DEF Open, Breaker
    <2> HIDE DEF d
    <2> QED
        BY <2>1, <2>2 DEF EvaluateState, Rested, d
<1>2. Rested(AfterRecordSuccess(b)) <=> Rested(b)
    <2>1. CASE b.state = "HALF_OPEN"
        <3> DEFINE d == [b EXCEPT !.state = "CLOSED", !.probe_in_flight = FALSE,
                                  !.outcomes = <<>>]
        <3>1. d.state = "CLOSED" /\ d \in Breaker
            <4>1. <<>> \in Seq(BOOLEAN)
                OBVIOUS
            <4>2. b \in Breaker
                BY DEF Sound, GoodBreaker
            <4> QED
                BY <4>1, <4>2 DEF Breaker, BreakerState
        <3>2. ~Rested(EvaluateState(d))
            <4> HIDE DEF d
            <4>1. Open(d).cooled = FALSE
                BY <3>1 DEF Open, Breaker
            <4> QED
                BY <3>1, <4>1 DEF EvaluateState, Rested
        <3>3. AfterRecordSuccess(b) = EvaluateState(d)
            BY <2>1 DEF AfterRecordSuccess
        <3> QED
            BY <2>1, <3>2, <3>3 DEF Rested
    <2>2. CASE b.state # "HALF_OPEN"
        BY <1>1, <2>2 DEF AfterRecordSuccess
    <2> QED
        BY <2>1, <2>2
<1>3. Rested(AfterRecordFailure(b)) <=> Rested(b)
    <2>1. CASE b.state = "HALF_OPEN"
        <3>1. Recorded(b, FALSE) \in Breaker
            BY RecordedGood DEF Sound, GoodBreaker
        <3> QED
            BY <2>1, <3>1 DEF AfterRecordFailure, Open, Rested, Breaker
    <2>2. CASE b.state # "HALF_OPEN"
        BY <1>1, <2>2 DEF AfterRecordFailure
    <2> QED
        BY <2>1, <2>2
<1> QED
    BY <1>2, <1>3

\* Whoever is admitted takes the cooldown with it.
LEMMA AllowUnrests ==
    ASSUME NEW b, Sound(b), Allows(b)
    PROVE  ~Rested(AfterAllowRequest(b))
BY DEF Sound, GoodBreaker, Breaker, Allows, AfterAllowRequest, Rested
=============================================================================
