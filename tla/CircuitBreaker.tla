--------------------------- MODULE CircuitBreaker ---------------------------
(***************************************************************************)
(* class CircuitBreaker of gateway/circuit_breaker.{h,cpp}: the methods as *)
(* functions on the state of one breaker.  Each method runs under the      *)
(* breaker's mutex, so a call is one step of whoever makes it.             *)
(*                                                                         *)
(* opened_at_ and the clock appear only in the question whether            *)
(* cooldown_ms have passed since the breaker opened; that is the field     *)
(* cooled, which opening resets and the passage of time sets.              *)
(***************************************************************************)
EXTENDS Integers, Sequences, FiniteSets

CONSTANTS window_size,     \* Config::window_size
          threshold_num,   \* Config::error_threshold, as the fraction
          threshold_den    \* threshold_num / threshold_den

ASSUME BreakerAssumption ==
    /\ window_size \in Nat
    /\ threshold_num \in Nat
    /\ threshold_den \in Nat \ {0}

BreakerState == {"CLOSED", "OPEN", "HALF_OPEN"}

Breaker == [state : BreakerState,
            outcomes : Seq(BOOLEAN),
            cooled : BOOLEAN,
            probe_in_flight : BOOLEAN]

NewBreaker == [state |-> "CLOSED", outcomes |-> <<>>,
               cooled |-> FALSE, probe_in_flight |-> FALSE]

Failures(window) == Cardinality({i \in DOMAIN window : ~window[i]})

\* A full window whose error rate exceeds the threshold.
Failing(window) ==
    /\ Len(window) >= window_size
    /\ threshold_den * Failures(window) > threshold_num * Len(window)

Slide(window, ok) ==
    LET longer == Append(window, ok)
    IN  IF Len(longer) > window_size THEN Tail(longer) ELSE longer

\* Mutant of Open: opened_at_ keeps the time of the first opening.
OpenSinceEver(b) == [b EXCEPT !.state = "OPEN"]

Open(b) == [b EXCEPT !.state = "OPEN", !.cooled = FALSE]

EvaluateState(b) ==
    IF b.state = "CLOSED" /\ Failing(b.outcomes) THEN Open(b) ELSE b

\* What AllowRequest() returns, and the breaker after the call.
Allows(b) ==
    \/ b.state = "CLOSED"
    \/ b.state = "OPEN" /\ b.cooled
    \/ b.state = "HALF_OPEN" /\ ~b.probe_in_flight

AfterAllowRequest(b) ==
    IF Allows(b) /\ b.state # "CLOSED"
    THEN [b EXCEPT !.state = "HALF_OPEN", !.probe_in_flight = TRUE]
    ELSE b

Recorded(b, ok) == [b EXCEPT !.outcomes = Slide(b.outcomes, ok)]

\* Mutants of AfterRecordSuccess: a success closes the breaker in any state; the
\* window survives the probe.
SuccessCloses(b) ==
    EvaluateState(IF b.state # "CLOSED"
                  THEN [b EXCEPT !.state = "CLOSED", !.probe_in_flight = FALSE,
                                 !.outcomes = <<>>]
                  ELSE Recorded(b, TRUE))

SuccessKeepsWindow(b) ==
    EvaluateState(IF b.state = "HALF_OPEN"
                  THEN [b EXCEPT !.state = "CLOSED", !.probe_in_flight = FALSE]
                  ELSE Recorded(b, TRUE))

AfterRecordSuccess(b) ==
    EvaluateState(IF b.state = "HALF_OPEN"
                  THEN [b EXCEPT !.state = "CLOSED", !.probe_in_flight = FALSE,
                                 !.outcomes = <<>>]
                  ELSE Recorded(b, TRUE))

\* Mutants of AfterRecordFailure: the probe flag survives the failed probe; the
\* state is evaluated before the failure is in the window.
FailureKeepsProbe(b) ==
    IF b.state = "HALF_OPEN"
    THEN Open(Recorded(b, FALSE))
    ELSE EvaluateState(Recorded(b, FALSE))

FailureUnseen(b) ==
    IF b.state = "HALF_OPEN"
    THEN [Open(Recorded(b, FALSE)) EXCEPT !.probe_in_flight = FALSE]
    ELSE Recorded(EvaluateState(b), FALSE)

AfterRecordFailure(b) ==
    IF b.state = "HALF_OPEN"
    THEN [Open(Recorded(b, FALSE)) EXCEPT !.probe_in_flight = FALSE]
    ELSE EvaluateState(Recorded(b, FALSE))

AfterCooldown(b) == [b EXCEPT !.cooled = TRUE]
=============================================================================
