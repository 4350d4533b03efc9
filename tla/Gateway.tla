------------------------------ MODULE Gateway -------------------------------
(***************************************************************************)
(* GatewayServer::Infer and StreamFromReplica (gateway/gateway_server.cpp) *)
(* run by one thread per client request, over the state the threads share: *)
(* the registry's routability and active counters, the circuit breakers    *)
(* and the backpressure queue.  A step is one access to shared state, or   *)
(* one token of a stream; a thread may be preempted between any two.       *)
(*                                                                         *)
(* LoadBalancer::SelectReplica is taken as a whole: it returns some        *)
(* routable replica with a free slot that is not excluded, and none if     *)
(* there is none.  Gossip and the rolling updater appear as replicas that  *)
(* become routable and cease to be, at any moment.  Requests that ask for  *)
(* hedging are not part of this module.                                    *)
(***************************************************************************)
EXTENDS CircuitBreaker

CONSTANTS Requests,      \* client requests, each with a thread of its own
          Replicas,      \* replica ids
          max_tokens,    \* max_tokens[q]: the tokens request q asks for
          max_capacity,  \* max_capacity[r]: slots of replica r, 0 = no limit
          max_retries,   \* Infer's max_retries
          max_size,      \* the queue's max_size_
          Impatient,     \* bound: the requests whose client may cancel
          Volatile       \* bound: the replicas that may leave and re-enter routing

ASSUME GatewayAssumption ==
    /\ IsFiniteSet(Requests)
    /\ max_tokens \in [Requests -> Nat]
    /\ max_capacity \in [Replicas -> Nat]
    /\ max_retries \in Nat
    /\ max_size \in Nat

VARIABLES
    pc,           \* where each request's thread is in Infer
    local,        \* its local variables
    cancelled,    \* context->IsCancelled()
    status,       \* what Infer returned
    delivered,    \* history: the tokens written to the client, by index
    alive,        \* registry: replicas neither DEAD nor draining
    active,       \* registry: active_requests
    breaker,      \* circuit breakers
    waiting_count, next_ticket, serving_ticket, qpc, ticket, granted

\* No request calls the queue more often than this: it waits once an attempt at
\* most, and notifies once an attempt or, in module Hedge, twice in a race.
Queue == INSTANCE RequestQueue WITH
            Threads   <- Requests,
            MaxCalls  <- Cardinality(Requests) * max_retries,
            MaxNotify <- Cardinality(Requests) * (max_retries + 2)

queue == <<waiting_count, next_ticket, serving_ticket, qpc, ticket, granted>>
client == <<cancelled, status, delivered>>
registry == <<alive, active>>
vars == <<pc, local, client, registry, breaker, queue>>

NoReplica == "none"

\* tokens_sent counts the streams that ended without an error; streamed is what
\* StreamFromReplica has forwarded in this attempt, and -1 after an error;
\* Histories: probe, this attempt was admitted by a breaker that was not closed;
\* tried, the replicas of the attempts before it.
AtLoop(n, sent, skip, before) ==
    [attempt |-> n, tokens_sent |-> sent, excluded |-> skip, tried |-> before,
     selection |-> NoReplica, streamed |-> 0, probe |-> FALSE]

Fresh == AtLoop(0, 0, {}, {})

Init ==
    /\ pc = [q \in Requests |-> "loop"]
    /\ local = [q \in Requests |-> Fresh]
    /\ cancelled = [q \in Requests |-> FALSE]
    /\ status = [q \in Requests |-> "none"]
    /\ delivered = [q \in Requests |-> <<>>]
    /\ alive = Replicas
    /\ active = [r \in Replicas |-> 0]
    /\ breaker = [r \in Replicas |-> NewBreaker]
    /\ Queue!QueueInit

-----------------------------------------------------------------------------
(* Pieces of Infer                                                         *)

GoTo(q, place) == pc' = [pc EXCEPT ![q] = place]

Return(q, code) ==
    /\ GoTo(q, "done")
    /\ local' = [local EXCEPT ![q] = Fresh]
    /\ status' = [status EXCEPT ![q] = code]

\* continue: the next iteration of the for loop, with what survives this one.
NextAttempt(q, sent, skip) ==
    /\ GoTo(q, "loop")
    /\ local' = [local EXCEPT ![q] =
                    AtLoop(local[q].attempt + 1, sent, local[q].excluded \cup skip,
                           local[q].tried \cup ({local[q].selection} \ {NoReplica}))]

AllSent(q) == local[q].tokens_sent >= max_tokens[q]

\* Mutant of LoopEnds: one attempt too many.
LoopEndsLate(q) == local[q].attempt > max_retries \/ AllSent(q)

LoopEnds(q) == local[q].attempt >= max_retries \/ AllSent(q)

HasSlot(r) == max_capacity[r] = 0 \/ active[r] < max_capacity[r]

Selectable(q) == {r \in alive \ local[q].excluded : HasSlot(r)}

\* SelectReplica found a replica; the thread goes on to the circuit breaker.
SelectOne(q) ==
    /\ \E r \in Selectable(q) : local' = [local EXCEPT ![q].selection = r]
    /\ GoTo(q, "admit")

-----------------------------------------------------------------------------
(* The loop                                                                *)

ReturnCancelled(q) ==
    /\ pc[q] = "loop"
    /\ ~LoopEnds(q)
    /\ cancelled[q]
    /\ Return(q, "CANCELLED")
    /\ UNCHANGED <<cancelled, delivered, registry, breaker, queue>>

Select(q) ==
    /\ pc[q] = "loop"
    /\ ~LoopEnds(q)
    /\ ~cancelled[q]
    /\ \/ SelectOne(q)
       \/ Selectable(q) = {} /\ GoTo(q, "wait") /\ UNCHANGED local
    /\ UNCHANGED <<client, registry, breaker, queue>>

\* Inside queue_.WaitForCapacity().  A spurious wakeup, which RequestQueue has, would
\* only evaluate the predicate again and go back to sleep.
WaitInQueue(q) ==
    /\ pc[q] = "wait"
    /\ \/ Queue!WaitForCapacity(q)
       \/ Queue!Resume(q)
       \/ Queue!DeadlinePasses(q)
       \/ Queue!ReturnAtDeadline(q)
    /\ UNCHANGED <<pc, local, client, registry, breaker>>

LeaveQueue(q) ==
    /\ pc[q] = "wait"
    /\ \/ qpc[q] = "served" /\ GoTo(q, "reselect") /\ UNCHANGED <<local, status>>
       \/ qpc[q] \in {"unserved", "rejected"} /\ Return(q, "RESOURCE_EXHAUSTED")
    /\ Queue!TakeResult(q)
    /\ UNCHANGED <<cancelled, delivered, registry, breaker>>

Reselect(q) ==
    /\ pc[q] = "reselect"
    /\ \/ SelectOne(q)
       \/ Selectable(q) = {} /\ NextAttempt(q, local[q].tokens_sent, {})
    /\ UNCHANGED <<client, registry, breaker, queue>>

\* Mutant of Admit: an open circuit sends the thread back to select again, as if
\* that attempt had not been one, without excluding the replica.
AdmitOrAskAgain(q) ==
    LET r == local[q].selection IN
    /\ pc[q] = "admit"
    /\ \/ /\ Allows(breaker[r])
          /\ breaker' = [breaker EXCEPT ![r] = AfterAllowRequest(@)]
          /\ local' = [local EXCEPT ![q].probe = breaker[r].state # "CLOSED"]
          /\ GoTo(q, "dispatch")
       \/ /\ ~Allows(breaker[r])
          /\ local' = [local EXCEPT ![q].selection = NoReplica]
          /\ GoTo(q, "loop")
          /\ UNCHANGED breaker
    /\ UNCHANGED <<client, registry, queue>>

Admit(q) ==
    LET r == local[q].selection IN
    /\ pc[q] = "admit"
    /\ \/ /\ Allows(breaker[r])
          /\ breaker' = [breaker EXCEPT ![r] = AfterAllowRequest(@)]
          /\ local' = [local EXCEPT ![q].probe = breaker[r].state # "CLOSED"]
          /\ GoTo(q, "dispatch")
       \/ /\ ~Allows(breaker[r])
          /\ NextAttempt(q, local[q].tokens_sent, {r})
          /\ UNCHANGED breaker
    /\ UNCHANGED <<client, registry, queue>>

\* IncrementActive, and StreamFromReplica starts.
Dispatch(q) ==
    /\ pc[q] = "dispatch"
    /\ active' = [active EXCEPT ![local[q].selection] = @ + 1]
    /\ GoTo(q, "stream")
    /\ UNCHANGED <<local, client, alive, breaker, queue>>

-----------------------------------------------------------------------------
(* StreamFromReplica: the replica generates tokens tokens_sent .. max - 1  *)

NextToken(q) == local[q].tokens_sent + local[q].streamed

ForwardToken(q) ==
    /\ pc[q] = "stream"
    /\ ~cancelled[q]
    /\ NextToken(q) < max_tokens[q]
    /\ delivered' = [delivered EXCEPT ![q] = Append(@, NextToken(q))]
    /\ local' = [local EXCEPT ![q].streamed = @ + 1]
    /\ UNCHANGED <<pc, cancelled, status, registry, breaker, queue>>

\* The stream ends with status OK, when it is complete or before; or its next token
\* finds the client gone.
StreamEnds(q) ==
    /\ pc[q] = "stream"
    /\ GoTo(q, "release")
    /\ UNCHANGED <<local, client, registry, breaker, queue>>

\* The replica rejects the request, reports an error or dies.
StreamFails(q) ==
    /\ pc[q] = "stream"
    /\ local' = [local EXCEPT ![q].streamed = -1]
    /\ GoTo(q, "release")
    /\ UNCHANGED <<client, registry, breaker, queue>>

-----------------------------------------------------------------------------
(* After the stream                                                        *)

\* Mutant of Release: the failure path leaves the loop body before it.
ReleaseUnlessFailed(q) ==
    /\ pc[q] = "release"
    /\ \/ local[q].streamed < 0 /\ UNCHANGED active
       \/ local[q].streamed >= 0 /\ active' = [active EXCEPT ![local[q].selection] = @ - 1]
    /\ GoTo(q, "notify")
    /\ UNCHANGED <<local, client, alive, breaker, queue>>

\* DecrementActive.
Release(q) ==
    /\ pc[q] = "release"
    /\ active' = [active EXCEPT ![local[q].selection] = @ - 1]
    /\ GoTo(q, "notify")
    /\ UNCHANGED <<local, client, alive, breaker, queue>>

Notify(q) ==
    /\ pc[q] = "notify"
    /\ \/ Queue!NotifyServe(q) /\ UNCHANGED pc
       \/ Queue!NotifyAll(q) /\ GoTo(q, "record")
    /\ UNCHANGED <<local, client, registry, breaker>>

\* Mutant of RecordFailedStream: the replica that failed is not excluded.
RecordAndForget(q) ==
    LET r == local[q].selection IN
    /\ pc[q] = "record"
    /\ local[q].streamed < 0
    /\ breaker' = [breaker EXCEPT ![r] = AfterRecordFailure(@)]
    /\ NextAttempt(q, local[q].tokens_sent, {})
    /\ UNCHANGED <<client, registry, queue>>

RecordFailedStream(q) ==
    LET r == local[q].selection IN
    /\ pc[q] = "record"
    /\ local[q].streamed < 0
    /\ breaker' = [breaker EXCEPT ![r] = AfterRecordFailure(@)]
    /\ NextAttempt(q, local[q].tokens_sent, {r})
    /\ UNCHANGED <<client, registry, queue>>

\* Mutant of RecordEndedStream: a cancelled request returns without an outcome.
RecordUnlessCancelled(q) ==
    LET r == local[q].selection
        sent == NextToken(q) IN
    /\ pc[q] = "record"
    /\ local[q].streamed >= 0
    /\ \/ cancelled[q] /\ Return(q, "CANCELLED") /\ UNCHANGED breaker
       \/ /\ ~cancelled[q]
          /\ breaker' = [breaker EXCEPT ![r] = AfterRecordSuccess(@)]
          /\ \/ sent >= max_tokens[q] /\ Return(q, "OK")
             \/ sent < max_tokens[q] /\ NextAttempt(q, sent, {r}) /\ UNCHANGED status
    /\ UNCHANGED <<cancelled, delivered, registry, queue>>

\* Mutant of RecordEndedStream: a stream that ends without an error is taken for
\* a complete one.
RecordAsComplete(q) ==
    /\ pc[q] = "record"
    /\ local[q].streamed >= 0
    /\ breaker' = [breaker EXCEPT ![local[q].selection] = AfterRecordSuccess(@)]
    /\ Return(q, "OK")
    /\ UNCHANGED <<cancelled, delivered, registry, queue>>

RecordEndedStream(q) ==
    LET r == local[q].selection
        sent == NextToken(q) IN
    /\ pc[q] = "record"
    /\ local[q].streamed >= 0
    /\ breaker' = [breaker EXCEPT ![r] = AfterRecordSuccess(@)]
    /\ \/ sent >= max_tokens[q] /\ Return(q, "OK")
       \/ sent < max_tokens[q] /\ NextAttempt(q, sent, {r}) /\ UNCHANGED status
    /\ UNCHANGED <<cancelled, delivered, registry, queue>>

ReturnAfterLoop(q) ==
    /\ pc[q] = "loop"
    /\ LoopEnds(q)
    /\ Return(q, IF AllSent(q) \/ local[q].tokens_sent > 0 THEN "OK" ELSE "UNAVAILABLE")
    /\ UNCHANGED <<cancelled, delivered, registry, breaker, queue>>

-----------------------------------------------------------------------------
(* The surroundings                                                        *)

ClientCancels(q) ==
    /\ q \in Impatient
    /\ pc[q] # "done"
    /\ ~cancelled[q]
    /\ cancelled' = [cancelled EXCEPT ![q] = TRUE]
    /\ UNCHANGED <<pc, local, status, delivered, registry, breaker, queue>>

\* Gossip or the rolling updater takes r out of routing, or puts it back.
RoutabilityChanges(r) ==
    /\ r \in Volatile
    /\ alive' = IF r \in alive THEN alive \ {r} ELSE alive \cup {r}
    /\ UNCHANGED <<pc, local, client, active, breaker, queue>>

CooldownElapses(r) ==
    /\ breaker[r].state = "OPEN"
    /\ ~breaker[r].cooled
    /\ breaker' = [breaker EXCEPT ![r] = AfterCooldown(@)]
    /\ UNCHANGED <<pc, local, client, registry, queue>>

-----------------------------------------------------------------------------
Infer(q) ==
    \/ ReturnCancelled(q) \/ Select(q) \/ WaitInQueue(q) \/ LeaveQueue(q)
    \/ Reselect(q) \/ Admit(q) \/ Dispatch(q)
    \/ ForwardToken(q) \/ StreamEnds(q) \/ StreamFails(q)
    \/ Release(q) \/ Notify(q) \/ RecordFailedStream(q) \/ RecordEndedStream(q)
    \/ ReturnAfterLoop(q)

AllReturned ==
    /\ \A q \in Requests : pc[q] = "done"
    /\ UNCHANGED vars

Next ==
    \/ \E q \in Requests : Infer(q) \/ ClientCancels(q)
    \/ \E r \in Replicas : RoutabilityChanges(r) \/ CooldownElapses(r)
    \/ AllReturned

\* Threads are scheduled, deadlines pass, and a replica's stream goes on, ends
\* or fails (gRPC reports a dead peer).
Fairness == \A q \in Requests : WF_vars(Infer(q))

Spec == Init /\ [][Next]_vars /\ Fairness

-----------------------------------------------------------------------------
(* Properties                                                              *)

Places == {"loop", "wait", "reselect", "admit", "dispatch", "stream",
           "release", "notify", "record", "done"}
Statuses == {"none", "OK", "CANCELLED", "RESOURCE_EXHAUSTED", "UNAVAILABLE"}

\* The thread has been admitted by the breaker of its selection and has not
\* recorded the outcome yet.
Held == {"dispatch", "stream", "release", "notify", "record"}
Holds(q) == pc[q] \in Held

\* The thread counts in active[selection].
Counted == {"stream", "release"}

Locals == [attempt : 0 .. max_retries, tokens_sent : Nat,
           excluded : SUBSET Replicas, tried : SUBSET Replicas,
           selection : Replicas \cup {NoReplica},
           streamed : Nat \cup {-1}, probe : BOOLEAN]

TypeOK ==
    /\ pc \in [Requests -> Places]
    /\ local \in [Requests -> Locals]
    /\ \A q \in Requests : pc[q] = "admit" \/ Holds(q) => local[q].selection \in Replicas
    /\ cancelled \in [Requests -> BOOLEAN]
    /\ status \in [Requests -> Statuses]
    /\ delivered \in [Requests -> Seq(Nat)]
    /\ alive \subseteq Replicas
    /\ active \in [Replicas -> Int]
    /\ breaker \in [Replicas -> Breaker]

OnReplica(r) == {q \in Requests : pc[q] \in Counted /\ local[q].selection = r}

\* The registry's counter, which all routing and admission is decided by, is
\* exactly the number of streams the gateway has open on the replica: no path
\* through Infer (failover, cancellation, error, success) leaks a slot or
\* frees one twice, however the threads interleave.
ActiveExact == \A r \in Replicas : active[r] = Cardinality(OnReplica(r))

\* Every path from AllowRequest() to the end of Infer records an outcome, so a
\* half-open breaker always has a request under way that will resolve it.
ProbeResolved ==
    \A r \in Replicas :
        breaker[r].state = "HALF_OPEN" =>
            \E q \in Requests : Holds(q) /\ local[q].probe /\ local[q].selection = r

\* A request never goes back to a replica that failed it, whose circuit was
\* open or that ended its stream early, also when it selects again after
\* having slept in the queue.
NeverRetried ==
    \A q \in Requests :
        Holds(q) \/ pc[q] = "admit" => local[q].selection \notin local[q].tried

\* Before each token that was written to the client, all earlier ones were.
NoneSkipped(q) ==
    \A i \in DOMAIN delivered[q] : \A n \in 0 .. delivered[q][i] - 1 :
        \E j \in 1 .. i - 1 : delivered[q][j] = n

Complete(q) ==
    \A n \in 0 .. max_tokens[q] - 1 : \E i \in DOMAIN delivered[q] : delivered[q][i] = n

ReturnsPrefix(q) ==
    status'[q] # status[q] =>
        /\ NoneSkipped(q)
        /\ status'[q] = "OK" =>
              \/ Complete(q)
              \/ local[q].attempt = max_retries /\ delivered[q] # <<>>

\* What a client has when Infer returns.  Streams may have failed, ended early or
\* been continued by others, and yet no token is missing before one it was sent, so
\* that it can tell a complete answer by is_final (gateway_server.cpp:61-64).  OK
\* stands for less than the complete answer only as a last resort: all attempts have
\* been used up, and something was delivered.
AnswerIsPrefix == [][\A q \in Requests : ReturnsPrefix(q)]_vars

\* The stream that a request has in flight, as BreakerManager knows it, and the
\* cooldowns that have passed since the last probe.
StreamOf(q) ==
    IF Holds(q) THEN [kind |-> IF local[q].probe THEN "probe" ELSE "normal",
                      replica |-> local[q].selection]
    ELSE [kind |-> "none"]

Cooled == [r \in Replicas |-> breaker[r].state = "OPEN" /\ breaker[r].cooled]

Breakers == INSTANCE BreakerManager WITH
                Callers <- Requests,
                call    <- [q \in Requests |-> StreamOf(q)],
                waited  <- Cooled

\* Infer keeps to the protocol under which BreakerManager's properties hold: on
\* every path it asks the breaker before a stream and records exactly one outcome
\* after it, for the replica it asked about (circuit_breaker.h:14-26).
KeepsBreakerProtocol == Breakers!ManagerSafety

\* The threads of Infer together use the queue as an admission gate: there are
\* never more than max_size of them in it, and each that goes on to select again
\* has a permit that no other thread used, whatever they were doing before.
KeepsGate == Queue!Gate!GateSpec

\* Every Infer returns, whatever the breakers, the queue and the other requests do and
\* however streams end: no thread waits for another forever.  Replicas that accept a
\* stream and never answer are excluded by the fairness.
EveryRequestReturns == \A q \in Requests : <>(pc[q] = "done")

\* gateway_server.h:34-37 says a failed stream is continued from where it left
\* off and the client sees a seamless token stream.
NoTokenTwice ==
    \A q \in Requests : \A i, j \in DOMAIN delivered[q] :
        i # j => delivered[q][i] # delivered[q][j]
=============================================================================
