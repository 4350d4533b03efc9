# TLA+ models of the LLM inference gateway

The repository is a gateway (`src/gateway`) that streams tokens from a cluster
of replicas (`src/replica`) to its clients, and a SWIM gossip layer
(`src/gossip`) through which gateway and replicas find each other. This
directory holds models of its concurrent parts, TLC configurations that check
them on small instances, and TLAPS proofs of what matters most.

    tlc -workers 2 -config MCGateway.cfg MCGateway      # model-check a run
    tlapm GatewayProofs.tla                             # check the proofs

PROJECT.json lists the runs, maps every definition to the lines it stands for,
and lists the hazards the properties are aimed at.

## Inventory

| Component | State | Operations | Hard because |
|---|---|---|---|
| `RequestQueue` | waiting count, next and serving ticket, sleepers | `WaitForCapacity`, `NotifyCapacityAvailable` | condition variable, timeouts racing notifications, notify outside the lock |
| `CircuitBreaker(Manager)` | per replica: state, outcome window, opening time, probe flag | `AllowRequest`, `RecordSuccess`, `RecordFailure` | outcomes of streams admitted in an earlier state arrive at any time |
| `GatewayServer` | per request: attempt, tokens sent, excluded replicas; per race: winner flag, promise, a result for each racer | `Infer`, `InferHedged`, `StreamFromReplica` | retries over shared counters, breaker and queue; failure in mid-stream; cancellation; two racer threads that win, lose, fail or come too late |
| `LoadBalancer` | hash ring | `SelectReplica`, `RebuildRing` | ring rebuilt from a snapshot taken before the lock; a walk and copies that read the registry bit by bit |
| `ReplicaRegistry` | per replica: gossip state, draining flag, active counter | `UpdateFromGossip`, `SetDraining`, `Increment/DecrementActive` | written by gossip threads and the updater, read by every request |
| `RollingUpdater` | progress of one update | `Update`, `DrainReplica`, `WaitForRejoin` | drain, stop and restart while clients call and gossip reports |
| gateway `main.cpp` | none | membership callback, start-up | callback not atomic, on two threads |
| `ReplicaServer` | `draining_`, `active_requests_` | `Generate`, `Drain`, `Kill`, `Stop` | handlers on a thread pool, check-then-count |
| `MembershipList` | members with state and incarnation, own incarnation, piggyback buffer | `ApplyUpdate`, `MarkSuspect`, `MarkDead`, `AddMember`, ... | rumours in any order |
| `SwimProtocol` | pending ACKs, sequence numbers; sender and receiver thread | probe rounds, suspicion, refutation, join | loss, delay, crash and restart, two threads sharing the list |
| `UdpTransport`, client, logging, replica `main.cpp` | sockets, none | I/O | not modelled beyond what the others see of them |

They interact so: a request thread asks the load balancer for a replica (which
reads the registry), waits in the queue if there is none, asks the breaker,
counts itself in the registry, streams, and then notifies the queue and records
the outcome. Gossip threads call back into the registry and rebuild the ring;
so does the rolling updater, which also calls the replicas.

## Modules

`X.tla` is a specification, `XProofs.tla` its theorems, `MCX.tla` the constants
of its TLC runs.

* **AdmissionGate** - what the queue promises: bounded admission, and a permit
  of its own for each caller let through.
* **RequestQueue** - one action per critical section or condition-variable call
  of `request_queue.cpp`; `qpc` is a thread's place in it. `Gate` is the
  refinement mapping to AdmissionGate (waiters inside, `serving_ticket` permits,
  one grant per ticket that returned true). `QueueSafety` is its specification
  without fairness, for those who share it.
* **CircuitBreaker** - the methods as functions on a breaker record. The clock is
  one bit, "the cooldown is over" (`cooled`).
* **BreakerManager** - any number of callers that ask, stream and record, `Infer`'s
  way or `InferHedged`'s. `ManagerSafety` is its specification without fairness.
* **Gateway** - `Infer` and `StreamFromReplica`, one thread per request, with
  CircuitBreaker (its operators) and RequestQueue (an INSTANCE that shares the
  threads). `pc` names the place in the loop: `loop`, `wait`, `reselect`, `admit`,
  `dispatch`, `stream`, `release`, `notify`, `record`, `done`. A step is one
  access to shared state or one token. `SelectReplica` is one step that returns any
  routable replica with a free slot that is not excluded: which one, and what the
  selection may miss while the registry moves, is the subject of LoadBalancer.
  `Breakers` maps it to BreakerManager (a request with a stream is a caller that
  streams) and `Queue!Gate` to AdmissionGate.
* **Hedge** - `InferHedged` on top of Gateway, whose variables and whose steps for
  streaming, releasing and notifying it uses. `race[q]` holds the locals of
  `InferHedged` and the two racer threads (`phase`): reading, read, won, ended. The
  exchange of `winner_set` is one step and `set_value` the next; the 10 s wait may
  end before, between or after them. Requests that do not hedge are Gateway's.
  `RaceBreakers` maps it to BreakerManager, with a caller for each racer (`CallOf`); a
  request on another path is the first of its two.
* **LoadBalancer** - `SelectReplica` step by step: the walk round the ring under
  `ring_mutex_`, which looks each candidate up in the registry at its own moment,
  and the second tier's copies, read one after the other, with their scores; then
  the caller's `IncrementActive`. `RebuildRing` is snapshot and swap. The hash is any
  function of a given set.
* **Beliefs** - what the membership promises of what its nodes think of each other:
  a mind changes by meeting somebody, by an accusation of one's own or by a newer
  rumour; what accuses a node it answers in a new incarnation. No probes, buffers or
  datagrams: rumours spread and are lost at will, but none comes from nowhere.
* **MembershipList** - the list's methods as functions on one node's list.
* **Swim** - nodes with sender and receiver threads, lists, pending ACKs and a
  network. A message is received and its updates applied one by one, each a step;
  sending is one step with the critical section before it. Waits may time out,
  and suspicions be overdue, at any moment, except under `Prompt`. A proxy waits for
  the ACK on the thread that would have to receive it, so that a relay never
  happens in the instances checked (run broken_path). `Mind` is the refinement mapping
  to Beliefs: lists are beliefs, and the rumours are the updates in all buffers, in
  all datagrams and in the messages at hand.
* **RollingUpdate** - the updater, the gateway's gossip callback, `RebuildRing` as
  snapshot and swap, the two tiers of selection, and `Generate`, `Drain` and the
  end of the replica processes. Gossip is an environment that may report anything.

## Runs

| Run | Instance | Shows |
|---|---|---|
| queue | 3 threads, 2 places, 4 tickets, 3 notifications | exact counting, refinement of the gate (so no permit is used twice), no sleeper passed over, no lost wakeup |
| breaker | 4 callers, 1 replica, window 3, threshold 1/2 | probes are owned, closed is healthy, one probe per cooldown, recovery |
| gateway | 2 requests, 2 replicas with one slot each (one of them volatile), 2 attempts, queue of 1; streams fail, end early or complete | counters, retries, no gap in any answer and OK for a part of one only as a last resort; `Infer` uses the breakers as BreakerManager says |
| hedge | a request that may hedge and a plain one, 2 replicas with one slot each (one of them volatile), 1 attempt for those that do not hedge or fall back | slots counted and told to the queue exactly, no grant without a slot, one winner, its tokens in order, every request returns |
| load_balancer | 2 callers, 1 rebuilding thread, 3 replicas (one without limit, one that comes and goes), 2 points each on 6 places, 2 hash functions | the walk is clockwise, complete, shrinks and ends; nothing open is overlooked; overbooking is a race; prompts stay where they are |
| swim | 2 nodes and a placeholder, 1 datagram under way, buffer 2, one restart | beliefs only go forward; no invented incarnations; buffer bound; refinement of Beliefs |
| swim_probe | 3 nodes, 2 datagrams, indirect probes, one restart | accusations answered, pending ACKs exact, ACKs not confused |
| rolling | 2 replicas, 2 calling threads, 1 gossip thread, crashes of one replica | one replica out at a time, no call to it, drains only shrink and end, success means all restarted |

Four runs find a claim of the documentation violated (`expect: violation`); the
claim is quoted at the property and in PROJECT.json.

* no_token_twice: a stream that fails after some tokens is replaced by one that
  sends them again, where gateway_server.h promises a seamless continuation.
* broken_path: a proxy waits for the ACK on the thread that would have to receive
  it, so no relay happens and a reachable member is suspected.
* hedge_hang: with a winner known, `InferHedged` still joins the other racer, and
  streams nothing while that one's replica is silent.
* drained_idle: a `Generate` between its draining check and its count is missed by
  `Drain`, which answers that the replica is idle; it is then stopped with that call
  in progress.

Smaller divergences were seen while modelling and have no run. `Infer` returns
UNAVAILABLE, or RESOURCE_EXHAUSTED when a later attempt finds the queue full, although
streams that failed have written tokens to the client: these are not counted, so that
the rule of gateway_server.cpp:61-64 and 164-170 (OK once the client has received
something) covers streams that ended early, but not those that failed; and line 66-67
speaks of RESOURCE_EXHAUSTED as returned before any retry. A notification that
reaches the ticket of a caller which has timed out wakes nobody, where request_queue.h
(lines 26-27 and 49) says that it wakes one of those that wait. A stale outcome
recorded in HALF_OPEN ends it, and after the next cooldown a second probe can be
under way beside the first, where circuit_breaker.h speaks of one; `ProbePerCooldown`
states what does hold. And `MarkDead` does not look whether the member, copied as
overdue, has refuted its suspicion meanwhile; it must refute once more.

**Bounds.** Three threads are the least with which two sleepers and a notifier
overlap, and two places with three threads make the queue full. Four callers
let three stale outcomes (a whole window) meet a probe. Two requests, one
slot each and two attempts make requests queue, be overtaken, fail over and use up
their attempts; `window_size = 1` trips a breaker at the first failure. In hedge
the plain request takes a slot before, between or after the two selections of the
other, so that a race starts with both replicas, with one (the single path) or
with none; `Hedged`, `Silent` and `Volatile` say which requests may hedge and which
replicas may fall silent or leave. A race is not repeated, so that further attempts
are those of a plain or a falling back request, which the gateway run has; hedge gives
them one, and leaves one replica in routing all the time, to end within minutes.
A request notifies the queue once an attempt at most or, in a race, twice: with
`max_retries + 2` notifications for each request the bound of the queue, which Gateway
inherits, is never a limit.
In load_balancer `HashFunctions` has one function whose points fill the range and
one with a collision, `Prompts` a hash on a point, between points and behind the
last, and `Exclusions` what a retry excludes; two callers overbook a slot, and one
rebuilding thread suffices to swap a stale ring under a walk.
In swim `MaxSeq` bounds the rounds a node begins, `MaxLives` its restarts and
`MaxNet` the datagrams under way (a datagram beyond it is lost, which UDP may do);
the code's 10 sends and 50 entries are 2 and 2 (or 3), so that rumours are
dropped and expire within a round or two. Two nodes suffice for rumours of an
earlier life to meet a new one, three for a proxy. Rolling has no bound on its
length: the update repeats, and `Reported` and `Volatile` only say which replica
gossip reports on and which may crash.

**Fairness.** Queue: a runnable thread runs (OS scheduling, short critical
sections); nobody must call and no deadline must pass. Breaker: cooldowns elapse,
streams end, and each replica keeps being asked for (an assumption about
traffic, needed by `Recovers` only). Hedge: `WF` on each request's thread,
which includes that its deadline in the queue and the 10 s of the race pass and
that a stream goes on, ends or fails (gRPC reports a dead peer; a replica that accepts
a stream and stays silent is left to the run hedge_hang); and on each racer,
whose `Read` returns unless the replica is one of `Silent` (none in the run
hedge). LoadBalancer: a thread that walks the ring goes on; it waits for nobody.
Rolling: handlers run, streams of finitely many tokens end, and Drain's polling
notices; the deadline of a drain is not assumed to pass, so `DrainCompletes` is due
to the drain itself. Swim has no fairness: its properties are safety.

## Proofs

Each theorem holds for every value of the constants, under the named
assumptions of the modules (finite sets of threads or requests, natural
numbers for sizes, a threshold with a positive denominator).

* **RequestQueueProofs.** `QueueInv` joins the type invariant, the count and the
  tickets, and adds that grants lie below `serving_ticket` (`GrantsBacked`): the
  count needs that the waiters are a finite set that changes by the thread that
  moves, uniqueness that a waiter's ticket is below `next_ticket` and not granted.
  From it, `QueueTypeCorrect`, `QueueBounded`, `QueueTickets`; and
  `QueueImplementsGate`: the number of grants goes up by one exactly when the
  granted ticket is new, which is what `TicketsUnique` says. `SleepersRemembered` says
  that a sleeper whose ticket was reached has a notifier on its way: the safety half of
  `NoLostWakeup`.
* **CircuitBreakerProofs, BreakerManagerProofs.** Lemmas on the method operators
  (what they preserve and when they change the state), then `ManagerTypeCorrect`,
  `ProbesAreOwned`, `ClosedMeansHealthy`, `OpenClosesOnlyThroughProbe`.
  `ProbeOwned` is inductive because every outcome recorded in HALF_OPEN, the
  probe's or a stale one, ends HALF_OPEN. `OneProbePerCooldown` needs that nothing
  but the passing of a cooldown makes a breaker ready for its next probe, and that the
  history `waited` tells of it (`RestIsWaited`).
* **GatewayProofs.** `TypeCorrect`, `CountersExact` (the set of streams on a
  replica gains or loses the one request that moves), `ProbesResolved`,
  `NoReplicaRetried` (the replicas of earlier attempts, a history, are all among
  the excluded ones). The queue is only used through the fact that it leaves the
  other variables alone. `AnswersArePrefixes` is about what a client has when `Infer`
  returns, although a stream may fail after some tokens, end early with OK, and be
  followed by one that repeats some. It needs `AnswerInv`: the tokens that have been
  counted have been written, as have those of the present stream unless it failed, so
  that the next stream starts no later than where the client's tokens end. That OK
  means a complete answer is neither true nor claimed (gateway_server.cpp:61-64).
  `InferKeepsBreakerProtocol` is the refinement of BreakerManager: each access of `Infer`
  to a breaker maps to one action of a caller, the rest to stuttering, for which a
  request must stay with the replica it asked about until it has recorded.
  `InferProbesOncePerCooldown` is then BreakerManager's theorem, and `InferKeepsGate` and
  `InferForgetsNoSleeper` the queue's, used through an instance of the proof module whose
  assumptions are proved from Gateway's (`QueueTheoremsApply`).
* **HedgeProofs.** `HedgeInv` says for each request that its race is sound (`RaceOK`:
  one racer at most between the flag and the promise, and with a token), that its
  place fits the path it is on (`PathOK`), what its locals are there (`LocalOK`) and
  what its client has (`AnswerOK`), and adds typed threads, sound breakers and exact
  counts. `OneWinner` is not inductive without `winner_set`, nor `HedgedAnswer`
  without the places where nothing has been sent yet. From it, and for the queue's
  variables from `QueueInv`, `HedgeTypeCorrect`; and `RaceCountersExact`, `OneWinnerHolds`, `HedgedAnswerHolds`. `EverySlotToldHolds` needs
  `ToldInv` besides, which relates a thread's place in the queue to its place in the
  request: one that is not notifying owes nothing and is outside `Notify`.
  `HedgingKeepsBreakerProtocol` refines BreakerManager with two callers a request: a
  racer streams without having asked, and its success, if any, is recorded once. From it
  `HedgingProbesOncePerCooldown` and `HedgingResolvesProbes`; `HedgingKeepsGate` and
  `HedgingForgetsNoSleeper` as for `Infer`. `GrantsAreBacked` combines two modules: the
  queue never grants more often than it was notified, and notifications and slots owed
  make up the slots given back (`EverySlotTold`).
* **LoadBalancerProofs.** `BalancerTypeCorrect` from `TypeInv` (a counter is the number
  of callers counted, so that it is never negative, and a walk is at a point of
  the ring); `OverbookedByRaceHolds` from `RaceInv` (what a caller that has looked and
  not counted may rely on, but for those that overtook it); `OpenIsFoundHolds` from
  `FoundInv` (an open replica is still to be copied, or its copy has a slot);
  `WalkIsClockwiseHolds` and `FullLoopHolds` from `WalkInv` (where the walk has wrapped,
  and where not), by arithmetic on distances; `MovesOnlyHolds` from `RingInv` (without
  collisions a ring is its points, whatever the order). `WalkShrinksHolds` is the safety
  half of `WalkEnds`: each step leaves a new point of a finite ring behind, and the ring
  is not swapped under the walk.
* **RollingUpdateProofs.** `RollingTypeCorrect`, `OneDrainingAlways`, `CountsExact`,
  `UpdatedAllHolds`, `NoCallWhileUpdatedHolds`. `OneDraining` alone does not say at
  which places of an update a flag may be set (`MarkedInv` does), and `UpdatedAll`
  needs what the update has achieved so far (`ProgressInv`: the replicas before the
  present one have been restarted and accept calls). The count needs that the calls
  are a finite set. `DrainOnlyShrinksHolds`, the safety half of `DrainCompletes`, needs
  that the replica refuses calls as long as the updater waits for its drain
  (`RefusingInv`). No fairness is used.
* **SwimProofs.** First what each method of MembershipList does to a list and to the
  rumours in its buffer (`SetGood`, `ApplyGood`, `MarkGood`, ..., with `Entered`: one
  entry changes, and the buffer gains nothing but it). `SwimTypeCorrect` from
  `TypeInv`, which adds that a message at hand is the node's own and that a node
  that is down has no threads. Then every step of a node is one of a few changes of
  its list (`StepWorks`), from which `BeliefsGoForward`; `IncarnationsSourced` by
  `SourceInv`, an invariant over all lists, buffers and messages at once; and
  `SelfAliveHolds` by `SelfInv`: as nothing newer than the node's own incarnation is
  said of it, it takes nothing over that it has not outbid, provided that its
  failure detector works on others only. `PendingExactHolds` needs that the two
  threads' numbers differ (`PendingOK`), and `AckFromProbedHolds` that each message
  under way fits the probe its number belongs to (`Fits`). `MindsKept` is the
  refinement of Beliefs: a step of a node tells, marks, learns or applies (`StepWorks`),
  and what it adds to buffers, datagrams and the message at hand (`SaidStep`) is a
  rumour that was there or the one that the abstract step spreads. That `Accuse` is
  about others needs that the failure detector works on others only (`SelfInv`).

Only model-checked: what needs fairness (`NoLostWakeup`, `Recovers`,
`EveryRequestReturns`, `WalkEnds`, `DrainCompletes`), since liveness is beyond the
prover; of `NoLostWakeup`, `WalkEnds` and `DrainCompletes` the safety halves are proved.

Only proved: what follows from a property of a run or repeats it for another module,
and would lengthen the runs. These are the type invariants of the queue, the breakers,
the balancer and the update; `TicketsUnique`, which the refinement of the gate contains;
`ProbeResolved`, a consequence of `KeepsBreakerProtocol`; `KeepsGate`, the queue's
refinement under `Infer`; and for races `RaceKeepsBreakerProtocol` and its gate.

## What is not modelled

Some steps are coarser than the code. In Gateway and Hedge a sleeper is woken by
notifications and its deadline only: a spurious wakeup, which RequestQueue's run has,
evaluates the predicate once more, and without a clock it could postpone the deadline
for ever. The selection in Gateway, Hedge and RollingUpdate does not come back
empty-handed because its copies disagree (LoadBalancer's does); in RollingUpdate the
second tier copies and chooses in one step, so that "sent" there means the moment of
the lookup. In Swim the reading of the own incarnation, its increment and the
application of the update that caused it are one step, and so are the two reads a
message is made of. A Drain RPC may fail with the replica running (`DrainRpcFails`):
the updater takes it for drained, as it does a crashed one.

Load metadata in gossip; changes of a replica's address or capacity; orderly stops
(`LeaveCluster` is called by nothing); gRPC and UDP themselves; the client, the
log, and the replica's `main`. The wait at gateway start-up. The pages under
docs/doxygen and their scripts (the repository's only JavaScript) are generated by
Doxygen from the headers and are no part of the program. Time is abstracted
everywhere: a timeout may happen at any moment, so nothing is said about how long
anything takes.

## Plan

In this order; steps 1 to 10 are done.

1. RequestQueue with AdmissionGate and proofs.
2. CircuitBreaker, BreakerManager and proofs.
3. Gateway, composed of the two, and proofs.
4. MembershipList as operators on a list.
5. Swim on top of it.
6. Proofs for MembershipList and Swim.
7. RollingUpdate, and proofs of `OneDraining`, `NoCallWhileUpdated`, `UpdatedAll`.
8. Hedge: `InferHedged` with its race threads, winner, loser and 10 s wait, and
   proofs.
9. LoadBalancer: the walk and the second tier, and proofs.
10. Refinements: `Infer` and `InferHedged` keep the protocols of BreakerManager and
    AdmissionGate; Swim implements Beliefs.
11. RoutingView: list, callback and registry with both gossip threads and load
    updates: when the registry agrees with the list again.
12. Rejoin: Swim with unbounded rounds and fairness: is a restarted member ALIVE
    again at every node in the end? test_cluster.cpp:344-348 says its first PING
    overwrites the DEAD entry; ApplyUpdate lets it do so only at a higher incarnation.
