---------------------------- MODULE RequestQueue ----------------------------
(***************************************************************************)
(* gateway/request_queue.{h,cpp}: the bounded backpressure queue in which  *)
(* Infer() threads wait for a replica slot.  A caller takes a ticket under *)
(* the mutex and sleeps on a condition variable until serving_ticket has   *)
(* passed its ticket or its deadline is over; NotifyCapacityAvailable()    *)
(* increments serving_ticket under the mutex and then, without the mutex,  *)
(* wakes every sleeper.                                                    *)
(*                                                                         *)
(* One step is one critical section of mutex_, or one call of the          *)
(* condition variable outside it.  Wall-clock time is abstracted: the      *)
(* deadline of a sleeping caller may pass at any moment.                   *)
(***************************************************************************)
EXTENDS Integers, FiniteSets

CONSTANTS Threads,    \* gRPC handler threads: they wait, and they notify
          max_size,   \* RequestQueue(max_size)
          MaxCalls,   \* bound: tickets ever taken
          MaxNotify   \* bound: notifications ever sent

ASSUME QueueAssumption ==
    /\ IsFiniteSet(Threads)
    /\ max_size \in Nat
    /\ MaxCalls \in Nat
    /\ MaxNotify \in Nat

VARIABLES waiting_count,   \* waiting_count_
          next_ticket,     \* next_ticket_
          serving_ticket,  \* serving_ticket_
          qpc,             \* where each thread is in the queue's code
          ticket,          \* my_ticket, a local of WaitForCapacity
          granted          \* history: tickets whose call returned true

queueVars == <<waiting_count, next_ticket, serving_ticket, qpc, ticket, granted>>

\* asleep: blocked in the condition variable; awake: woken, about to take the
\* mutex and evaluate the predicate; expired: woken by its deadline;
\* notifying: between the critical section of Notify... and notify_all().
Waiting  == {"asleep", "awake", "expired"}
Returned == {"served", "unserved", "rejected"}
Places   == {"out", "notifying"} \cup Waiting \cup Returned

Waiters == {t \in Threads : qpc[t] \in Waiting}

QueueInit ==
    /\ waiting_count = 0
    /\ next_ticket = 0
    /\ serving_ticket = 0
    /\ qpc = [t \in Threads |-> "out"]
    /\ ticket = [t \in Threads |-> 0]
    /\ granted = {}

\* Mutant of ServedTicket: off by one.
ServedOneEarly(n) == serving_ticket >= n

\* The predicate of cv_.wait_until.
ServedTicket(n) == serving_ticket > n

Move(t, place) == qpc' = [qpc EXCEPT ![t] = place]

-----------------------------------------------------------------------------
(* WaitForCapacity() up to the first evaluation of the predicate, all in   *)
(* one critical section.                                                   *)

IsFull == waiting_count >= max_size

RejectFull(t) ==
    /\ qpc[t] = "out"
    /\ IsFull
    /\ Move(t, "rejected")
    /\ UNCHANGED <<waiting_count, next_ticket, serving_ticket, ticket, granted>>

TakeTicket(t) ==
    /\ qpc[t] = "out"
    /\ ~IsFull
    /\ next_ticket < MaxCalls
    /\ ticket' = [ticket EXCEPT ![t] = next_ticket]
    /\ next_ticket' = next_ticket + 1
    /\ UNCHANGED serving_ticket

\* serving_ticket is already past the new ticket: the call never sleeps, and
\* waiting_count goes up and down again within the critical section.
PassAtOnce(t) ==
    /\ TakeTicket(t)
    /\ ServedTicket(next_ticket)
    /\ Move(t, "served")
    /\ granted' = granted \cup {next_ticket}
    /\ UNCHANGED waiting_count

GoToSleep(t) ==
    /\ TakeTicket(t)
    /\ ~ServedTicket(next_ticket)
    /\ Move(t, "asleep")
    /\ waiting_count' = waiting_count + 1
    /\ UNCHANGED granted

WaitForCapacity(t) == RejectFull(t) \/ PassAtOnce(t) \/ GoToSleep(t)

-----------------------------------------------------------------------------
(* The rest of wait_until: the caller holds the mutex again.               *)

ReturnServed(t) ==
    /\ ServedTicket(ticket[t])
    /\ Move(t, "served")
    /\ waiting_count' = waiting_count - 1
    /\ granted' = granted \cup {ticket[t]}
    /\ UNCHANGED <<next_ticket, serving_ticket, ticket>>

\* Mutant of ReturnUnserved: the timeout returns before the decrement.
ReturnStillCounted(t) ==
    /\ ~ServedTicket(ticket[t])
    /\ Move(t, "unserved")
    /\ UNCHANGED <<waiting_count, next_ticket, serving_ticket, ticket, granted>>

ReturnUnserved(t) ==
    /\ ~ServedTicket(ticket[t])
    /\ Move(t, "unserved")
    /\ waiting_count' = waiting_count - 1
    /\ UNCHANGED <<next_ticket, serving_ticket, ticket, granted>>

\* Woken: return if served, else wait again (the deadline is still ahead or
\* is noticed by the next wait).
Resume(t) ==
    /\ qpc[t] = "awake"
    /\ \/ ReturnServed(t)
       \/ /\ ~ServedTicket(ticket[t])
          /\ Move(t, "asleep")
          /\ UNCHANGED <<waiting_count, next_ticket, serving_ticket, ticket, granted>>

\* wait_until returns the predicate's value when the deadline has passed.
ReturnAtDeadline(t) ==
    /\ qpc[t] = "expired"
    /\ ReturnServed(t) \/ ReturnUnserved(t)

DeadlinePasses(t) ==
    /\ qpc[t] = "asleep"
    /\ Move(t, "expired")
    /\ UNCHANGED <<waiting_count, next_ticket, serving_ticket, ticket, granted>>

\* A condition variable may wake a thread nobody notified.
SpuriousWake(t) ==
    /\ qpc[t] = "asleep"
    /\ Move(t, "awake")
    /\ UNCHANGED <<waiting_count, next_ticket, serving_ticket, ticket, granted>>

-----------------------------------------------------------------------------
(* NotifyCapacityAvailable()                                               *)

NotifyServe(t) ==
    /\ qpc[t] = "out"
    /\ serving_ticket < MaxNotify
    /\ serving_ticket' = serving_ticket + 1
    /\ Move(t, "notifying")
    /\ UNCHANGED <<waiting_count, next_ticket, ticket, granted>>

\* Mutant of NotifyAll: notify_one() instead of notify_all().
NotifyOne(t) ==
    /\ qpc[t] = "notifying"
    /\ LET asleep == {u \in Threads : qpc[u] = "asleep"}
       IN  \/ asleep = {} /\ Move(t, "out")
          \/ \E u \in asleep : qpc' = [qpc EXCEPT ![t] = "out", ![u] = "awake"]
    /\ UNCHANGED <<waiting_count, next_ticket, serving_ticket, ticket, granted>>

WakeAll == [u \in Threads |-> IF qpc[u] = "asleep" THEN "awake" ELSE qpc[u]]

NotifyAll(t) ==
    /\ qpc[t] = "notifying"
    /\ qpc' = [WakeAll EXCEPT ![t] = "out"]
    /\ UNCHANGED <<waiting_count, next_ticket, serving_ticket, ticket, granted>>

\* The caller reads the result and goes on with its own code; my_ticket is gone.
TakeResult(t) ==
    /\ qpc[t] \in Returned
    /\ Move(t, "out")
    /\ ticket' = [ticket EXCEPT ![t] = 0]
    /\ UNCHANGED <<waiting_count, next_ticket, serving_ticket, granted>>

-----------------------------------------------------------------------------
QueueStep(t) ==
    \/ WaitForCapacity(t)
    \/ Resume(t)
    \/ DeadlinePasses(t)
    \/ ReturnAtDeadline(t)
    \/ SpuriousWake(t)
    \/ NotifyServe(t)
    \/ NotifyAll(t)
    \/ TakeResult(t)

\* The bounded workload is used up and every thread has left the queue.
Quiesced ==
    /\ \A t \in Threads : qpc[t] = "out"
    /\ next_ticket = MaxCalls
    /\ serving_ticket = MaxNotify
    /\ UNCHANGED queueVars

QueueNext == Quiesced \/ \E t \in Threads : QueueStep(t)

\* A thread that is runnable runs: the OS schedules it and the mutex is held
\* only for a few instructions.  No thread is obliged to call the queue, and
\* no deadline is obliged to pass.
QueueFairness ==
    \A t \in Threads : /\ WF_queueVars(Resume(t))
                       /\ WF_queueVars(ReturnAtDeadline(t))
                       /\ WF_queueVars(NotifyAll(t))

QueueSafety == QueueInit /\ [][QueueNext]_queueVars

QueueSpec == QueueSafety /\ QueueFairness

-----------------------------------------------------------------------------
(* Properties                                                              *)

QueueTypeOK ==
    /\ waiting_count \in Nat
    /\ next_ticket \in Nat
    /\ serving_ticket \in Nat
    /\ qpc \in [Threads -> Places]
    /\ ticket \in [Threads -> Nat]
    /\ granted \subseteq Nat

\* waiting_count_, which admission is decided by, is exactly the number of
\* callers blocked in WaitForCapacity on every return path (served, timed out,
\* never slept), so the queue never holds more than max_size of them and never
\* leaks a place.
WaitingCountExact ==
    /\ waiting_count = Cardinality(Waiters)
    /\ waiting_count <= max_size

\* No two callers ever share a ticket: a waiter's ticket was issued, belongs to
\* it alone and has not let anyone through yet.
TicketsUnique ==
    /\ \A t \in Waiters : ticket[t] < next_ticket /\ ticket[t] \notin granted
    /\ \A t, u \in Waiters : t # u => ticket[t] # ticket[u]
    /\ \A n \in granted : n < next_ticket

\* Nobody is let through on air: every call that returned true has a
\* notification of its own behind it, so there are never more grants than
\* freed slots.
GrantsBacked == \A n \in granted : n < serving_ticket

Gate == INSTANCE AdmissionGate WITH
            inside  <- Waiters,
            permits <- serving_ticket,
            grants  <- Cardinality(granted)

\* The queue implements the admission gate: bounded admission, and each
\* caller let through uses up a permit of its own.
ImplementsGate == Gate!GateSpec

\* Nobody sleeps through its own notification: whenever a caller is asleep whose
\* ticket has been reached, a thread that advanced serving_ticket_ has yet to
\* call notify_all(), although both happen outside each other's critical section
\* (request_queue.cpp:79-84) and the caller may have looked at its ticket, or
\* gone back to sleep, at any moment in between.
NoSleeperForgotten ==
    \A t \in Threads :
        qpc[t] = "asleep" /\ ServedTicket(ticket[t]) =>
            \E u \in Threads : qpc[u] = "notifying"

\* No lost wakeup: a caller whose ticket has been reached returns true, even if
\* its deadline never comes, because notify_all() always follows the increment.
NoLostWakeup ==
    \A t \in Threads :
        (qpc[t] \in Waiting /\ ServedTicket(ticket[t])) ~> qpc[t] = "served"
=============================================================================
