------------------------- MODULE RequestQueueProofs -------------------------
(***************************************************************************)
(* Theorems about RequestQueue for every set of threads and every          *)
(* max_size: the inductive invariant QueueInv, and from it that the queue  *)
(* implements AdmissionGate.                                               *)
(***************************************************************************)
EXTENDS RequestQueue, FiniteSetTheorems, TLAPS

\* The count and the uniqueness of tickets are each inductive only together
\* with the other parts: a grant is backed because its ticket is below
\* serving_ticket, and it is a new grant because no other caller ever held
\* the same ticket.
QueueInv ==
    /\ QueueTypeOK
    /\ WaitingCountExact
    /\ TicketsUnique
    /\ GrantsBacked

-----------------------------------------------------------------------------
(* How the steps change the set of waiters                                 *)

\* The waiters are a finite set of threads.
LEMMA WaitersFinite ==
    /\ IsFiniteSet(Waiters)
    /\ Cardinality(Waiters) \in Nat
<1>1. Waiters \subseteq Threads
    BY DEF Waiters
<1>2. IsFiniteSet(Waiters)
    BY <1>1, QueueAssumption, FS_Subset DEF QueueAssumption
<1> QED
    BY <1>2, FS_CardinalityType

\* A thread that moves into the wait adds itself to the waiters.
LEMMA MoveIn ==
    ASSUME QueueTypeOK, NEW t \in Threads, NEW place \in Waiting,
           qpc[t] \notin Waiting, Move(t, place)
    PROVE  /\ Waiters' = Waiters \cup {t}
           /\ t \notin Waiters
           /\ Cardinality(Waiters') = Cardinality(Waiters) + 1
<1>1. Waiters' = Waiters \cup {t}
    BY DEF QueueTypeOK, Waiters, Move
<1>2. t \notin Waiters
    BY DEF Waiters
<1> QED
    BY <1>1, <1>2, WaitersFinite, FS_AddElement

\* A thread that returns from the wait removes itself.
LEMMA MoveOut ==
    ASSUME QueueTypeOK, NEW t \in Threads, NEW place \in Places \ Waiting,
           qpc[t] \in Waiting, Move(t, place)
    PROVE  /\ Waiters' = Waiters \ {t}
           /\ t \in Waiters
           /\ Cardinality(Waiters') = Cardinality(Waiters) - 1
           /\ Cardinality(Waiters') \in Nat
<1>1. Waiters' = Waiters \ {t}
    BY DEF QueueTypeOK, Waiters, Move
<1>2. t \in Waiters
    BY DEF Waiters
<1>3. /\ IsFiniteSet(Waiters \ {t})
      /\ Cardinality(Waiters \ {t}) = Cardinality(Waiters) - 1
    BY <1>2, WaitersFinite, FS_RemoveElement
<1>4. Cardinality(Waiters \ {t}) \in Nat
    BY <1>3, FS_CardinalityType
<1> QED
    BY <1>1, <1>2, <1>3, <1>4

\* Any other move leaves the waiters alone.
LEMMA MoveBeside ==
    ASSUME QueueTypeOK, NEW t \in Threads, NEW place,
           qpc[t] \in Waiting <=> place \in Waiting, Move(t, place)
    PROVE  Waiters' = Waiters
BY DEF QueueTypeOK, Waiters, Move

\* notify_all() wakes sleepers, who still wait until they have the mutex.
LEMMA WakeAllWaiters ==
    ASSUME QueueTypeOK, NEW t \in Threads, NotifyAll(t)
    PROVE  Waiters' = Waiters
BY DEF QueueTypeOK, Waiters, NotifyAll, WakeAll, Waiting

-----------------------------------------------------------------------------
(* The inductive invariant                                                 *)

\* The queue starts empty, with no ticket taken.
LEMMA QueueInvInit == QueueInit => QueueInv
<1> SUFFICES ASSUME QueueInit PROVE QueueInv
    OBVIOUS
<1>1. QueueTypeOK
    BY DEF QueueInit, QueueTypeOK, Places
<1>2. Waiters = {}
    BY DEF QueueInit, Waiters, Waiting
<1>3. WaitingCountExact
    BY <1>2, FS_EmptySet, QueueAssumption
    DEF QueueInit, WaitingCountExact, QueueAssumption
<1>4. TicketsUnique /\ GrantsBacked
    BY <1>2 DEF QueueInit, TicketsUnique, GrantsBacked
<1> QED
    BY <1>1, <1>3, <1>4 DEF QueueInv

\* A caller returning true hands its ticket from the waiters to the granted.
LEMMA ReturnServedKeepsInv ==
    ASSUME QueueInv, NEW t \in Threads, qpc[t] \in Waiting, ReturnServed(t)
    PROVE  QueueInv'
<1> USE DEF QueueInv, ReturnServed
<1>1. /\ Waiters' = Waiters \ {t}
      /\ t \in Waiters
      /\ Cardinality(Waiters') = Cardinality(Waiters) - 1
      /\ Cardinality(Waiters') \in Nat
    <2>1. "served" \in Places \ Waiting
        BY DEF Places, Waiting, Returned
    <2> QED
        BY <2>1, MoveOut
<1>2. WaitingCountExact'
    BY <1>1, WaitersFinite, QueueAssumption
    DEF WaitingCountExact, QueueTypeOK, QueueAssumption
<1>3. QueueTypeOK'
    <2>1. waiting_count' \in Nat
        BY <1>1, <1>2 DEF WaitingCountExact
    <2> QED
        BY <2>1 DEF QueueTypeOK, Move, Places, Returned
<1>4. TicketsUnique'
    BY <1>1 DEF TicketsUnique, QueueTypeOK
<1>5. GrantsBacked'
    BY DEF GrantsBacked, ServedTicket
<1> QED
    BY <1>2, <1>3, <1>4, <1>5

\* A caller that times out gives up its place; its ticket is used by nobody.
LEMMA ReturnUnservedKeepsInv ==
    ASSUME QueueInv, NEW t \in Threads, qpc[t] \in Waiting, ReturnUnserved(t)
    PROVE  QueueInv'
<1> USE DEF QueueInv, ReturnUnserved
<1>1. /\ Waiters' = Waiters \ {t}
      /\ t \in Waiters
      /\ Cardinality(Waiters') = Cardinality(Waiters) - 1
      /\ Cardinality(Waiters') \in Nat
    <2>1. "unserved" \in Places \ Waiting
        BY DEF Places, Waiting, Returned
    <2> QED
        BY <2>1, MoveOut
<1>2. WaitingCountExact'
    BY <1>1, WaitersFinite, QueueAssumption
    DEF WaitingCountExact, QueueTypeOK, QueueAssumption
<1>3. QueueTypeOK'
    <2>1. waiting_count' \in Nat
        BY <1>1, <1>2 DEF WaitingCountExact
    <2> QED
        BY <2>1 DEF QueueTypeOK, Move, Places, Returned
<1>4. TicketsUnique' /\ GrantsBacked'
    BY <1>1 DEF TicketsUnique, GrantsBacked, QueueTypeOK
<1> QED
    BY <1>2, <1>3, <1>4

\* Every step of the queue keeps the invariant.
LEMMA QueueInvStep == QueueInv /\ [QueueNext]_queueVars => QueueInv'
<1> SUFFICES ASSUME QueueInv, [QueueNext]_queueVars PROVE QueueInv'
    OBVIOUS
<1> USE DEF QueueInv
<1>1. ASSUME NEW t \in Threads, RejectFull(t) PROVE QueueInv'
    <2>1. Waiters' = Waiters
        BY <1>1, MoveBeside DEF RejectFull, Waiting
    <2> QED
        BY <1>1, <2>1
        DEF RejectFull, QueueTypeOK, Move, Places, Returned, WaitingCountExact,
            TicketsUnique, GrantsBacked
<1>2. ASSUME NEW t \in Threads, PassAtOnce(t) PROVE QueueInv'
    <2> USE DEF PassAtOnce, TakeTicket
    <2>1. Waiters' = Waiters /\ t \notin Waiters
        BY <1>2, MoveBeside DEF Waiting, Waiters
    <2>2. QueueTypeOK'
        BY <1>2 DEF QueueTypeOK, Move, Places, Returned
    <2>3. WaitingCountExact'
        BY <1>2, <2>1 DEF WaitingCountExact
    <2>4. TicketsUnique'
        BY <1>2, <2>1 DEF TicketsUnique, QueueTypeOK, Waiters
    <2>5. GrantsBacked'
        BY <1>2 DEF GrantsBacked, ServedTicket
    <2> QED
        BY <2>2, <2>3, <2>4, <2>5
<1>3. ASSUME NEW t \in Threads, GoToSleep(t) PROVE QueueInv'
    <2> USE DEF GoToSleep, TakeTicket
    <2>1. /\ Waiters' = Waiters \cup {t}
          /\ t \notin Waiters
          /\ Cardinality(Waiters') = Cardinality(Waiters) + 1
        <3>1. "asleep" \in Waiting /\ qpc[t] \notin Waiting
            BY <1>3 DEF Waiting
        <3> QED
            BY <1>3, <3>1, MoveIn
    <2>2. QueueTypeOK'
        BY <1>3 DEF QueueTypeOK, Move, Places, Waiting
    <2>3. WaitingCountExact'
        BY <1>3, <2>1, QueueAssumption
        DEF WaitingCountExact, IsFull, QueueTypeOK, QueueAssumption
    <2>4. TicketsUnique'
        <3>1. \A u \in Waiters : ticket'[u] = ticket[u]
            BY <1>3, <2>1 DEF QueueTypeOK, Waiters
        <3>2. ticket'[t] = next_ticket
            BY <1>3 DEF QueueTypeOK
        <3> QED
            BY <1>3, <2>1, <3>1, <3>2 DEF TicketsUnique, QueueTypeOK, Waiters
    <2>5. GrantsBacked'
        BY <1>3 DEF GrantsBacked
    <2> QED
        BY <2>2, <2>3, <2>4, <2>5
<1>4. ASSUME NEW t \in Threads, Resume(t) PROVE QueueInv'
    <2>1. CASE ReturnServed(t)
        BY <1>4, <2>1, ReturnServedKeepsInv DEF Resume, Waiting
    <2>2. CASE Move(t, "asleep")
               /\ UNCHANGED <<waiting_count, next_ticket, serving_ticket, ticket, granted>>
        <3>1. Waiters' = Waiters
            BY <1>4, <2>2, MoveBeside DEF Resume, Waiting
        <3> QED
            BY <2>2, <3>1
            DEF QueueTypeOK, Move, Places, Waiting, WaitingCountExact,
                TicketsUnique, GrantsBacked
    <2> QED
        BY <1>4, <2>1, <2>2 DEF Resume
<1>5. ASSUME NEW t \in Threads, ReturnAtDeadline(t) PROVE QueueInv'
    BY <1>5, ReturnServedKeepsInv, ReturnUnservedKeepsInv
    DEF ReturnAtDeadline, Waiting
<1>6. ASSUME NEW t \in Threads, DeadlinePasses(t) \/ SpuriousWake(t) PROVE QueueInv'
    <2>1. Waiters' = Waiters
        BY <1>6, MoveBeside DEF DeadlinePasses, SpuriousWake, Waiting
    <2> QED
        BY <1>6, <2>1
        DEF DeadlinePasses, SpuriousWake, QueueTypeOK, Move, Places, Waiting,
            WaitingCountExact, TicketsUnique, GrantsBacked
<1>7. ASSUME NEW t \in Threads, NotifyServe(t) PROVE QueueInv'
    <2>1. Waiters' = Waiters
        BY <1>7, MoveBeside DEF NotifyServe, Waiting
    <2> QED
        BY <1>7, <2>1
        DEF NotifyServe, QueueTypeOK, Move, Places, WaitingCountExact,
            TicketsUnique, GrantsBacked
<1>8. ASSUME NEW t \in Threads, NotifyAll(t) PROVE QueueInv'
    <2>1. Waiters' = Waiters
        BY <1>8, WakeAllWaiters
    <2> QED
        BY <1>8, <2>1
        DEF NotifyAll, WakeAll, QueueTypeOK, Places, Waiting,
            WaitingCountExact, TicketsUnique, GrantsBacked
<1>9. ASSUME NEW t \in Threads, TakeResult(t) PROVE QueueInv'
    <2>1. Waiters' = Waiters
        BY <1>9, MoveBeside DEF TakeResult, Waiting, Returned
    <2>2. QueueTypeOK'
        BY <1>9 DEF TakeResult, QueueTypeOK, Move, Places
    <2>3. \A u \in Waiters : ticket'[u] = ticket[u]
        BY <1>9 DEF TakeResult, QueueTypeOK, Waiters, Waiting, Returned
    <2>4. TicketsUnique'
        BY <1>9, <2>1, <2>3 DEF TakeResult, TicketsUnique
    <2> QED
        BY <1>9, <2>1, <2>2, <2>4
        DEF TakeResult, WaitingCountExact, GrantsBacked
<1>10. CASE UNCHANGED queueVars
    BY <1>10
    DEF queueVars, QueueTypeOK, WaitingCountExact, TicketsUnique, GrantsBacked, Waiters
<1> QED
    BY <1>1, <1>2, <1>3, <1>4, <1>5, <1>6, <1>7, <1>8, <1>9, <1>10
    DEF QueueNext, QueueStep, WaitForCapacity, Quiesced

\* QueueInv is an invariant of the queue.
LEMMA QueueInvariant == QueueSafety => []QueueInv
BY QueueInvInit, QueueInvStep, PTL DEF QueueSafety

\* Type correctness of the queue, for every set of threads and every size.
THEOREM QueueTypeCorrect == QueueSpec => []QueueTypeOK
<1>1. QueueInv => QueueTypeOK
    BY DEF QueueInv
<1> QED
    BY <1>1, QueueInvariant, PTL DEF QueueSpec

\* waiting_count_ is exact on every return path and bounded by max_size, so the
\* queue rejects when and only when max_size callers are blocked in it.
THEOREM QueueBounded == QueueSpec => []WaitingCountExact
<1>1. QueueInv => WaitingCountExact
    BY DEF QueueInv
<1> QED
    BY <1>1, QueueInvariant, PTL DEF QueueSpec

\* Tickets are never shared or reused, however many callers come and time out.
THEOREM QueueTickets == QueueSpec => []TicketsUnique
<1>1. QueueInv => TicketsUnique
    BY DEF QueueInv
<1> QED
    BY <1>1, QueueInvariant, PTL DEF QueueSpec

-----------------------------------------------------------------------------
(* The queue implements the admission gate                                 *)

\* The tickets that let a caller through lie below serving_ticket, so a ticket
\* below serving_ticket that was not used yet is a permit that is left.
LEMMA UnusedTicketIsPermit ==
    ASSUME QueueInv, NEW n \in Nat, n \notin granted, ServedTicket(n)
    PROVE  /\ Cardinality(granted) < serving_ticket
           /\ Cardinality(granted \cup {n}) = Cardinality(granted) + 1
<1> DEFINE Below == 0 .. (serving_ticket - 1)
<1>1. serving_ticket \in Nat /\ granted \subseteq Nat
    BY DEF QueueInv, QueueTypeOK
<1>2. IsFiniteSet(Below) /\ Cardinality(Below) = serving_ticket
    <2>1. serving_ticket > n
        BY DEF ServedTicket
    <2>2. 0 \in Int /\ serving_ticket - 1 \in Int /\ ~(0 > serving_ticket - 1)
        BY <1>1, <2>1
    <2>3. Cardinality(Below) = (serving_ticket - 1) - 0 + 1
        BY <2>2, FS_Interval
    <2> QED
        BY <1>1, <2>2, <2>3, FS_Interval
<1>3. granted \cup {n} \subseteq Below
    BY <1>1 DEF QueueInv, GrantsBacked, ServedTicket
<1>4. IsFiniteSet(granted)
    BY <1>2, <1>3, FS_Subset
<1>5. Cardinality(granted \cup {n}) = Cardinality(granted) + 1
    BY <1>4, FS_AddElement
<1>6. Cardinality(granted \cup {n}) <= serving_ticket
    BY <1>2, <1>3, FS_Subset
<1>7. Cardinality(granted) \in Nat
    BY <1>4, FS_CardinalityType
<1> QED
    BY <1>1, <1>5, <1>6, <1>7

\* There are never more callers let through than permits given.
LEMMA GrantsCounted == QueueInv => Cardinality(granted) <= serving_ticket
<1> SUFFICES ASSUME QueueInv PROVE Cardinality(granted) <= serving_ticket
    OBVIOUS
<1> DEFINE Below == 0 .. (serving_ticket - 1)
<1>1. serving_ticket \in Nat /\ granted \subseteq Below
    BY DEF QueueInv, QueueTypeOK, GrantsBacked
<1>2. CASE serving_ticket = 0
    <2>1. granted = {}
        BY <1>1, <1>2
    <2> QED
        BY <1>2, <2>1, FS_EmptySet
<1>3. CASE serving_ticket # 0
    <2>1. 0 \in Int /\ serving_ticket - 1 \in Int /\ ~(0 > serving_ticket - 1)
        BY <1>1, <1>3
    <2>2. IsFiniteSet(Below) /\ Cardinality(Below) = (serving_ticket - 1) - 0 + 1
        BY <2>1, FS_Interval
    <2>3. Cardinality(Below) = serving_ticket
        BY <1>1, <2>2
    <2>4. Cardinality(granted) <= Cardinality(Below)
        BY <1>1, <2>2, FS_Subset
    <2> QED
        BY <2>3, <2>4
<1> QED
    BY <1>2, <1>3

\* A caller that is admitted found room in the abstract waiting room.
LEMMA NotFullIsRoom ==
    ASSUME QueueInv, ~IsFull PROVE Gate!HasRoom
BY WaitersFinite, QueueAssumption
DEF QueueInv, QueueTypeOK, WaitingCountExact, IsFull, QueueAssumption, Gate!HasRoom,
    Cardinality, Gate!Cardinality

\* A caller that returns true from the wait is a Grant of the gate.
LEMMA ReturnServedIsGrant ==
    ASSUME QueueInv, NEW t \in Threads, qpc[t] \in Waiting, ReturnServed(t)
    PROVE  Gate!Grant(t)
<1>1. "served" \in Places \ Waiting
    BY DEF Places, Waiting, Returned
<1>2. Waiters' = Waiters \ {t} /\ t \in Waiters
    BY <1>1, MoveOut DEF ReturnServed, QueueInv
<1>3. ticket[t] \in Nat /\ ticket[t] \notin granted
    BY <1>2 DEF QueueInv, QueueTypeOK, TicketsUnique
<1>4. /\ Cardinality(granted) < serving_ticket
      /\ Cardinality(granted') = Cardinality(granted) + 1
    BY <1>3, UnusedTicketIsPermit DEF ReturnServed
<1> QED
    BY <1>2, <1>4 DEF ReturnServed, Gate!Grant, Gate!PermitLeft

\* A caller that times out is an Abandon of the gate.
LEMMA ReturnUnservedIsAbandon ==
    ASSUME QueueInv, NEW t \in Threads, qpc[t] \in Waiting, ReturnUnserved(t)
    PROVE  Gate!Abandon(t)
<1>1. "unserved" \in Places \ Waiting
    BY DEF Places, Waiting, Returned
<1>2. Waiters' = Waiters \ {t} /\ t \in Waiters
    BY <1>1, MoveOut DEF ReturnUnserved, QueueInv
<1> QED
    BY <1>2 DEF ReturnUnserved, Gate!Abandon

\* Every step of the queue is a step of the gate or changes nothing in it.
LEMMA StepIsGateStep ==
    QueueInv /\ [QueueNext]_queueVars => [Gate!GateNext]_(Gate!gateVars)
<1> SUFFICES ASSUME QueueInv, [QueueNext]_queueVars
             PROVE  [Gate!GateNext]_(Gate!gateVars)
    OBVIOUS
<1>0. QueueTypeOK
    BY DEF QueueInv
<1>1. ASSUME NEW t \in Threads, RejectFull(t) PROVE UNCHANGED Gate!gateVars
    <2>1. Waiters' = Waiters
        BY <1>0, <1>1, MoveBeside DEF RejectFull, Waiting
    <2> QED
        BY <1>1, <2>1 DEF RejectFull, Gate!gateVars
<1>2. ASSUME NEW t \in Threads, PassAtOnce(t) PROVE Gate!PassThrough
    <2>1. Waiters' = Waiters
        BY <1>0, <1>2, MoveBeside DEF PassAtOnce, TakeTicket, Waiting
    <2>2. next_ticket \in Nat /\ next_ticket \notin granted
        BY <1>0 DEF QueueInv, QueueTypeOK, TicketsUnique
    <2>3. /\ Cardinality(granted) < serving_ticket
          /\ Cardinality(granted') = Cardinality(granted) + 1
        BY <1>2, <2>2, UnusedTicketIsPermit DEF PassAtOnce
    <2> QED
        BY <1>2, <2>1, <2>3, NotFullIsRoom
        DEF PassAtOnce, TakeTicket, Gate!PassThrough, Gate!PermitLeft
<1>3. ASSUME NEW t \in Threads, GoToSleep(t) PROVE Gate!Admit(t)
    <2>1. "asleep" \in Waiting /\ qpc[t] \notin Waiting
        BY <1>3 DEF GoToSleep, TakeTicket, Waiting
    <2>2. Waiters' = Waiters \cup {t} /\ t \notin Waiters
        BY <1>0, <1>3, <2>1, MoveIn DEF GoToSleep
    <2> QED
        BY <1>3, <2>2, NotFullIsRoom DEF GoToSleep, TakeTicket, Gate!Admit
<1>4. ASSUME NEW t \in Threads, Resume(t)
      PROVE  Gate!Grant(t) \/ UNCHANGED Gate!gateVars
    <2>1. CASE ReturnServed(t)
        BY <1>4, <2>1, ReturnServedIsGrant DEF Resume, Waiting
    <2>2. CASE Move(t, "asleep")
               /\ UNCHANGED <<waiting_count, next_ticket, serving_ticket, ticket, granted>>
        <3>1. Waiters' = Waiters
            BY <1>0, <1>4, <2>2, MoveBeside DEF Resume, Waiting
        <3> QED
            BY <2>2, <3>1 DEF Gate!gateVars
    <2> QED
        BY <1>4, <2>1, <2>2 DEF Resume
<1>5. ASSUME NEW t \in Threads, ReturnAtDeadline(t)
      PROVE  Gate!Grant(t) \/ Gate!Abandon(t)
    BY <1>5, ReturnServedIsGrant, ReturnUnservedIsAbandon
    DEF ReturnAtDeadline, Waiting
<1>6. ASSUME NEW t \in Threads, DeadlinePasses(t) \/ SpuriousWake(t)
      PROVE  UNCHANGED Gate!gateVars
    <2>1. Waiters' = Waiters
        BY <1>0, <1>6, MoveBeside DEF DeadlinePasses, SpuriousWake, Waiting
    <2> QED
        BY <1>6, <2>1 DEF DeadlinePasses, SpuriousWake, Gate!gateVars
<1>7. ASSUME NEW t \in Threads, NotifyServe(t) PROVE Gate!Release
    <2>1. Waiters' = Waiters
        BY <1>0, <1>7, MoveBeside DEF NotifyServe, Waiting
    <2> QED
        BY <1>7, <2>1 DEF NotifyServe, Gate!Release
<1>8. ASSUME NEW t \in Threads, NotifyAll(t) PROVE UNCHANGED Gate!gateVars
    <2>1. Waiters' = Waiters
        BY <1>0, <1>8, WakeAllWaiters
    <2> QED
        BY <1>8, <2>1 DEF NotifyAll, Gate!gateVars
<1>9. ASSUME NEW t \in Threads, TakeResult(t) PROVE UNCHANGED Gate!gateVars
    <2>1. Waiters' = Waiters
        BY <1>0, <1>9, MoveBeside DEF TakeResult, Waiting, Returned
    <2> QED
        BY <1>9, <2>1 DEF TakeResult, Gate!gateVars
<1>10. CASE UNCHANGED queueVars
    BY <1>10 DEF queueVars, Gate!gateVars, Waiters
<1> QED
    BY <1>1, <1>2, <1>3, <1>4, <1>5, <1>6, <1>7, <1>8, <1>9, <1>10
    DEF QueueNext, QueueStep, WaitForCapacity, Quiesced, Gate!GateNext

\* The initial state of the queue is the initial state of the gate.
LEMMA InitIsGateInit == QueueInit => Gate!GateInit
<1> SUFFICES ASSUME QueueInit PROVE Gate!GateInit
    OBVIOUS
<1>1. Waiters = {}
    BY DEF QueueInit, Waiters, Waiting
<1> QED
    BY <1>1, FS_EmptySet DEF QueueInit, Gate!GateInit

\* The same without fairness, for those that compose the queue with their own steps.
LEMMA SafetyImplementsGate == QueueSafety => ImplementsGate
BY InitIsGateInit, StepIsGateStep, QueueInvariant, PTL
DEF QueueSafety, ImplementsGate, Gate!GateSpec

\* RequestQueue implements AdmissionGate: callers enter only while there is
\* room, and each caller that WaitForCapacity() lets through uses up one
\* NotifyCapacityAvailable() that no other caller used.
THEOREM QueueImplementsGate == QueueSpec => ImplementsGate
BY SafetyImplementsGate, PTL DEF QueueSpec
-----------------------------------------------------------------------------
(* Nobody sleeps through its own notification                              *)

\* A thread that neither notifies nor goes to sleep on a reached ticket hides no
\* notifier and adds no sleeper.
LEMMA QuietMoveKeepsNotifier ==
    ASSUME QueueTypeOK, NoSleeperForgotten, NEW t \in Threads, NEW place,
           qpc[t] # "notifying", Move(t, place), serving_ticket' = serving_ticket,
           \A u \in Threads \ {t} : ticket'[u] = ticket[u],
           place = "asleep" => ~ServedTicket(ticket'[t])
    PROVE  NoSleeperForgotten'
<1>1. /\ qpc'[t] = place
      /\ \A u \in Threads \ {t} : qpc'[u] = qpc[u]
    BY DEF QueueTypeOK, Move
<1>2. ASSUME NEW u \in Threads, qpc'[u] = "asleep", serving_ticket' > ticket'[u]
      PROVE  \E v \in Threads : qpc'[v] = "notifying"
    <2>1. u # t
        BY <1>1, <1>2 DEF ServedTicket
    <2>2. PICK v \in Threads : qpc[v] = "notifying"
        BY <1>1, <1>2, <2>1 DEF NoSleeperForgotten, ServedTicket
    <2>3. qpc'[v] = "notifying"
        BY <1>1, <2>2
    <2> QED
        BY <2>3
<1> QED
    BY <1>2 DEF NoSleeperForgotten, ServedTicket

\* A ticket is only reached by a thread that is then notifying, and that thread
\* leaves nobody asleep.
LEMMA NoSleeperForgottenStep ==
    QueueInv /\ NoSleeperForgotten /\ [QueueNext]_queueVars => NoSleeperForgotten'
<1> SUFFICES ASSUME QueueInv, NoSleeperForgotten, [QueueNext]_queueVars
             PROVE  NoSleeperForgotten'
    OBVIOUS
<1>0. QueueTypeOK
    BY DEF QueueInv
<1>1. ASSUME NEW t \in Threads, RejectFull(t) PROVE NoSleeperForgotten'
    BY <1>0, <1>1, QuietMoveKeepsNotifier DEF RejectFull
<1>2. ASSUME NEW t \in Threads, PassAtOnce(t) PROVE NoSleeperForgotten'
    <2>1. \A u \in Threads \ {t} : ticket'[u] = ticket[u]
        BY <1>0, <1>2 DEF PassAtOnce, TakeTicket, QueueTypeOK
    <2> QED
        BY <1>0, <1>2, <2>1, QuietMoveKeepsNotifier DEF PassAtOnce, TakeTicket
<1>3. ASSUME NEW t \in Threads, GoToSleep(t) PROVE NoSleeperForgotten'
    <2>1. /\ \A u \in Threads \ {t} : ticket'[u] = ticket[u]
          /\ ticket'[t] = next_ticket
        BY <1>0, <1>3 DEF GoToSleep, TakeTicket, QueueTypeOK
    <2>2. ~ServedTicket(ticket'[t])
        BY <1>3, <2>1 DEF GoToSleep, ServedTicket
    <2> QED
        BY <1>0, <1>3, <2>1, <2>2, QuietMoveKeepsNotifier DEF GoToSleep, TakeTicket
<1>4. ASSUME NEW t \in Threads, Resume(t) PROVE NoSleeperForgotten'
    <2>1. PICK place : /\ Move(t, place)
                       /\ place = "asleep" => ~ServedTicket(ticket[t])
                       /\ ticket' = ticket /\ serving_ticket' = serving_ticket
        BY <1>4 DEF Resume, ReturnServed
    <2> QED
        BY <1>0, <1>4, <2>1, QuietMoveKeepsNotifier DEF Resume
<1>5. ASSUME NEW t \in Threads, ReturnAtDeadline(t) PROVE NoSleeperForgotten'
    <2>1. PICK place : /\ Move(t, place)
                       /\ place # "asleep"
                       /\ ticket' = ticket /\ serving_ticket' = serving_ticket
        BY <1>5 DEF ReturnAtDeadline, ReturnServed, ReturnUnserved
    <2> QED
        BY <1>0, <1>5, <2>1, QuietMoveKeepsNotifier DEF ReturnAtDeadline
<1>6. ASSUME NEW t \in Threads, DeadlinePasses(t) \/ SpuriousWake(t)
      PROVE  NoSleeperForgotten'
    BY <1>0, <1>6, QuietMoveKeepsNotifier DEF DeadlinePasses, SpuriousWake
<1>7. ASSUME NEW t \in Threads, NotifyServe(t) PROVE NoSleeperForgotten'
    <2>1. qpc'[t] = "notifying"
        BY <1>0, <1>7 DEF NotifyServe, Move, QueueTypeOK
    <2> QED
        BY <2>1 DEF NoSleeperForgotten
<1>8. ASSUME NEW t \in Threads, NotifyAll(t) PROVE NoSleeperForgotten'
    <2>1. \A u \in Threads : qpc'[u] # "asleep"
        BY <1>8 DEF NotifyAll, WakeAll
    <2> QED
        BY <2>1 DEF NoSleeperForgotten
<1>9. ASSUME NEW t \in Threads, TakeResult(t) PROVE NoSleeperForgotten'
    <2>1. \A u \in Threads \ {t} : ticket'[u] = ticket[u]
        BY <1>0, <1>9 DEF TakeResult, QueueTypeOK
    <2>2. qpc[t] # "notifying"
        BY <1>9 DEF TakeResult, Returned
    <2> QED
        BY <1>0, <1>9, <2>1, <2>2, QuietMoveKeepsNotifier DEF TakeResult
<1>10. CASE UNCHANGED queueVars
    BY <1>10 DEF queueVars, NoSleeperForgotten, ServedTicket
<1> QED
    BY <1>1, <1>2, <1>3, <1>4, <1>5, <1>6, <1>7, <1>8, <1>9, <1>10
    DEF QueueNext, QueueStep, WaitForCapacity, Quiesced

\* The same without fairness, for those that compose the queue with their own steps.
LEMMA SafetyForgetsNoSleeper == QueueSafety => []NoSleeperForgotten
<1>1. QueueInit => NoSleeperForgotten
    BY DEF QueueInit, NoSleeperForgotten
<1> QED
    BY <1>1, NoSleeperForgottenStep, QueueInvariant, PTL DEF QueueSafety

\* A caller asleep on a ticket that was reached always has a notifier on its way,
\* wherever its look at the ticket fell between increment and notify_all().
THEOREM SleepersRemembered == QueueSpec => []NoSleeperForgotten
BY SafetyForgetsNoSleeper, PTL DEF QueueSpec
=============================================================================
