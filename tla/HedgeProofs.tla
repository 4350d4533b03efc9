----------------------------- MODULE HedgeProofs -----------------------------
(***************************************************************************)
(* Theorems about Hedge for every set of requests, hedged or not, and of   *)
(* replicas, every capacity and every breaker configuration.               *)
(***************************************************************************)
EXTENDS Hedge, CircuitBreakerProofs

AllPlaces == Places \cup RacePlaces

\* Nothing has been asked of a replica yet.
Asking == {"loop", "wait", "reselect", "admit"}
\* Both replicas of the race have been chosen.
Chosen == RacePlaces \ {"first choice", "second choice"}

\* The places inside an iteration of Infer's loop; the hedged path uses those
\* from the dispatch on.
InIteration == Held \cup {"wait", "reselect", "admit"}

\* The winner flag, the promise and the racers' phases: at most one racer is
\* between the exchange of the flag and the promise.
RaceOK(w) ==
    /\ \A i \in Racers : w.phase[i] = "read" => w.success[i]
    /\ \A i \in Racers : w.phase[i] = "won" =>
          /\ w.winner_set
          /\ w.success[i]
          /\ w.promise = 0
          /\ w.phase[Other(i)] # "won"
    /\ w.promise # 0 => w.winner_set /\ w.success[w.promise]

\* What path the places belong to, and what has been chosen there.
HasWinner == WinnerCounted \cup {"drop loser"}

PathOK(p, w) ==
    /\ p \in Asking => w.path \in {"infer", "fallback"}
    /\ p \in Chosen \cup {"second choice"} => w.sel[1] \in Replicas
    /\ p \in Chosen =>
          w.sel[2] \in Replicas /\ w.path = "race"
    /\ p \in HasWinner => w.winner_id \in Racers

\* The variables Infer and InferHedged share.
LocalOK(p, l, w) ==
    /\ p \in Held \cup {"admit"} => l.selection \in Replicas
    /\ p \in InIteration /\ w.path \in {"infer", "fallback"} => l.attempt < max_retries
    /\ p \in Asking \cup RacePlaces \cup {"dispatch"} => l.streamed = 0
    /\ p = "stream" => l.streamed >= 0
    /\ p \in RacePlaces => l.tokens_sent = 0

\* What the client has been sent, d, and told, s.
InOrder(d) == \A k \in DOMAIN d : d[k] = k - 1

AnswerOK(p, l, w, c, s, d) ==
    /\ p # "done" => s = "none"
    /\ p \in RacePlaces \/ (p = "loop" /\ l.attempt = 0) => d = <<>>
    /\ w.path \in {"single", "race"} =>
          /\ InOrder(d)
          /\ p \in {"dispatch", "stream"} /\ ~c => Len(d) = l.tokens_sent + l.streamed
    /\ w.path = "race" /\ s = "UNAVAILABLE" => d = <<>>

RequestOK(p, l, w, c, s, d) ==
    RaceOK(w) /\ PathOK(p, w) /\ LocalOK(p, l, w) /\ AnswerOK(p, l, w, c, s, d)

\* The slots that a request at p with locals l and race w holds on r.
One(b) == IF b THEN 1 ELSE 0

FirstCounted == {"count second"}
SecondCounted == {"drop second"}

HoldsAt(p, w, i) ==
    \/ p \in BothCounted
    \/ p \in FirstCounted /\ i = 1
    \/ p \in SecondCounted /\ i = 2
    \/ p \in WinnerCounted /\ w.winner_id = i

StreamSlot(p, l, r) == One(p \in Counted /\ l.selection = r)
RacerSlot(p, w, i, r) == One(HoldsAt(p, w, i) /\ w.sel[i] = r)

Slots(p, l, w, r) == StreamSlot(p, l, r) + RacerSlot(p, w, 1, r) + RacerSlot(p, w, 2, r)

ThreadsTyped ==
    /\ pc \in [Requests -> AllPlaces]
    /\ local \in [Requests -> Locals]
    /\ race \in [Requests -> Races]
    /\ cancelled \in [Requests -> BOOLEAN]
    /\ status \in [Requests -> Statuses]
    /\ delivered \in [Requests -> Seq(Nat)]

RegistryTyped ==
    /\ alive \subseteq Replicas
    /\ active \in [Replicas -> Int]
    /\ freed \in Nat

BreakersSound ==
    /\ breaker \in [Replicas -> Breaker]
    /\ \A r \in Replicas : Sound(breaker[r])

RequestsOK ==
    \A q \in Requests :
        RequestOK(pc[q], local[q], race[q], cancelled[q], status[q], delivered[q])

HedgeInv ==
    /\ ThreadsTyped
    /\ RegistryTyped
    /\ BreakersSound
    /\ RequestsOK
    /\ RaceCountsExact

-----------------------------------------------------------------------------
(* Counting                                                                *)

\* Two sets that agree but on x.
LEMMA ToggleCardinality ==
    ASSUME NEW S, NEW T, IsFiniteSet(S), NEW x, T \ {x} = S \ {x}
    PROVE  /\ IsFiniteSet(T)
           /\ Cardinality(S) \in Nat /\ Cardinality(T) \in Nat
           /\ Cardinality(T) = Cardinality(S) - One(x \in S) + One(x \in T)
<1> DEFINE U == S \ {x}
<1>1. IsFiniteSet(U) /\ Cardinality(U) \in Nat /\ x \notin U
    BY FS_RemoveElement, FS_CardinalityType
<1>2. S = U \/ S = U \cup {x}
    OBVIOUS
<1>3. T = U \/ T = U \cup {x}
    OBVIOUS
<1>4. IsFiniteSet(U \cup {x}) /\ Cardinality(U \cup {x}) = Cardinality(U) + 1
    BY <1>1, FS_AddElement
<1>5. /\ x \in S => Cardinality(S) = Cardinality(U) + 1
      /\ x \notin S => Cardinality(S) = Cardinality(U)
    BY <1>1, <1>2, <1>4
<1>6. /\ x \in T => Cardinality(T) = Cardinality(U) + 1
      /\ x \notin T => Cardinality(T) = Cardinality(U)
    BY <1>1, <1>3, <1>4
<1>7. IsFiniteSet(T)
    BY <1>1, <1>3, <1>4
<1> HIDE DEF U
<1> QED
    BY <1>1, <1>5, <1>6, <1>7 DEF One

\* Requests and racers are finitely many, and so are the slots they hold.
LEMMA PairsFinite == IsFiniteSet(Requests \X Racers)
<1>1. Racers = {1} \cup {2}
    BY DEF Racers
<1>2. IsFiniteSet({1} \cup {2})
    BY FS_Singleton, FS_AddElement
<1>3. IsFiniteSet(Requests)
    BY GatewayAssumption DEF GatewayAssumption
<1> QED
    BY <1>1, <1>2, <1>3, FS_Product

LEMMA SlotsFinite ==
    ASSUME NEW r
    PROVE  IsFiniteSet(OnReplica(r)) /\ IsFiniteSet(RacingOn(r))
<1>1. OnReplica(r) \subseteq Requests /\ RacingOn(r) \subseteq Requests \X Racers
    BY DEF OnReplica, RacingOn
<1> QED
    BY <1>1, PairsFinite, FS_Subset, GatewayAssumption DEF GatewayAssumption

\* Two sets of pairs that agree but on those of q.
LEMMA PairCardinality ==
    ASSUME NEW S \in SUBSET (Requests \X Racers), NEW T \in SUBSET (Requests \X Racers),
           NEW q \in Requests,
           \A u \in Requests \ {q}, i \in Racers : <<u, i>> \in T <=> <<u, i>> \in S
    PROVE  /\ Cardinality(S) \in Nat
           /\ Cardinality(T) = Cardinality(S)
                  - One(<<q, 1>> \in S) - One(<<q, 2>> \in S)
                  + One(<<q, 1>> \in T) + One(<<q, 2>> \in T)
<1> DEFINE U == (S \ {<<q, 1>>}) \cup (T \cap {<<q, 1>>})
<1>1. U \ {<<q, 1>>} = S \ {<<q, 1>>} /\ T \ {<<q, 2>>} = U \ {<<q, 2>>}
    <2>1. ASSUME NEW x \in Requests \X Racers, x # <<q, 1>>, x # <<q, 2>>
          PROVE  x \in S <=> x \in T
        <3>1. PICK u \in Requests, i \in Racers : x = <<u, i>>
            OBVIOUS
        <3>2. u # q
            BY <2>1, <3>1 DEF Racers
        <3> QED
            BY <3>1, <3>2
    <2>2. <<q, 1>> # <<q, 2>>
        OBVIOUS
    <2> QED
        BY <2>1, <2>2
<1>2. /\ <<q, 1>> \in U <=> <<q, 1>> \in T
      /\ <<q, 2>> \in U <=> <<q, 2>> \in S
    OBVIOUS
<1>3. IsFiniteSet(S)
    BY PairsFinite, FS_Subset
<1> HIDE DEF U
<1>4. /\ Cardinality(S) \in Nat /\ Cardinality(U) \in Nat /\ IsFiniteSet(U)
      /\ Cardinality(U) = Cardinality(S) - One(<<q, 1>> \in S) + One(<<q, 1>> \in U)
    BY <1>1, <1>3, ToggleCardinality
<1>5. /\ Cardinality(T) \in Nat
      /\ Cardinality(T) = Cardinality(U) - One(<<q, 2>> \in U) + One(<<q, 2>> \in T)
    BY <1>1, <1>4, ToggleCardinality
<1> QED
    BY <1>2, <1>4, <1>5 DEF One

LEMMA SlotsNumber == \A p, l, w, r : Slots(p, l, w, r) \in Nat
BY DEF Slots, StreamSlot, RacerSlot, One

\* When one request moves, only its own slots change hands: the counters stay
\* exact if they move with them.
LEMMA CountsMove ==
    ASSUME ThreadsTyped, RegistryTyped, RaceCountsExact,
           NEW q \in Requests, NEW p \in AllPlaces, NEW l \in Locals, NEW w \in Races,
           pc' = [pc EXCEPT ![q] = p], local' = [local EXCEPT ![q] = l],
           race' = [race EXCEPT ![q] = w],
           \A r \in Replicas :
              active'[r] = active[r] + Slots(p, l, w, r)
                              - Slots(pc[q], local[q], race[q], r)
    PROVE  RaceCountsExact'
<1> SUFFICES ASSUME NEW r \in Replicas
             PROVE  active'[r] = Cardinality(OnReplica(r)') + Cardinality(RacingOn(r)')
    BY DEF RaceCountsExact
<1>1. /\ pc'[q] = p /\ local'[q] = l /\ race'[q] = w
      /\ \A u \in Requests \ {q} :
            pc'[u] = pc[u] /\ local'[u] = local[u] /\ race'[u] = race[u]
    BY DEF ThreadsTyped
<1>2. Cardinality(OnReplica(r)') = Cardinality(OnReplica(r))
          - StreamSlot(pc[q], local[q], r) + StreamSlot(p, l, r)
    <2>1. OnReplica(r)' \ {q} = OnReplica(r) \ {q}
        BY <1>1 DEF OnReplica
    <2>2. /\ q \in OnReplica(r) <=> pc[q] \in Counted /\ local[q].selection = r
          /\ q \in OnReplica(r)' <=> p \in Counted /\ l.selection = r
        BY <1>1 DEF OnReplica
    <2>3. Cardinality(OnReplica(r)') = Cardinality(OnReplica(r))
              - One(q \in OnReplica(r)) + One(q \in OnReplica(r)')
        BY <2>1, SlotsFinite, ToggleCardinality
    <2> QED
        BY <2>2, <2>3 DEF StreamSlot, One
<1>3. Cardinality(RacingOn(r)') = Cardinality(RacingOn(r))
          - RacerSlot(pc[q], race[q], 1, r) - RacerSlot(pc[q], race[q], 2, r)
          + RacerSlot(p, w, 1, r) + RacerSlot(p, w, 2, r)
    <2>1. /\ <<q, 1>> \in RacingOn(r) <=> HoldsAt(pc[q], race[q], 1) /\ race[q].sel[1] = r
          /\ <<q, 2>> \in RacingOn(r) <=> HoldsAt(pc[q], race[q], 2) /\ race[q].sel[2] = r
        BY DEF RacingOn, HoldsSlot, HoldsAt, FirstCounted, SecondCounted, Racers
    <2>2. /\ <<q, 1>> \in RacingOn(r)' <=> HoldsAt(p, w, 1) /\ w.sel[1] = r
          /\ <<q, 2>> \in RacingOn(r)' <=> HoldsAt(p, w, 2) /\ w.sel[2] = r
        BY <1>1 DEF RacingOn, HoldsSlot, HoldsAt, FirstCounted, SecondCounted, Racers
    <2>3. \A u \in Requests \ {q}, i \in Racers : <<u, i>> \in RacingOn(r)' <=> <<u, i>> \in RacingOn(r)
        BY <1>1 DEF RacingOn, HoldsSlot
    <2>4. RacingOn(r) \subseteq Requests \X Racers /\ RacingOn(r)' \subseteq Requests \X Racers
        BY DEF RacingOn
    <2>5. Cardinality(RacingOn(r)') = Cardinality(RacingOn(r))
              - One(<<q, 1>> \in RacingOn(r)) - One(<<q, 2>> \in RacingOn(r))
              + One(<<q, 1>> \in RacingOn(r)') + One(<<q, 2>> \in RacingOn(r)')
        BY <2>3, <2>4, PairCardinality
    <2> QED
        BY <2>1, <2>2, <2>5 DEF RacerSlot
<1>4. Cardinality(OnReplica(r)) \in Nat /\ Cardinality(RacingOn(r)) \in Nat
    BY SlotsFinite, FS_CardinalityType
<1>5. /\ active[r] = Cardinality(OnReplica(r)) + Cardinality(RacingOn(r))
      /\ active'[r] = active[r] + Slots(p, l, w, r) - Slots(pc[q], local[q], race[q], r)
    BY DEF RaceCountsExact
<1> QED
    BY <1>2, <1>3, <1>4, <1>5 DEF Slots, StreamSlot, RacerSlot, One

\* The history variable stays a number.
LEMMA FreedCounts ==
    ASSUME RegistryTyped, CountFreed
    PROVE  freed' \in Nat
<1>1. IsFiniteSet({r \in Replicas : active'[r] < active[r]})
    BY FS_Subset, HedgeAssumption DEF HedgeAssumption
<1> QED
    BY <1>1, FS_CardinalityType DEF CountFreed, RegistryTyped

-----------------------------------------------------------------------------
(* One request's step                                                      *)

\* q's thread is at p after the step, with locals l and race w; its client has
\* been told s and sent d.
Becomes(q, p, l, w, s, d) ==
    /\ pc' = [pc EXCEPT ![q] = p]
    /\ local' = [local EXCEPT ![q] = l]
    /\ race' = [race EXCEPT ![q] = w]
    /\ status' = [status EXCEPT ![q] = s]
    /\ delivered' = [delivered EXCEPT ![q] = d]
    /\ cancelled' = cancelled
    /\ alive' = alive

\* The new state of q is fit, and the counters and breakers move with it.
LEMMA RequestStep ==
    ASSUME HedgeInv, NEW q \in Requests, NEW p \in AllPlaces, NEW l \in Locals,
           NEW w \in Races, NEW s \in Statuses, NEW d \in Seq(Nat),
           Becomes(q, p, l, w, s, d), RequestOK(p, l, w, cancelled[q], s, d),
           CountFreed, BreakersSound', active' \in [Replicas -> Int],
           \A r \in Replicas :
              active'[r] = active[r] + Slots(p, l, w, r)
                              - Slots(pc[q], local[q], race[q], r)
    PROVE  HedgeInv'
<1>1. ThreadsTyped'
    BY DEF HedgeInv, ThreadsTyped, Becomes
<1>2. RegistryTyped'
    BY FreedCounts DEF HedgeInv, RegistryTyped, Becomes
<1>3. RequestsOK'
    <2>1. /\ pc'[q] = p /\ local'[q] = l /\ race'[q] = w
          /\ status'[q] = s /\ delivered'[q] = d
          /\ \A u \in Requests \ {q} :
                /\ pc'[u] = pc[u] /\ local'[u] = local[u] /\ race'[u] = race[u]
                /\ status'[u] = status[u] /\ delivered'[u] = delivered[u]
        BY DEF HedgeInv, ThreadsTyped, Becomes
    <2>2. ASSUME NEW u \in Requests
          PROVE  RequestOK(pc'[u], local'[u], race'[u], cancelled'[u], status'[u],
             delivered'[u])
        <3>1. CASE u = q
            BY <2>1, <3>1 DEF Becomes
        <3>2. CASE u # q
            BY <2>1, <3>2 DEF HedgeInv, RequestsOK, Becomes
        <3> QED
            BY <3>1, <3>2
    <2> QED
        BY <2>2 DEF RequestsOK
<1>4. RaceCountsExact'
    <2>1. ThreadsTyped /\ RegistryTyped /\ RaceCountsExact
        BY DEF HedgeInv
    <2>2. /\ pc' = [pc EXCEPT ![q] = p] /\ local' = [local EXCEPT ![q] = l]
          /\ race' = [race EXCEPT ![q] = w]
        BY DEF Becomes
    <2> QED
        BY <2>1, <2>2, CountsMove
<1> QED
    BY <1>1, <1>2, <1>3, <1>4 DEF HedgeInv

\* What is known of a request before its step.
LEMMA Before ==
    ASSUME HedgeInv, NEW q \in Requests
    PROVE  /\ pc[q] \in AllPlaces
           /\ local[q] \in Locals
           /\ race[q] \in Races
           /\ cancelled[q] \in BOOLEAN
           /\ status[q] \in Statuses
           /\ delivered[q] \in Seq(Nat)
           /\ RaceOK(race[q])
           /\ PathOK(pc[q], race[q])
           /\ LocalOK(pc[q], local[q], race[q])
           /\ AnswerOK(pc[q], local[q], race[q], cancelled[q], status[q], delivered[q])
BY DEF HedgeInv, ThreadsTyped, RequestsOK, RequestOK

LEMMA Same ==
    ASSUME HedgeInv, NEW q \in Requests
    PROVE  /\ pc = [pc EXCEPT ![q] = pc[q]]
           /\ local = [local EXCEPT ![q] = local[q]]
           /\ race = [race EXCEPT ![q] = race[q]]
           /\ status = [status EXCEPT ![q] = status[q]]
           /\ delivered = [delivered EXCEPT ![q] = delivered[q]]
BY DEF HedgeInv, ThreadsTyped

\* Breakers that are left alone, or asked by one of their methods, stay sound.
LEMMA BreakersKept == HedgeInv /\ UNCHANGED breaker => BreakersSound'
BY DEF HedgeInv, BreakersSound

LEMMA BreakerAsked ==
    ASSUME HedgeInv, NEW r \in Replicas, NEW b, Sound(b),
           breaker' = [breaker EXCEPT ![r] = b]
    PROVE  BreakersSound'
<1>1. b \in Breaker
    BY DEF Sound, GoodBreaker
<1> QED
    BY <1>1 DEF HedgeInv, BreakersSound

\* A step that moves no counter.
LEMMA QuietStep ==
    ASSUME HedgeInv, NEW q \in Requests, NEW p \in AllPlaces, NEW l \in Locals,
           NEW w \in Races, NEW s \in Statuses, NEW d \in Seq(Nat),
           Becomes(q, p, l, w, s, d), RequestOK(p, l, w, cancelled[q], s, d),
           UNCHANGED active, BreakersSound', CountFreed,
           \A r : Slots(p, l, w, r) = Slots(pc[q], local[q], race[q], r)
    PROVE  HedgeInv'
<1>1. active' \in [Replicas -> Int]
    BY DEF HedgeInv, RegistryTyped
<1>2. ASSUME NEW r \in Replicas
      PROVE  active'[r] = active[r] + Slots(p, l, w, r)
                              - Slots(pc[q], local[q], race[q], r)
    <2>1. active[r] \in Int
        BY DEF HedgeInv, RegistryTyped
    <2> HIDE DEF HedgeInv
    <2> QED
        BY <2>1, SlotsNumber
<1> QED
    BY <1>1, <1>2, RequestStep

\* One that takes a slot of r, or gives one back.
LEMMA TakeStep ==
    ASSUME HedgeInv, NEW q \in Requests, NEW p \in AllPlaces, NEW l \in Locals,
           NEW w \in Races, NEW s \in Statuses, NEW d \in Seq(Nat), NEW r \in Replicas,
           Becomes(q, p, l, w, s, d), RequestOK(p, l, w, cancelled[q], s, d),
           active' = [active EXCEPT ![r] = @ + 1], UNCHANGED breaker, CountFreed,
           \A t : Slots(p, l, w, t) = Slots(pc[q], local[q], race[q], t) + One(t = r)
    PROVE  HedgeInv'
<1>1. active \in [Replicas -> Int]
    BY DEF HedgeInv, RegistryTyped
<1>2. active' \in [Replicas -> Int]
    BY <1>1
<1>3. ASSUME NEW t \in Replicas
      PROVE  active'[t] = active[t] + Slots(p, l, w, t)
                              - Slots(pc[q], local[q], race[q], t)
    <2>1. active[t] \in Int /\ active'[t] = active[t] + One(t = r)
        BY <1>1 DEF One
    <2>2. One(t = r) \in Nat
        BY DEF One
    <2> HIDE DEF HedgeInv
    <2> QED
        BY <2>1, <2>2, SlotsNumber
<1> QED
    BY <1>2, <1>3, BreakersKept, RequestStep

LEMMA GiveStep ==
    ASSUME HedgeInv, NEW q \in Requests, NEW p \in AllPlaces, NEW l \in Locals,
           NEW w \in Races, NEW s \in Statuses, NEW d \in Seq(Nat), NEW r \in Replicas,
           Becomes(q, p, l, w, s, d), RequestOK(p, l, w, cancelled[q], s, d),
           active' = [active EXCEPT ![r] = @ - 1], UNCHANGED breaker, CountFreed,
           \A t : Slots(p, l, w, t) + One(t = r) = Slots(pc[q], local[q], race[q], t)
    PROVE  HedgeInv'
<1>1. active \in [Replicas -> Int]
    BY DEF HedgeInv, RegistryTyped
<1>2. active' \in [Replicas -> Int]
    BY <1>1
<1>3. ASSUME NEW t \in Replicas
      PROVE  active'[t] = active[t] + Slots(p, l, w, t)
                              - Slots(pc[q], local[q], race[q], t)
    <2>1. active[t] \in Int /\ active'[t] = active[t] - One(t = r)
        BY <1>1 DEF One
    <2>2. One(t = r) \in Nat
        BY DEF One
    <2> HIDE DEF HedgeInv
    <2> QED
        BY <2>1, <2>2, SlotsNumber
<1> QED
    BY <1>2, <1>3, BreakersKept, RequestStep

\* One that only moves on to p, between places that hold the same slots.
LEMMA MoveStep ==
    ASSUME HedgeInv, NEW q \in Requests, NEW p \in AllPlaces, GoTo(q, p),
           UNCHANGED <<local, race, client, registry, breaker>>, CountFreed,
           PathOK(p, race[q]), LocalOK(p, local[q], race[q]),
           AnswerOK(p, local[q], race[q], cancelled[q], status[q], delivered[q]),
           \A r : Slots(p, local[q], race[q], r) = Slots(pc[q], local[q], race[q], r)
    PROVE  HedgeInv'
<1> DEFINE l == local[q]
           w == race[q]
           s == status[q]
           d == delivered[q]
<1>1. Becomes(q, p, l, w, s, d) /\ UNCHANGED <<active, breaker>>
    BY Same DEF Becomes, GoTo, client, registry
<1>2. l \in Locals /\ w \in Races /\ s \in Statuses /\ d \in Seq(Nat)
    BY Before
<1>3. /\ RequestOK(p, l, w, cancelled[q], s, d)
      /\ \A r : Slots(p, l, w, r) = Slots(pc[q], local[q], race[q], r)
    BY Before DEF RequestOK
<1> HIDE DEF l, w, s, d
<1> QED
    BY <1>1, <1>2, <1>3, BreakersKept, QuietStep

\* Outside of these places a request holds no slot.
SlotPlaces == Counted \cup BothCounted \cup WinnerCounted \cup FirstCounted \cup SecondCounted

LEMMA NoRacerSlot ==
    ASSUME NEW p, NEW w, NEW i, p \notin SlotPlaces
    PROVE  ~HoldsAt(p, w, i)
BY DEF SlotPlaces, HoldsAt

LEMMA NoneHeld ==
    ASSUME NEW p, NEW l, NEW w, NEW r, p \notin Counted, ~HoldsAt(p, w, 1), ~HoldsAt(p, w, 2)
    PROVE  Slots(p, l, w, r) = 0
BY DEF Slots, StreamSlot, RacerSlot, One

LEMMA NoSlots == \A p, l, w, r : p \notin SlotPlaces => Slots(p, l, w, r) = 0
BY NoRacerSlot, NoneHeld DEF SlotPlaces

\* One that returns, without a slot, and records an outcome at most.
LEMMA ReturnStep ==
    ASSUME HedgeInv, NEW q \in Requests, NEW code \in Statuses, Return(q, code),
           UNCHANGED <<race, cancelled, delivered, registry>>, BreakersSound', CountFreed,
           race[q].path = "race" /\ code = "UNAVAILABLE" => delivered[q] = <<>>,
           \A r : Slots(pc[q], local[q], race[q], r) = 0
    PROVE  HedgeInv'
<1> DEFINE w == race[q]
           d == delivered[q]
<1>1. Becomes(q, "done", Fresh, w, code, d) /\ UNCHANGED active
    BY Same DEF Becomes, Return, GoTo, registry
<1>2. Fresh \in Locals /\ "done" \in AllPlaces
    BY GatewayAssumption DEF Fresh, AtLoop, Locals, GatewayAssumption, AllPlaces, Places
<1>3. w \in Races /\ d \in Seq(Nat)
    BY Before
<1>4. RequestOK("done", Fresh, w, cancelled[q], code, d)
    <2>1. RaceOK(w) /\ (w.path \in {"single", "race"} => InOrder(d))
        BY Before DEF AnswerOK
    <2>2. PathOK("done", w) /\ LocalOK("done", Fresh, w)
        BY DEF PathOK, LocalOK, AllPlaces, Places, RacePlaces, Chosen, Asking, Held,
           InIteration, Counted, BothCounted, WinnerCounted, FirstCounted,
           SecondCounted, HasWinner
    <2>3. AnswerOK("done", Fresh, w, cancelled[q], code, d)
        BY <2>1 DEF AnswerOK, AllPlaces, Places, RacePlaces, Chosen, Asking, Held,
           InIteration, Counted, BothCounted, WinnerCounted, FirstCounted,
           SecondCounted, HasWinner
    <2> QED
        BY <2>1, <2>2, <2>3 DEF RequestOK
<1>5. \A r : Slots("done", Fresh, w, r) = Slots(pc[q], local[q], race[q], r)
    BY NoSlots DEF SlotPlaces, Counted, BothCounted, WinnerCounted, FirstCounted,
       SecondCounted
<1> HIDE DEF w, d
<1> QED
    BY <1>1, <1>2, <1>3, <1>4, <1>5, QuietStep

-----------------------------------------------------------------------------
(* Entering, and the two selections                                        *)

LEMMA EnterStep ==
    ASSUME HedgeInv, NEW q \in Requests, EnterHedged(q), CountFreed
    PROVE  HedgeInv'
<1> DEFINE l == local[q]
           s == status[q]
           d == delivered[q]
<1>1. /\ pc[q] = "loop" /\ race[q].path = "infer"
      /\ l.attempt = 0 /\ l.streamed = 0 /\ l.tokens_sent = 0
      /\ UNCHANGED <<local, client, registry, breaker>>
    <2>1. pc[q] = "loop" /\ race[q] = NoRace /\ l = Fresh
        BY DEF EnterHedged, AtEntry
    <2>2. NoRace.path = "infer" /\ Fresh.attempt = 0 /\ Fresh.streamed = 0 /\ Fresh.tokens_sent = 0
        BY DEF NoRace, Fresh, AtLoop
    <2> QED
        BY <2>1, <2>2 DEF EnterHedged
<1>2. d = <<>> /\ s = "none"
    BY <1>1, Before DEF AnswerOK
<1>3. CASE GoTo(q, "first choice") /\ UNCHANGED race
    <2>1. /\ PathOK("first choice", race[q])
          /\ LocalOK("first choice", l, race[q])
          /\ AnswerOK("first choice", l, race[q], cancelled[q], s, d)
        BY <1>1, <1>2 DEF PathOK, LocalOK, AnswerOK, AllPlaces, Places, RacePlaces,
           Chosen, Asking, Held, InIteration, Counted, BothCounted, WinnerCounted,
           FirstCounted, SecondCounted, HasWinner
    <2>2. \A r : Slots("first choice", l, race[q], r) = Slots(pc[q], l, race[q], r)
        BY <1>1, NoSlots DEF SlotPlaces, AllPlaces, Places, RacePlaces, Chosen, Asking,
           Held, InIteration, Counted, BothCounted, WinnerCounted, FirstCounted,
           SecondCounted, HasWinner
    <2>3. "first choice" \in AllPlaces
        BY DEF AllPlaces, RacePlaces
    <2> QED
        BY <1>1, <1>3, <2>1, <2>2, <2>3, MoveStep
<1>4. CASE race' = [race EXCEPT ![q].path = "fallback"] /\ UNCHANGED pc
    <2> DEFINE w == [race[q] EXCEPT !.path = "fallback"]
    <2>1. race[q] \in Races /\ race \in [Requests -> Races]
        BY Before DEF HedgeInv, ThreadsTyped
    <2>2. /\ w \in Races /\ w.path = "fallback" /\ RaceOK(w)
        BY <2>1, Before DEF Races, Paths, RaceOK
    <2>3. Becomes(q, "loop", l, w, s, d) /\ UNCHANGED <<active, breaker>>
        BY <1>1, <1>4, <2>1, Same DEF Becomes, client, registry
    <2> HIDE DEF w
    <2>4. RequestOK("loop", l, w, cancelled[q], s, d)
        BY <1>1, <1>2, <2>2 DEF RequestOK, PathOK, LocalOK, AnswerOK, AllPlaces, Places,
           RacePlaces, Chosen, Asking, Held, InIteration, Counted, BothCounted,
           WinnerCounted, FirstCounted, SecondCounted, HasWinner
    <2>5. \A r : Slots("loop", l, w, r) = Slots(pc[q], local[q], race[q], r)
        BY <1>1, NoSlots DEF SlotPlaces, AllPlaces, Places, RacePlaces, Chosen, Asking,
           Held, InIteration, Counted, BothCounted, WinnerCounted, FirstCounted,
           SecondCounted, HasWinner
    <2>6. l \in Locals /\ s \in Statuses /\ d \in Seq(Nat) /\ "loop" \in AllPlaces
        BY Before DEF AllPlaces, Places
    <2> HIDE DEF l, s, d
    <2> QED
        BY <2>2, <2>3, <2>4, <2>5, <2>6, BreakersKept, QuietStep
<1> QED
    BY <1>3, <1>4 DEF EnterHedged

LEMMA SelectFirstStep ==
    ASSUME HedgeInv, NEW q \in Requests, SelectFirst(q), CountFreed
    PROVE  HedgeInv'
<1> DEFINE l == local[q]
           s == status[q]
           d == delivered[q]
<1>1. /\ pc[q] = "first choice"
      /\ UNCHANGED <<cancelled, delivered, registry, breaker>>
    BY DEF SelectFirst
<1>2. /\ l \in Locals /\ s \in Statuses /\ d \in Seq(Nat)
      /\ LocalOK("first choice", l, race[q]) /\ s = "none" /\ d = <<>>
    BY <1>1, Before DEF AnswerOK, RacePlaces
<1>3. ASSUME NEW r \in Selectable(q), race' = [race EXCEPT ![q].sel[1] = r],
             GoTo(q, "second choice"), UNCHANGED <<local, status>>
      PROVE  HedgeInv'
    <2> DEFINE w == [race[q] EXCEPT !.sel[1] = r]
    <2>1. race[q] \in Races /\ race \in [Requests -> Races] /\ r \in Replicas
        BY Before DEF HedgeInv, ThreadsTyped, RegistryTyped, Selectable
    <2>2. w \in Races /\ w.sel[1] = r /\ w.path = race[q].path /\ RaceOK(w)
        BY <2>1, Before DEF Races, Racers, RaceOK
    <2>3. Becomes(q, "second choice", l, w, s, d) /\ UNCHANGED <<active, breaker>>
        BY <1>1, <1>3, <2>1, Same DEF Becomes, GoTo, registry
    <2> HIDE DEF w
    <2>4. RequestOK("second choice", l, w, cancelled[q], s, d)
        BY <1>2, <2>1, <2>2 DEF RequestOK, PathOK, LocalOK, AnswerOK, InOrder,
           AllPlaces, Places, RacePlaces, Chosen, Asking, Held, InIteration, Counted,
           BothCounted, WinnerCounted, FirstCounted, SecondCounted, HasWinner
    <2>5. \A t : Slots("second choice", l, w, t) = Slots(pc[q], local[q], race[q], t)
        BY <1>1, NoSlots DEF SlotPlaces, AllPlaces, Places, RacePlaces, Chosen, Asking,
           Held, InIteration, Counted, BothCounted, WinnerCounted, FirstCounted,
           SecondCounted, HasWinner
    <2>6. "second choice" \in AllPlaces
        BY DEF AllPlaces, RacePlaces
    <2> HIDE DEF l, s, d
    <2> QED
        BY <1>2, <2>2, <2>3, <2>4, <2>5, <2>6, BreakersKept, QuietStep
<1>4. CASE Return(q, "RESOURCE_EXHAUSTED") /\ UNCHANGED race
    <2>1. \A r : Slots(pc[q], local[q], race[q], r) = 0
        BY <1>1, NoSlots DEF SlotPlaces, AllPlaces, Places, RacePlaces, Chosen, Asking,
           Held, InIteration, Counted, BothCounted, WinnerCounted, FirstCounted,
           SecondCounted, HasWinner
    <2> QED
        BY <1>1, <1>4, <2>1, BreakersKept, ReturnStep DEF Statuses
<1> QED
    BY <1>3, <1>4 DEF SelectFirst

LEMMA SelectSecondStep ==
    ASSUME HedgeInv, NEW q \in Requests, SelectSecond(q), CountFreed
    PROVE  HedgeInv'
<1> DEFINE s == status[q]
           d == delivered[q]
<1>1. /\ pc[q] = "second choice"
      /\ UNCHANGED <<client, registry, breaker>>
    BY DEF SelectSecond
<1>2. /\ local[q] \in Locals /\ s \in Statuses /\ d \in Seq(Nat)
      /\ LocalOK("second choice", local[q], race[q]) /\ s = "none" /\ d = <<>>
      /\ race[q].sel[1] \in Replicas
      /\ race[q] \in Races /\ race \in [Requests -> Races]
      /\ local \in [Requests -> Locals]
    BY <1>1, Before DEF AnswerOK, PathOK, RacePlaces, HedgeInv, ThreadsTyped
<1>3. \A r : Slots(pc[q], local[q], race[q], r) = 0
    BY <1>1, NoSlots DEF SlotPlaces, AllPlaces, Places, RacePlaces, Chosen, Asking,
       Held, InIteration, Counted, BothCounted, WinnerCounted, FirstCounted,
       SecondCounted, HasWinner
<1>4. ASSUME NEW r \in Selectable(q), GoTo(q, "count first"), UNCHANGED local,
             race' = [race EXCEPT ![q].sel[2] = r, ![q].path = "race"]
      PROVE  HedgeInv'
    <2> DEFINE l == local[q]
               w == [race[q] EXCEPT !.sel[2] = r, !.path = "race"]
    <2>1. r \in Replicas
        BY DEF HedgeInv, RegistryTyped, Selectable
    <2>2. w \in Races /\ w.sel[1] = race[q].sel[1] /\ w.sel[2] = r /\ w.path = "race" /\ RaceOK(w)
        <3>1. /\ w.path = "race" /\ w.sel = [race[q].sel EXCEPT ![2] = r]
              /\ w.phase = race[q].phase /\ w.success = race[q].success
              /\ w.winner_set = race[q].winner_set /\ w.promise = race[q].promise
            BY <1>2 DEF Races
        <3>2. RaceOK(w)
            BY <3>1, Before DEF RaceOK
        <3>3. race[q].sel \in [Racers -> Replicas \cup {NoReplica}]
            BY <1>2 DEF Races
        <3>4. w.sel[1] = race[q].sel[1] /\ w.sel[2] = r
            BY <3>1, <3>3 DEF Racers
        <3>5. [race[q].sel EXCEPT ![2] = r] \in [Racers -> Replicas \cup {NoReplica}]
            BY <2>1, <3>3
        <3>6. w \in Races
            BY <1>2, <3>5 DEF Races, Paths
        <3> QED
            BY <3>1, <3>2, <3>4, <3>6
    <2>3. Becomes(q, "count first", l, w, s, d) /\ UNCHANGED <<active, breaker>>
        BY <1>1, <1>2, <1>4, Same DEF Becomes, GoTo, client, registry
    <2> HIDE DEF w
    <2>4. RequestOK("count first", l, w, cancelled[q], s, d)
        BY <1>2, <2>1, <2>2 DEF RequestOK, PathOK, LocalOK, AnswerOK, InOrder,
           AllPlaces, Places, RacePlaces, Chosen, Asking, Held, InIteration, Counted,
           BothCounted, WinnerCounted, FirstCounted, SecondCounted, HasWinner
    <2>5. \A t : Slots("count first", l, w, t) = Slots(pc[q], local[q], race[q], t)
        BY <1>3, NoSlots DEF SlotPlaces, AllPlaces, Places, RacePlaces, Chosen, Asking,
           Held, InIteration, Counted, BothCounted, WinnerCounted, FirstCounted,
           SecondCounted, HasWinner
    <2>6. "count first" \in AllPlaces
        BY DEF AllPlaces, RacePlaces
    <2> HIDE DEF l, s, d
    <2> QED
        BY <1>2, <2>2, <2>3, <2>4, <2>5, <2>6, BreakersKept, QuietStep DEF l
<1>5. CASE /\ race' = [race EXCEPT ![q].path = "single"]
           /\ local' = [local EXCEPT ![q].selection = race[q].sel[1]]
           /\ GoTo(q, "dispatch")
    <2> DEFINE l == [local[q] EXCEPT !.selection = race[q].sel[1]]
               w == [race[q] EXCEPT !.path = "single"]
    <2>1. w \in Races /\ w.path = "single" /\ RaceOK(w)
        BY <1>2, Before DEF Races, RaceOK, Paths
    <2>2. l \in Locals /\ l.selection \in Replicas /\ l.streamed = 0 /\ l.tokens_sent = 0
        BY <1>2 DEF Locals, LocalOK, RacePlaces
    <2>3. Becomes(q, "dispatch", l, w, s, d) /\ UNCHANGED <<active, breaker>>
        BY <1>1, <1>2, <1>5, Same DEF Becomes, GoTo, client, registry
    <2> HIDE DEF w, l
    <2>4. RequestOK("dispatch", l, w, cancelled[q], s, d)
        BY <1>2, <2>1, <2>2 DEF RequestOK, PathOK, LocalOK, AnswerOK, InOrder,
           AllPlaces, Places, RacePlaces, Chosen, Asking, Held, InIteration, Counted,
           BothCounted, WinnerCounted, FirstCounted, SecondCounted, HasWinner
    <2>5. \A t : Slots("dispatch", l, w, t) = Slots(pc[q], local[q], race[q], t)
        BY <1>3, NoSlots DEF SlotPlaces, AllPlaces, Places, RacePlaces, Chosen, Asking,
           Held, InIteration, Counted, BothCounted, WinnerCounted, FirstCounted,
           SecondCounted, HasWinner
    <2>6. "dispatch" \in AllPlaces
        BY DEF AllPlaces, Places
    <2> HIDE DEF s, d
    <2> QED
        BY <1>2, <2>1, <2>2, <2>3, <2>4, <2>5, <2>6, BreakersKept, QuietStep
<1> QED
    BY <1>4, <1>5 DEF SelectSecond

-----------------------------------------------------------------------------
(* The race                                                                *)

\* How many slots of r a request holds, place by place.
LEMMA CountedSlots == \A p, l, w, r : p \in Counted => Slots(p, l, w, r) = One(l.selection = r)
<1> SUFFICES ASSUME NEW p, NEW l, NEW w, NEW r, p \in Counted
             PROVE  Slots(p, l, w, r) = One(l.selection = r)
    OBVIOUS
<1>1. ~HoldsAt(p, w, 1) /\ ~HoldsAt(p, w, 2)
    BY DEF HoldsAt, Counted, BothCounted, WinnerCounted, FirstCounted, SecondCounted
<1> QED
    BY <1>1 DEF Slots, StreamSlot, RacerSlot, One

LEMMA BothSlots ==
    \A p, l, w, r :
        p \in BothCounted => Slots(p, l, w, r) = One(w.sel[1] = r) + One(w.sel[2] = r)
<1> SUFFICES ASSUME NEW p, NEW l, NEW w, NEW r, p \in BothCounted
             PROVE  Slots(p, l, w, r) = One(w.sel[1] = r) + One(w.sel[2] = r)
    OBVIOUS
<1>1. p \notin Counted /\ HoldsAt(p, w, 1) /\ HoldsAt(p, w, 2)
    BY DEF HoldsAt, Counted, BothCounted
<1> QED
    BY <1>1 DEF Slots, StreamSlot, RacerSlot, One

LEMMA FirstSlot ==
    \A p, l, w, r : p \in FirstCounted => Slots(p, l, w, r) = One(w.sel[1] = r)
<1> SUFFICES ASSUME NEW p, NEW l, NEW w, NEW r, p \in FirstCounted
             PROVE  Slots(p, l, w, r) = One(w.sel[1] = r)
    OBVIOUS
<1>1. p \notin Counted /\ HoldsAt(p, w, 1) /\ ~HoldsAt(p, w, 2)
    <2>1. p \notin Counted /\ p \notin BothCounted /\ p \notin WinnerCounted
          /\ p \notin SecondCounted
        BY DEF Counted, BothCounted, WinnerCounted, FirstCounted, SecondCounted
    <2> QED
        BY <2>1 DEF HoldsAt
<1> QED
    BY <1>1 DEF Slots, StreamSlot, RacerSlot, One

LEMMA SecondSlot ==
    \A p, l, w, r : p \in SecondCounted => Slots(p, l, w, r) = One(w.sel[2] = r)
<1> SUFFICES ASSUME NEW p, NEW l, NEW w, NEW r, p \in SecondCounted
             PROVE  Slots(p, l, w, r) = One(w.sel[2] = r)
    OBVIOUS
<1>1. p \notin Counted /\ ~HoldsAt(p, w, 1) /\ HoldsAt(p, w, 2)
    <2>1. p \notin Counted /\ p \notin BothCounted /\ p \notin WinnerCounted
          /\ p \notin FirstCounted
        BY DEF Counted, BothCounted, WinnerCounted, FirstCounted, SecondCounted
    <2> QED
        BY <2>1 DEF HoldsAt
<1> QED
    BY <1>1 DEF Slots, StreamSlot, RacerSlot, One

LEMMA WinnerSlot ==
    \A p, l, w, r :
        p \in WinnerCounted /\ w.winner_id \in Racers
            => Slots(p, l, w, r) = One(w.sel[w.winner_id] = r)
<1> SUFFICES ASSUME NEW p, NEW l, NEW w, NEW r, p \in WinnerCounted, w.winner_id \in Racers
             PROVE  Slots(p, l, w, r) = One(w.sel[w.winner_id] = r)
    OBVIOUS
<1>1. /\ p \notin Counted
      /\ HoldsAt(p, w, 1) <=> w.winner_id = 1
      /\ HoldsAt(p, w, 2) <=> w.winner_id = 2
    BY DEF HoldsAt, Counted, BothCounted, WinnerCounted, FirstCounted, SecondCounted
<1>2. CASE w.winner_id = 1
    BY <1>1, <1>2 DEF Slots, StreamSlot, RacerSlot, One
<1>3. CASE w.winner_id = 2
    BY <1>1, <1>3 DEF Slots, StreamSlot, RacerSlot, One
<1> QED
    BY <1>2, <1>3 DEF Racers

LEMMA NothingInOrder == InOrder(<<>>)
BY DEF InOrder

LEMMA NextInOrder ==
    ASSUME NEW d \in Seq(Nat), InOrder(d), NEW k, k = Len(d)
    PROVE  Append(d, k) \in Seq(Nat) /\ Len(Append(d, k)) = k + 1 /\ InOrder(Append(d,
       k))
<1> DEFINE e == Append(d, k)
<1>1. k \in Nat /\ e \in Seq(Nat) /\ Len(e) = k + 1
    OBVIOUS
<1>2. \A i \in 1 .. k : e[i] = d[i]
    OBVIOUS
<1>3. e[k + 1] = k
    OBVIOUS
<1>4. DOMAIN e = 1 .. (k + 1) /\ DOMAIN d = 1 .. k
    BY <1>1
<1>5. \A i \in 1 .. (k + 1) : e[i] = i - 1
    BY <1>1, <1>2, <1>3, <1>4 DEF InOrder
<1> HIDE DEF e
<1>6. e \in Seq(Nat) /\ Len(e) = k + 1 /\ InOrder(e)
    BY <1>1, <1>4, <1>5 DEF InOrder
<1> QED
    BY <1>6 DEF e

\* A step of one of the racers: nothing but the race itself is written to.
LEMMA RaceStep ==
    ASSUME HedgeInv, NEW q \in Requests, NEW w \in Races, RaceOK(w),
           race' = [race EXCEPT ![q] = w], UNCHANGED vars, CountFreed,
           w.sel = race[q].sel, w.path = race[q].path, w.winner_id = race[q].winner_id
    PROVE  HedgeInv'
<1> DEFINE p == pc[q]
           l == local[q]
           s == status[q]
           d == delivered[q]
<1>1. Becomes(q, p, l, w, s, d) /\ UNCHANGED <<active, breaker>>
    BY Same DEF Becomes, vars, client, registry
<1>2. p \in AllPlaces /\ l \in Locals /\ s \in Statuses /\ d \in Seq(Nat)
    BY Before
<1>3. RequestOK(p, l, w, cancelled[q], s, d)
    BY Before DEF RequestOK, PathOK, LocalOK, AnswerOK
<1>4. \A r : Slots(p, l, w, r) = Slots(p, l, race[q], r)
    BY DEF Slots, RacerSlot, HoldsAt
<1> HIDE DEF p, l, s, d
<1> QED
    BY <1>1, <1>2, <1>3, <1>4, BreakersKept, QuietStep DEF p, l

LEMMA RacerStep ==
    ASSUME HedgeInv, NEW q \in Requests, NEW i \in Racers,
           Reads(q, i) \/ Signals(q, i), CountFreed
    PROVE  HedgeInv'
<1>1. race[q] \in Races /\ race \in [Requests -> Races] /\ RaceOK(race[q])
    BY Before DEF HedgeInv, ThreadsTyped
<1>2. CASE ReadToken(q, i)
    <2> DEFINE w == [race[q] EXCEPT !.phase[i] = "read", !.success[i] = TRUE]
    <2>1. /\ w \in Races
          /\ w.phase = [race[q].phase EXCEPT ![i] = "read"]
          /\ w.success = [race[q].success EXCEPT ![i] = TRUE]
          /\ w.sel = race[q].sel /\ w.path = race[q].path /\ w.winner_id = race[q].winner_id
          /\ w.winner_set = race[q].winner_set /\ w.promise = race[q].promise
        BY <1>1 DEF Races, Phases
    <2>2. race' = [race EXCEPT ![q] = w] /\ UNCHANGED vars
        BY <1>1, <1>2 DEF ReadToken
    <2> HIDE DEF w
    <2>3. RaceOK(w)
        BY <1>1, <2>1 DEF RaceOK, Races, Racers, Other
    <2> QED
        BY <2>1, <2>2, <2>3, RaceStep
<1>3. CASE ReadFails(q, i)
    <2> DEFINE w == [race[q] EXCEPT !.phase[i] = "ended"]
    <2>1. /\ w \in Races
          /\ w.phase = [race[q].phase EXCEPT ![i] = "ended"]
          /\ w.success = race[q].success
          /\ w.sel = race[q].sel /\ w.path = race[q].path /\ w.winner_id = race[q].winner_id
          /\ w.winner_set = race[q].winner_set /\ w.promise = race[q].promise
        BY <1>1 DEF Races, Phases
    <2>2. race' = [race EXCEPT ![q] = w] /\ UNCHANGED vars
        BY <1>1, <1>3 DEF ReadFails
    <2> HIDE DEF w
    <2>3. RaceOK(w)
        BY <1>1, <2>1 DEF RaceOK, Races, Racers, Other
    <2> QED
        BY <2>1, <2>2, <2>3, RaceStep
<1>4. CASE Exchange(q, i)
    <2> DEFINE f == IF race[q].winner_set THEN "ended" ELSE "won"
               w == [race[q] EXCEPT !.phase[i] = f, !.winner_set = TRUE]
    <2>1. f \in Phases /\ race[q].phase[i] = "read"
        BY <1>4 DEF Phases, Exchange
    <2>2. race' = [race EXCEPT ![q] = w] /\ UNCHANGED vars
        BY <1>1, <1>4 DEF Exchange
    <2>3. f = "won" <=> ~race[q].winner_set
        BY <1>1 DEF Races
    <2> HIDE DEF f
    <2>4. /\ w \in Races
          /\ w.phase = [race[q].phase EXCEPT ![i] = f]
          /\ w.success = race[q].success
          /\ w.sel = race[q].sel /\ w.path = race[q].path /\ w.winner_id = race[q].winner_id
          /\ w.winner_set = TRUE /\ w.promise = race[q].promise
        BY <1>1, <2>1 DEF Races
    <2> HIDE DEF w
    <2>5. RaceOK(w)
        <3>1. race[q].phase \in [Racers -> Phases] /\ race[q].success[i]
            BY <1>1, <2>1 DEF Races, RaceOK
        <3>2. \A j \in Racers : j # i => w.phase[j] = race[q].phase[j]
            BY <2>4, <3>1
        <3>3. w.phase[i] = f
            BY <2>4, <3>1
        <3>4. ASSUME NEW j \in Racers, w.phase[j] = "won"
              PROVE  w.success[j] /\ w.promise = 0 /\ w.phase[Other(j)] # "won"
            <4>1. Other(j) \in Racers /\ Other(j) # j /\ (j # i => Other(j) = i)
                BY DEF Racers, Other
            <4>2. CASE j = i
                <5>1. ~race[q].winner_set
                    BY <2>3, <3>3, <3>4, <4>2
                <5> QED
                    BY <1>1, <2>4, <3>1, <3>2, <4>1, <4>2, <5>1 DEF RaceOK
            <4>3. CASE j # i
                <5>1. race[q].winner_set /\ race[q].phase[j] = "won"
                    BY <1>1, <3>2, <3>4, <4>3 DEF RaceOK
                <5> QED
                    BY <1>1, <2>3, <2>4, <3>3, <4>1, <4>3, <5>1 DEF RaceOK
            <4> QED
                BY <4>2, <4>3
        <3>5. \A j \in Racers : w.phase[j] = "read" => w.success[j]
            BY <1>1, <2>4, <3>1, <3>2 DEF RaceOK
        <3>6. w.promise # 0 => w.success[w.promise]
            BY <1>1, <2>4 DEF RaceOK
        <3> QED
            BY <2>4, <3>4, <3>5, <3>6 DEF RaceOK
    <2> QED
        BY <2>2, <2>4, <2>5, RaceStep
<1>5. CASE SetPromise(q, i)
    <2> DEFINE w == [race[q] EXCEPT !.phase[i] = "ended", !.promise = i]
    <2>1. /\ w \in Races
          /\ w.phase = [race[q].phase EXCEPT ![i] = "ended"]
          /\ w.success = race[q].success
          /\ w.sel = race[q].sel /\ w.path = race[q].path /\ w.winner_id = race[q].winner_id
          /\ w.winner_set = race[q].winner_set /\ w.promise = i
        BY <1>1 DEF Races, Phases
    <2>2. race' = [race EXCEPT ![q] = w] /\ UNCHANGED vars
        BY <1>1, <1>5 DEF SetPromise
    <2>3. race[q].phase[i] = "won" /\ race[q].phase \in [Racers -> Phases]
        BY <1>1, <1>5 DEF SetPromise, Races
    <2> HIDE DEF w
    <2>4. RaceOK(w)
        <3>1. /\ race[q].winner_set /\ race[q].success[i]
              /\ race[q].phase[Other(i)] # "won" /\ Other(i) \in Racers
            BY <1>1, <2>3 DEF RaceOK, Racers, Other
        <3>2. \A j \in Racers : w.phase[j] # "won"
            BY <2>1, <2>3, <3>1 DEF Racers, Other
        <3>3. \A j \in Racers : w.phase[j] = "read" => w.success[j]
            BY <1>1, <2>1, <2>3 DEF RaceOK
        <3> QED
            BY <2>1, <3>1, <3>2, <3>3 DEF RaceOK
    <2> QED
        BY <2>1, <2>2, <2>4, RaceStep
<1> QED
    BY <1>2, <1>3, <1>4, <1>5 DEF Reads, Signals

-----------------------------------------------------------------------------
(* InferHedged's thread around the race                                    *)

\* Between these places the thread moves without touching a slot: the replicas
\* have been chosen, and nothing has been written to the client.
LEMMA OnTheWay ==
    ASSUME HedgeInv, NEW q \in Requests, pc[q] \in Chosen
    PROVE  /\ race[q].sel[1] \in Replicas /\ race[q].sel[2] \in Replicas
           /\ race[q].path = "race" /\ race[q] \in Races
           /\ local[q].streamed = 0 /\ local[q].tokens_sent = 0 /\ local[q] \in Locals
           /\ status[q] = "none" /\ delivered[q] = <<>>
           /\ pc[q] \in HasWinner => race[q].winner_id \in Racers
<1>1. pc[q] # "done" /\ pc[q] \in RacePlaces
    BY DEF RacePlaces, Chosen
<1> QED
    BY <1>1, Before DEF PathOK, LocalOK, AnswerOK

\* At the next of these places the request is still fit.
LEMMA StillOnTheWay ==
    ASSUME HedgeInv, NEW q \in Requests, pc[q] \in Chosen,
           NEW p \in Chosen,
           p \in HasWinner => race[q].winner_id \in Racers
    PROVE  /\ p \in AllPlaces
           /\ PathOK(p, race[q])
           /\ LocalOK(p, local[q], race[q])
           /\ AnswerOK(p, local[q], race[q], cancelled[q], status[q], delivered[q])
<1>1. /\ p \in AllPlaces /\ p # "done" /\ p \notin Asking /\ p \notin Held \cup {"admit"}
      /\ p \notin InIteration /\ p \notin {"dispatch", "stream", "loop"}
    BY DEF AllPlaces, Places, RacePlaces, Chosen, Asking, Held, InIteration, Counted,
       BothCounted, WinnerCounted, FirstCounted, SecondCounted, HasWinner
<1>2. PathOK(p, race[q])
    BY <1>1, OnTheWay DEF PathOK
<1>3. LocalOK(p, local[q], race[q])
    BY <1>1, OnTheWay DEF LocalOK
<1>4. AnswerOK(p, local[q], race[q], cancelled[q], status[q], delivered[q])
    BY <1>1, OnTheWay, NothingInOrder DEF AnswerOK
<1> QED
    BY <1>1, <1>2, <1>3, <1>4

LEMMA CountFirstStep ==
    ASSUME HedgeInv, NEW q \in Requests, CountFirst(q), CountFreed
    PROVE  HedgeInv'
<1> DEFINE l == local[q]
           w == race[q]
           s == status[q]
           d == delivered[q]
           p == "count second"
           r == race[q].sel[1]
<1>1. p \in Chosen /\ p \notin HasWinner /\ p \in FirstCounted
      /\ pc[q] \in Chosen /\ pc[q] \notin SlotPlaces
    BY DEF CountFirst, Count, SlotPlaces, AllPlaces, Places, RacePlaces, Chosen, Asking,
       Held, InIteration, Counted, BothCounted, WinnerCounted, FirstCounted,
       SecondCounted, HasWinner
<1>2. /\ active' = [active EXCEPT ![r] = @ + 1]
      /\ UNCHANGED breaker
      /\ Becomes(q, p, l, w, s, d)
    BY Same DEF CountFirst, Count, Becomes, GoTo, client
<1>3. l \in Locals /\ w \in Races /\ s \in Statuses /\ d \in Seq(Nat) /\ r \in Replicas
    BY <1>1, Before, OnTheWay
<1>4. p \in AllPlaces /\ RequestOK(p, l, w, cancelled[q], s, d)
    BY <1>1, Before, StillOnTheWay DEF RequestOK
<1>5. \A t : Slots(p, l, w, t) = Slots(pc[q], local[q], race[q], t) + One(t = r)
    <2> HIDE DEF p, l, w
    <2>1. \A t : Slots(pc[q], local[q], race[q], t) = 0
        BY <1>1, NoSlots
    <2> QED
        BY <1>1, <2>1, FirstSlot DEF One, w
<1> HIDE DEF l, w, s, d, p, r
<1> QED
    BY <1>2, <1>3, <1>4, <1>5, TakeStep

LEMMA CountSecondStep ==
    ASSUME HedgeInv, NEW q \in Requests, CountSecond(q), CountFreed
    PROVE  HedgeInv'
<1> DEFINE l == local[q]
           ph == [i \in Racers |-> "reading"]
           w == [race[q] EXCEPT !.phase = ph]
           s == status[q]
           d == delivered[q]
           p == "race"
           r == race[q].sel[2]
<1>1. p \in Chosen /\ p \notin HasWinner /\ p \in BothCounted
      /\ pc[q] \in Chosen /\ pc[q] \in FirstCounted
    BY DEF CountSecond, Count, AllPlaces, Places, RacePlaces, Chosen, Asking, Held,
       InIteration, Counted, BothCounted, WinnerCounted, FirstCounted, SecondCounted,
       HasWinner
<1>2. l \in Locals /\ race[q] \in Races /\ s \in Statuses /\ d \in Seq(Nat) /\ r \in Replicas
      /\ race \in [Requests -> Races] /\ RaceOK(race[q])
    BY <1>1, Before, OnTheWay DEF HedgeInv, ThreadsTyped
<1>3. ph \in [Racers -> Phases] /\ \A i \in Racers : ph[i] = "reading"
    BY DEF Phases
<1>4. /\ w \in Races /\ w.phase = ph
      /\ w.sel = race[q].sel /\ w.path = race[q].path /\ w.winner_id = race[q].winner_id
      /\ w.winner_set = race[q].winner_set /\ w.promise = race[q].promise
      /\ w.success = race[q].success
    BY <1>2, <1>3 DEF Races
<1>5. RaceOK(w)
    BY <1>2, <1>3, <1>4 DEF RaceOK
<1>6. /\ active' = [active EXCEPT ![r] = @ + 1]
      /\ UNCHANGED breaker
      /\ Becomes(q, p, l, w, s, d)
    BY <1>2, Same DEF CountSecond, Count, Becomes, GoTo, client
<1>7. p \in AllPlaces /\ RequestOK(p, l, w, cancelled[q], s, d)
    BY <1>1, <1>4, <1>5, StillOnTheWay DEF RequestOK, PathOK, LocalOK, AnswerOK
<1>8. \A t : Slots(p, l, w, t) = Slots(pc[q], local[q], race[q], t) + One(t = r)
    <2> HIDE DEF w, p, l
    <2> QED
        BY <1>1, <1>4, FirstSlot, BothSlots DEF One
<1> HIDE DEF l, ph, w, s, d, p, r
<1> QED
    BY <1>2, <1>4, <1>6, <1>7, <1>8, TakeStep

LEMMA WaitStep ==
    ASSUME HedgeInv, NEW q \in Requests, WaitForWinner(q), CountFreed
    PROVE  HedgeInv'
<1> DEFINE l == local[q]
           w == [race[q] EXCEPT !.winner_id = race[q].promise]
           s == status[q]
           d == delivered[q]
           p == "join"
<1>1. p \in Chosen /\ p \notin HasWinner /\ p \in BothCounted
      /\ pc[q] \in Chosen /\ pc[q] \in BothCounted
    BY DEF WaitForWinner, AllPlaces, Places, RacePlaces, Chosen, Asking, Held,
       InIteration, Counted, BothCounted, WinnerCounted, FirstCounted, SecondCounted,
       HasWinner
<1>2. l \in Locals /\ race[q] \in Races /\ s \in Statuses /\ d \in Seq(Nat)
      /\ race \in [Requests -> Races] /\ RaceOK(race[q])
    BY <1>1, Before DEF HedgeInv, ThreadsTyped
<1>3. /\ w \in Races
      /\ w.sel = race[q].sel /\ w.path = race[q].path /\ w.phase = race[q].phase
      /\ w.winner_set = race[q].winner_set /\ w.promise = race[q].promise
      /\ w.success = race[q].success
    BY <1>2 DEF Races
<1>4. RaceOK(w)
    BY <1>2, <1>3 DEF RaceOK
<1>5. Becomes(q, p, l, w, s, d) /\ UNCHANGED <<active, breaker>>
    BY <1>2, Same DEF WaitForWinner, Becomes, GoTo, client, registry
<1>6. p \in AllPlaces /\ RequestOK(p, l, w, cancelled[q], s, d)
    BY <1>1, <1>3, <1>4, StillOnTheWay DEF RequestOK, PathOK, LocalOK, AnswerOK
<1> HIDE DEF p, w
<1>7. \A t : Slots(p, l, w, t) = Slots(pc[q], local[q], race[q], t)
    BY <1>1, <1>3, BothSlots DEF One
<1> HIDE DEF l, w, s, d, p
<1> QED
    BY <1>2, <1>3, <1>5, <1>6, <1>7, BreakersKept, QuietStep

LEMMA JoinStep ==
    ASSUME HedgeInv, NEW q \in Requests, JoinRacers(q), CountFreed
    PROVE  HedgeInv'
<1> DEFINE p == IF race[q].winner_id = 0 THEN "drop first" ELSE "drop loser"
<1>1. /\ pc[q] = "join" /\ GoTo(q, p)
      /\ UNCHANGED <<local, race, client, registry, breaker>>
    BY DEF JoinRacers
<1>2. pc[q] \in Chosen /\ pc[q] \in BothCounted
    BY <1>1 DEF RacePlaces, BothCounted, Chosen
<1>3. p \in Chosen /\ p \in BothCounted
    BY DEF RacePlaces, BothCounted, Chosen
<1>4. p \in HasWinner => race[q].winner_id \in Racers
    <2>1. race[q].winner_id \in {0} \cup Racers
        BY <1>2, OnTheWay DEF Races
    <2> QED
        BY <2>1 DEF WinnerCounted, HasWinner
<1> HIDE DEF p
<1>5. /\ p \in AllPlaces
      /\ PathOK(p, race[q])
      /\ LocalOK(p, local[q], race[q])
      /\ AnswerOK(p, local[q], race[q], cancelled[q], status[q], delivered[q])
    BY <1>2, <1>3, <1>4, StillOnTheWay
<1>6. \A t : Slots(p, local[q], race[q], t) = Slots(pc[q], local[q], race[q], t)
    BY <1>2, <1>3, BothSlots DEF One
<1> QED
    BY <1>1, <1>5, <1>6, MoveStep

\* A step of the thread that gives a slot back, between two of these places.
LEMMA DropStep ==
    ASSUME HedgeInv, NEW q \in Requests, pc[q] \in Chosen, NEW p \in Chosen,
           p \in HasWinner => race[q].winner_id \in Racers,
           NEW i \in Racers, Uncount(q, race[q].sel[i], pc[q], p), UNCHANGED race, CountFreed,
           \A t : Slots(p, local[q], race[q], t) + One(t = race[q].sel[i])
                      = Slots(pc[q], local[q], race[q], t)
    PROVE  HedgeInv'
<1> DEFINE l == local[q]
           w == race[q]
           s == status[q]
           d == delivered[q]
           r == race[q].sel[i]
<1>1. /\ active' = [active EXCEPT ![r] = @ - 1]
      /\ UNCHANGED breaker
      /\ Becomes(q, p, l, w, s, d)
    BY Same DEF Uncount, Becomes, GoTo, client
<1>2. l \in Locals /\ w \in Races /\ s \in Statuses /\ d \in Seq(Nat)
    BY Before
<1>3. r \in Replicas
    BY OnTheWay DEF Racers
<1>4. p \in AllPlaces /\ RequestOK(p, l, w, cancelled[q], s, d)
    BY Before, StillOnTheWay DEF RequestOK
<1>5. \A t : Slots(p, l, w, t) + One(t = r) = Slots(pc[q], local[q], race[q], t)
    OBVIOUS
<1> HIDE DEF l, w, s, d, r
<1> QED
    BY <1>1, <1>2, <1>3, <1>4, <1>5, GiveStep

LEMMA DropFirstStep ==
    ASSUME HedgeInv, NEW q \in Requests, DropFirst(q), CountFreed
    PROVE  HedgeInv'
<1> DEFINE p == "drop second"
<1>1. Uncount(q, race[q].sel[1], pc[q], p) /\ UNCHANGED race
    BY DEF DropFirst, Uncount
<1>2. pc[q] \in Chosen /\ pc[q] \in BothCounted
    BY DEF DropFirst, Uncount, AllPlaces, Places, RacePlaces, Chosen, Asking, Held,
       InIteration, Counted, BothCounted, WinnerCounted, FirstCounted, SecondCounted,
       HasWinner
<1>3. p \in Chosen /\ p \notin HasWinner /\ p \in SecondCounted
    BY DEF AllPlaces, Places, RacePlaces, Chosen, Asking, Held, InIteration, Counted,
       BothCounted, WinnerCounted, FirstCounted, SecondCounted, HasWinner
<1> HIDE DEF p
<1>4. \A t : Slots(p, local[q], race[q], t) + One(t = race[q].sel[1])
                 = Slots(pc[q], local[q], race[q], t)
    BY <1>2, <1>3, BothSlots, SecondSlot DEF One
<1> QED
    BY <1>1, <1>2, <1>3, <1>4, DropStep DEF Racers

LEMMA DropSecondStep ==
    ASSUME HedgeInv, NEW q \in Requests, DropSecond(q), CountFreed
    PROVE  HedgeInv'
<1> DEFINE p == "notify twice"
<1>1. Uncount(q, race[q].sel[2], pc[q], p) /\ UNCHANGED race
    BY DEF DropSecond, Uncount
<1>2. pc[q] \in Chosen /\ pc[q] \in SecondCounted
    BY DEF DropSecond, Uncount, AllPlaces, Places, RacePlaces, Chosen, Asking, Held,
       InIteration, Counted, BothCounted, WinnerCounted, FirstCounted, SecondCounted,
       HasWinner
<1>3. p \in Chosen /\ p \notin HasWinner /\ p \notin SlotPlaces
    BY DEF SlotPlaces, AllPlaces, Places, RacePlaces, Chosen, Asking, Held, InIteration,
       Counted, BothCounted, WinnerCounted, FirstCounted, SecondCounted, HasWinner
<1> HIDE DEF p
<1>4. \A t : Slots(p, local[q], race[q], t) + One(t = race[q].sel[2])
                 = Slots(pc[q], local[q], race[q], t)
    BY <1>2, <1>3, NoSlots, SecondSlot DEF One
<1> QED
    BY <1>1, <1>2, <1>3, <1>4, DropStep DEF Racers

LEMMA DropLoserStep ==
    ASSUME HedgeInv, NEW q \in Requests, DropLoser(q), CountFreed
    PROVE  HedgeInv'
<1> DEFINE p == "notify loser"
           i == Other(race[q].winner_id)
<1>1. Uncount(q, race[q].sel[i], pc[q], p) /\ UNCHANGED race
    BY DEF DropLoser, Uncount, Loser
<1>2. pc[q] \in Chosen /\ pc[q] \in BothCounted /\ pc[q] \in HasWinner
    BY DEF DropLoser, Uncount, AllPlaces, Places, RacePlaces, Chosen, Asking, Held,
       InIteration, Counted, BothCounted, WinnerCounted, FirstCounted, SecondCounted,
       HasWinner
<1>3. p \in Chosen /\ p \in WinnerCounted
    BY DEF AllPlaces, Places, RacePlaces, Chosen, Asking, Held, InIteration, Counted,
       BothCounted, WinnerCounted, FirstCounted, SecondCounted, HasWinner
<1>4. race[q].winner_id \in Racers
    BY <1>2, OnTheWay
<1>5. i \in Racers
    BY <1>4 DEF Racers, Other
<1> HIDE DEF p
<1>6. \A t : Slots(p, local[q], race[q], t) + One(t = race[q].sel[i])
                 = Slots(pc[q], local[q], race[q], t)
    <2>1. \A t : Slots(p, local[q], race[q], t) = One(race[q].sel[race[q].winner_id] = t)
        BY <1>3, <1>4, WinnerSlot
    <2>2. \A t : Slots(pc[q], local[q], race[q], t)
                     = One(race[q].sel[1] = t) + One(race[q].sel[2] = t)
        BY <1>2, BothSlots
    <2>3. CASE race[q].winner_id = 1
        BY <2>1, <2>2, <2>3 DEF Other, One
    <2>4. CASE race[q].winner_id = 2
        BY <2>1, <2>2, <2>4 DEF Other, One
    <2> QED
        BY <1>4, <2>3, <2>4 DEF Racers
<1> HIDE DEF i
<1> QED
    BY <1>1, <1>2, <1>3, <1>4, <1>5, <1>6, DropStep

\* The counters are exact as long as the threads and the counters stay put.
LEMMA CountersKept ==
    ASSUME RaceCountsExact, pc' = pc, local' = local, race' = race, active' = active
    PROVE  RaceCountsExact'
<1>1. ASSUME NEW r
      PROVE  OnReplica(r)' = OnReplica(r) /\ RacingOn(r)' = RacingOn(r)
    <2>1. OnReplica(r)' = OnReplica(r)
        BY DEF OnReplica
    <2>2. RacingOn(r)' = RacingOn(r)
        BY DEF RacingOn, HoldsSlot
    <2> QED
        BY <2>1, <2>2
<1> QED
    BY <1>1 DEF RaceCountsExact

\* A step that neither the thread's variables nor the registry nor a breaker
\* takes part in: a notification serves one of the queue's waiters, a wait ends.
LEMMA QueueStep ==
    ASSUME HedgeInv, UNCHANGED <<pc, local, race, client, registry, breaker>>, CountFreed
    PROVE  HedgeInv'
<1>1. /\ pc' = pc /\ local' = local /\ race' = race /\ cancelled' = cancelled
      /\ status' = status /\ delivered' = delivered
      /\ alive' = alive /\ active' = active /\ breaker' = breaker
    BY DEF client, registry
<1>2. ThreadsTyped' /\ BreakersSound' /\ RequestsOK'
    BY <1>1 DEF HedgeInv, ThreadsTyped, BreakersSound, RequestsOK
<1>3. RegistryTyped'
    BY <1>1, FreedCounts DEF HedgeInv, RegistryTyped
<1>4. RaceCountsExact'
    BY <1>1, CountersKept DEF HedgeInv
<1> QED
    BY <1>2, <1>3, <1>4 DEF HedgeInv

LEMMA NotifyStep ==
    ASSUME HedgeInv, NEW q \in Requests, pc[q] \in Chosen, NEW p \in Chosen,
           p \in HasWinner => race[q].winner_id \in Racers,
           NotifyFor(q, pc[q], p), UNCHANGED race, CountFreed,
           \A t : Slots(p, local[q], race[q], t) = Slots(pc[q], local[q], race[q], t)
    PROVE  HedgeInv'
<1>1. CASE UNCHANGED pc
    BY <1>1, QueueStep DEF NotifyFor
<1>2. CASE GoTo(q, p)
    BY <1>2, StillOnTheWay, MoveStep DEF NotifyFor
<1> QED
    BY <1>1, <1>2 DEF NotifyFor

LEMMA NotifyBothStep ==
    ASSUME HedgeInv, NEW q \in Requests, NotifyBoth(q), CountFreed
    PROVE  HedgeInv'
<1>1. ASSUME NEW p \in {"notify again", "lost"}, NotifyFor(q, pc[q], p),
             pc[q] \in {"notify twice", "notify again"}
      PROVE  HedgeInv'
    <2>1. pc[q] \in Chosen /\ pc[q] \notin SlotPlaces
        BY <1>1 DEF SlotPlaces, AllPlaces, Places, RacePlaces, Chosen, Asking, Held,
           InIteration, Counted, BothCounted, WinnerCounted, FirstCounted,
           SecondCounted, HasWinner
    <2>2. p \in Chosen /\ p \notin HasWinner /\ p \notin SlotPlaces
        BY <1>1 DEF SlotPlaces, AllPlaces, Places, RacePlaces, Chosen, Asking, Held,
           InIteration, Counted, BothCounted, WinnerCounted, FirstCounted,
           SecondCounted, HasWinner
    <2>3. \A t : Slots(p, local[q], race[q], t) = Slots(pc[q], local[q], race[q], t)
        BY <2>1, <2>2, NoSlots
    <2> QED
        BY <1>1, <2>1, <2>2, <2>3, NotifyStep DEF NotifyBoth
<1>2. \E p \in {"notify again", "lost"} : NotifyFor(q, pc[q], p)
    BY DEF NotifyBoth, NotifyFor
<1> QED
    BY <1>1, <1>2 DEF NotifyBoth, NotifyFor

LEMMA NotifyLoserStep ==
    ASSUME HedgeInv, NEW q \in Requests, NotifyLoser(q), CountFreed
    PROVE  HedgeInv'
<1> DEFINE p == "record winner"
<1>1. NotifyFor(q, pc[q], p) /\ UNCHANGED race
    BY DEF NotifyLoser, NotifyFor
<1>2. pc[q] \in Chosen /\ pc[q] \in WinnerCounted /\ pc[q] \in HasWinner
    BY DEF NotifyLoser, NotifyFor, AllPlaces, Places, RacePlaces, Chosen, Asking, Held,
       InIteration, Counted, BothCounted, WinnerCounted, FirstCounted, SecondCounted,
       HasWinner
<1>3. p \in Chosen /\ p \in WinnerCounted
    BY DEF AllPlaces, Places, RacePlaces, Chosen, Asking, Held, InIteration, Counted,
       BothCounted, WinnerCounted, FirstCounted, SecondCounted, HasWinner
<1>4. race[q].winner_id \in Racers
    BY <1>2, OnTheWay
<1> HIDE DEF p
<1>5. \A t : Slots(p, local[q], race[q], t) = Slots(pc[q], local[q], race[q], t)
    BY <1>2, <1>3, <1>4, WinnerSlot
<1> QED
    BY <1>1, <1>2, <1>3, <1>4, <1>5, NotifyStep

LEMMA ReturnLostStep ==
    ASSUME HedgeInv, NEW q \in Requests, ReturnLost(q), CountFreed
    PROVE  HedgeInv'
<1>1. pc[q] \in Chosen /\ pc[q] \notin SlotPlaces
    BY DEF ReturnLost, SlotPlaces, AllPlaces, Places, RacePlaces, Chosen, Asking, Held,
       InIteration, Counted, BothCounted, WinnerCounted, FirstCounted, SecondCounted,
       HasWinner
<1>2. \A r : Slots(pc[q], local[q], race[q], r) = 0
    BY <1>1, NoSlots
<1>3. delivered[q] = <<>>
    BY <1>1, OnTheWay
<1> QED
    BY <1>2, <1>3, BreakersKept, ReturnStep DEF ReturnLost, Statuses

-----------------------------------------------------------------------------
(* The winner's stream                                                     *)

\* Recording a success between two of the places where the winner has a slot.
LEMMA SuccessStep ==
    ASSUME HedgeInv, NEW q \in Requests, pc[q] \in Chosen, pc[q] \in WinnerCounted,
           NEW p \in Chosen, p \in WinnerCounted, NEW i \in Racers,
           Success(q, race[q].sel[i], pc[q], p), CountFreed
    PROVE  HedgeInv'
<1> DEFINE l == local[q]
           w == race[q]
           s == status[q]
           d == delivered[q]
           r == race[q].sel[i]
<1>1. race[q].winner_id \in Racers
    BY OnTheWay DEF HasWinner
<1>2. r \in Replicas
    BY OnTheWay DEF Racers
<1>3. BreakersSound'
    <2>1. Sound(breaker[r])
        BY <1>2 DEF HedgeInv, BreakersSound
    <2>2. Sound(AfterRecordSuccess(breaker[r]))
        BY <2>1, SuccessSound
    <2>3. breaker' = [breaker EXCEPT ![r] = AfterRecordSuccess(breaker[r])]
        BY DEF Success
    <2> HIDE DEF r
    <2> QED
        BY <1>2, <2>2, <2>3, BreakerAsked
<1>4. Becomes(q, p, l, w, s, d) /\ UNCHANGED active
    BY Same DEF Success, Becomes, GoTo, client, registry
<1>5. l \in Locals /\ w \in Races /\ s \in Statuses /\ d \in Seq(Nat)
    BY Before
<1>6. p \in AllPlaces /\ RequestOK(p, l, w, cancelled[q], s, d)
    BY <1>1, Before, StillOnTheWay DEF RequestOK
<1>7. \A t : Slots(p, l, w, t) = Slots(pc[q], local[q], race[q], t)
    BY <1>1, WinnerSlot
<1> HIDE DEF l, w, s, d
<1> QED
    BY <1>3, <1>4, <1>5, <1>6, <1>7, QuietStep

LEMMA RecordWinnerStep ==
    ASSUME HedgeInv, NEW q \in Requests, RecordWinner(q), CountFreed
    PROVE  HedgeInv'
<1> DEFINE p == IF race[q].success[Other(race[q].winner_id)] THEN "record loser" ELSE "first token"
           i == race[q].winner_id
<1>1. Success(q, race[q].sel[i], pc[q], p)
    BY DEF RecordWinner, Success, Winner
<1>2. pc[q] \in Chosen /\ pc[q] \in WinnerCounted /\ pc[q] \in HasWinner
    BY DEF RecordWinner, Success, AllPlaces, Places, RacePlaces, Chosen, Asking, Held,
       InIteration, Counted, BothCounted, WinnerCounted, FirstCounted, SecondCounted,
       HasWinner
<1>3. p \in Chosen /\ p \in WinnerCounted
    BY DEF AllPlaces, Places, RacePlaces, Chosen, Asking, Held, InIteration, Counted,
       BothCounted, WinnerCounted, FirstCounted, SecondCounted, HasWinner
<1>4. i \in Racers
    BY <1>2, OnTheWay
<1> HIDE DEF p, i
<1> QED
    BY <1>1, <1>2, <1>3, <1>4, SuccessStep

LEMMA RecordLoserStep ==
    ASSUME HedgeInv, NEW q \in Requests, RecordLoser(q), CountFreed
    PROVE  HedgeInv'
<1> DEFINE p == "first token"
           i == Other(race[q].winner_id)
<1>1. Success(q, race[q].sel[i], pc[q], p)
    BY DEF RecordLoser, Success, Loser
<1>2. pc[q] \in Chosen /\ pc[q] \in WinnerCounted /\ pc[q] \in HasWinner
    BY DEF RecordLoser, Success, AllPlaces, Places, RacePlaces, Chosen, Asking, Held,
       InIteration, Counted, BothCounted, WinnerCounted, FirstCounted, SecondCounted,
       HasWinner
<1>3. p \in Chosen /\ p \in WinnerCounted
    BY DEF AllPlaces, Places, RacePlaces, Chosen, Asking, Held, InIteration, Counted,
       BothCounted, WinnerCounted, FirstCounted, SecondCounted, HasWinner
<1>4. i \in Racers
    BY <1>2, OnTheWay DEF Racers, Other
<1> HIDE DEF p, i
<1> QED
    BY <1>1, <1>2, <1>3, <1>4, SuccessStep

\* The winner's slot becomes the slot of the request's stream, and the client
\* has been sent what the stream counts.
LEMMA WriteFirstStep ==
    ASSUME HedgeInv, NEW q \in Requests, WriteFirst(q), CountFreed
    PROVE  HedgeInv'
<1> DEFINE l == [local[q] EXCEPT !.selection = Winner(q), !.streamed = 1]
           w == race[q]
           s == status[q]
           d == IF cancelled[q] THEN delivered[q] ELSE Append(delivered[q], 0)
           p == "stream"
<1>1. pc[q] \in Chosen /\ pc[q] \in WinnerCounted /\ pc[q] \in HasWinner
    BY DEF WriteFirst, AllPlaces, Places, RacePlaces, Chosen, Asking, Held, InIteration,
       Counted, BothCounted, WinnerCounted, FirstCounted, SecondCounted, HasWinner
<1>2. /\ w \in Races /\ w.path = "race" /\ s = "none" /\ delivered[q] = <<>>
      /\ local[q] \in Locals /\ local[q].tokens_sent = 0
      /\ w.winner_id \in Racers /\ RaceOK(w)
      /\ local \in [Requests -> Locals] /\ delivered \in [Requests -> Seq(Nat)]
    BY <1>1, OnTheWay, Before DEF HedgeInv, ThreadsTyped
<1>3. Winner(q) \in Replicas
    BY <1>1, <1>2, OnTheWay DEF Winner, Racers
<1>4. l \in Locals /\ l.selection = Winner(q) /\ l.streamed = 1 /\ l.tokens_sent = 0
    BY <1>2, <1>3 DEF Locals
<1>5. d \in Seq(Nat) /\ InOrder(d) /\ (~cancelled[q] => Len(d) = 1)
    <2>1. CASE cancelled[q]
        BY <1>2, <2>1, NothingInOrder
    <2>2. CASE ~cancelled[q]
        <3>1. d = Append(delivered[q], 0) /\ 0 = Len(delivered[q])
            BY <1>2, <2>2
        <3>2. /\ Append(delivered[q], 0) \in Seq(Nat) /\ InOrder(Append(delivered[q], 0))
              /\ Len(Append(delivered[q], 0)) = 0 + 1
            BY <1>2, <3>1, NothingInOrder, NextInOrder
        <3> QED
            BY <3>1, <3>2
    <2> QED
        BY <2>1, <2>2
<1>6. Becomes(q, p, l, w, s, d) /\ UNCHANGED <<active, breaker>>
    BY <1>2, Same DEF WriteFirst, Becomes, GoTo, registry
<1>7. /\ p \in AllPlaces /\ p \in Held /\ p \in Counted /\ p = "stream"
      /\ p \notin Asking /\ p \notin RacePlaces /\ p \notin Chosen \cup {"second choice"}
      /\ p \notin HasWinner
    BY DEF AllPlaces, Places, RacePlaces, Chosen, Asking, Held, InIteration, Counted,
       BothCounted, WinnerCounted, FirstCounted, SecondCounted, HasWinner
<1>8. s \in Statuses
    BY Before
<1> HIDE DEF l, w, d, s
<1>9. RequestOK(p, l, w, cancelled[q], s, d)
    <2>1. PathOK(p, w)
        BY <1>7 DEF PathOK
    <2>2. LocalOK(p, l, w)
        BY <1>2, <1>3, <1>4, <1>7 DEF LocalOK
    <2>3. AnswerOK(p, l, w, cancelled[q], s, d)
        BY <1>2, <1>4, <1>5, <1>7 DEF AnswerOK
    <2> QED
        BY <1>2, <2>1, <2>2, <2>3 DEF RequestOK
<1> HIDE DEF p
<1>10. \A t : Slots(p, l, w, t) = Slots(pc[q], local[q], race[q], t)
    <2>1. \A t : Slots(p, l, w, t) = One(l.selection = t)
        BY <1>7, CountedSlots
    <2>2. \A t : Slots(pc[q], local[q], race[q], t) = One(Winner(q) = t)
        BY <1>1, <1>2, WinnerSlot DEF Winner, w
    <2> QED
        BY <1>4, <2>1, <2>2
<1> QED
    BY <1>2, <1>4, <1>5, <1>6, <1>7, <1>8, <1>9, <1>10, BreakersKept, QuietStep

LEMMA ReturnWonStep ==
    ASSUME HedgeInv, NEW q \in Requests, ReturnWon(q), CountFreed
    PROVE  HedgeInv'
<1>1. pc[q] \notin SlotPlaces
    BY DEF ReturnWon, SlotPlaces, AllPlaces, Places, RacePlaces, Chosen, Asking, Held,
       InIteration, Counted, BothCounted, WinnerCounted, FirstCounted, SecondCounted,
       HasWinner
<1>2. \A r : Slots(pc[q], local[q], race[q], r) = 0
    BY <1>1, NoSlots
<1> QED
    BY <1>2, BreakersKept, ReturnStep DEF ReturnWon, Statuses

LEMMA ReturnSingleStep ==
    ASSUME HedgeInv, NEW q \in Requests, ReturnSingle(q), CountFreed
    PROVE  HedgeInv'
<1> DEFINE r == local[q].selection
<1>1. pc[q] \notin SlotPlaces /\ pc[q] \in Held
    BY DEF ReturnSingle, SlotPlaces, AllPlaces, Places, RacePlaces, Chosen, Asking,
       Held, InIteration, Counted, BothCounted, WinnerCounted, FirstCounted,
       SecondCounted, HasWinner
<1>2. \A t : Slots(pc[q], local[q], race[q], t) = 0
    BY <1>1, NoSlots
<1>3. r \in Replicas
    BY <1>1, Before DEF LocalOK
<1>4. Sound(breaker[r])
    BY <1>3 DEF HedgeInv, BreakersSound
<1>5. BreakersSound'
    <2>1. CASE breaker' = [breaker EXCEPT ![r] = AfterRecordSuccess(breaker[r])]
        <3>1. Sound(AfterRecordSuccess(breaker[r]))
            BY <1>4, SuccessSound
        <3> HIDE DEF r
        <3> QED
            BY <1>3, <2>1, <3>1, BreakerAsked
    <2>2. CASE breaker' = [breaker EXCEPT ![r] = AfterRecordFailure(breaker[r])]
        <3>1. Sound(AfterRecordFailure(breaker[r]))
            BY <1>4, FailureSound
        <3> HIDE DEF r
        <3> QED
            BY <1>3, <2>2, <3>1, BreakerAsked
    <2> QED
        BY <2>1, <2>2 DEF ReturnSingle
<1>6. race[q].path # "race"
    BY DEF ReturnSingle
<1> QED
    BY <1>2, <1>5, <1>6, ReturnStep DEF ReturnSingle, Statuses

LEMMA InferHedgedStep ==
    ASSUME HedgeInv, NEW q \in Requests, InferHedged(q), CountFreed
    PROVE  HedgeInv'
BY EnterStep, SelectFirstStep, SelectSecondStep, CountFirstStep, CountSecondStep,
   WaitStep,
   JoinStep, DropFirstStep, DropSecondStep, NotifyBothStep, ReturnLostStep, DropLoserStep,
   NotifyLoserStep, RecordWinnerStep, RecordLoserStep, WriteFirstStep, ReturnWonStep,
   ReturnSingleStep DEF InferHedged

-----------------------------------------------------------------------------
(* Infer                                                                   *)

\* continue: attempts are left, so the next iteration's number is in range.
LEMMA NextAttemptStep ==
    ASSUME HedgeInv, NEW q \in Requests, pc[q] \in InIteration, pc[q] \notin SlotPlaces,
           race[q].path \in {"infer", "fallback"},
           NEW sent \in Nat, NEW skip \in SUBSET Replicas, NextAttempt(q, sent, skip),
           UNCHANGED <<race, client, registry>>, BreakersSound', CountFreed
    PROVE  HedgeInv'
<1> DEFINE l == AtLoop(local[q].attempt + 1, sent, local[q].excluded \cup skip,
                       local[q].tried \cup ({local[q].selection} \ {NoReplica}))
           w == race[q]
           s == status[q]
           d == delivered[q]
           p == "loop"
<1>1. /\ local[q] \in Locals /\ w \in Races /\ s \in Statuses /\ d \in Seq(Nat)
      /\ local[q].attempt < max_retries /\ RaceOK(w)
    BY Before DEF LocalOK
<1>2. local[q].attempt \in Nat /\ local[q].attempt + 1 \in 0 .. max_retries
    BY <1>1, GatewayAssumption DEF Locals, GatewayAssumption
<1>3. /\ local[q].excluded \cup skip \in SUBSET Replicas
      /\ local[q].tried \cup ({local[q].selection} \ {NoReplica}) \in SUBSET Replicas
    BY <1>1 DEF Locals
<1>4. l \in Locals /\ l.streamed = 0 /\ l.attempt = local[q].attempt + 1
    BY <1>2, <1>3 DEF Locals, AtLoop
<1>5. s = "none"
    <2>1. pc[q] # "done"
        BY DEF AllPlaces, Places, RacePlaces, Chosen, Asking, Held, InIteration,
           Counted, BothCounted, WinnerCounted, FirstCounted, SecondCounted, HasWinner
    <2> QED
        BY <2>1, Before DEF AnswerOK
<1>6. Becomes(q, p, l, w, s, d) /\ UNCHANGED active
    BY Same DEF NextAttempt, Becomes, GoTo, client, registry
<1>7. /\ p \in AllPlaces /\ p \in Asking /\ p \notin RacePlaces /\ p \notin Chosen \cup {"second choice"}
      /\ p \notin HasWinner /\ p \notin Held \cup {"admit"} /\ p \notin InIteration
      /\ p \notin {"dispatch", "stream", "done"} /\ p \notin SlotPlaces
    BY DEF SlotPlaces, AllPlaces, Places, RacePlaces, Chosen, Asking, Held, InIteration,
       Counted, BothCounted, WinnerCounted, FirstCounted, SecondCounted, HasWinner
<1>8. l.attempt # 0
    BY <1>2, <1>4
<1> HIDE DEF l, w, s, d, p
<1>9. RequestOK(p, l, w, cancelled[q], s, d)
    <2>1. PathOK(p, w)
        BY <1>7 DEF PathOK, w
    <2>2. LocalOK(p, l, w)
        BY <1>4, <1>7 DEF LocalOK
    <2>3. w.path \notin {"single", "race"}
        BY DEF w
    <2>4. AnswerOK(p, l, w, cancelled[q], s, d)
        BY <1>5, <1>7, <1>8, <2>3 DEF AnswerOK
    <2> QED
        BY <1>1, <2>1, <2>2, <2>4 DEF RequestOK
<1>10. \A t : Slots(p, l, w, t) = Slots(pc[q], local[q], race[q], t)
    BY <1>7, NoSlots
<1> QED
    BY <1>1, <1>4, <1>6, <1>7, <1>9, <1>10, QuietStep

\* A replica has been selected; the thread goes to its breaker.
LEMMA SelectOneStep ==
    ASSUME HedgeInv, NEW q \in Requests, pc[q] \in Asking, SelectOne(q),
           local[q].attempt < max_retries,
           UNCHANGED <<race, client, registry, breaker>>, CountFreed
    PROVE  HedgeInv'
<1>1. PICK r \in Selectable(q) : local' = [local EXCEPT ![q].selection = r]
    BY DEF SelectOne
<1> DEFINE l == [local[q] EXCEPT !.selection = r]
           w == race[q]
           s == status[q]
           d == delivered[q]
           p == "admit"
<1>2. /\ local[q] \in Locals /\ w \in Races /\ s \in Statuses /\ d \in Seq(Nat) /\ RaceOK(w)
      /\ local \in [Requests -> Locals] /\ local[q].streamed = 0
      /\ w.path \in {"infer", "fallback"} /\ r \in Replicas
    BY Before DEF HedgeInv, ThreadsTyped, RegistryTyped, Selectable, LocalOK, PathOK
<1>3. /\ l \in Locals /\ l.selection = r /\ l.streamed = 0
      /\ l.attempt = local[q].attempt
    BY <1>2 DEF Locals
<1>4. pc[q] # "done" /\ pc[q] \notin SlotPlaces
    BY DEF SlotPlaces, AllPlaces, Places, RacePlaces, Chosen, Asking, Held, InIteration,
       Counted, BothCounted, WinnerCounted, FirstCounted, SecondCounted, HasWinner
<1>5. s = "none"
    BY <1>4, Before DEF AnswerOK
<1>6. Becomes(q, p, l, w, s, d) /\ UNCHANGED <<active, breaker>>
    BY <1>1, <1>2, Same DEF SelectOne, Becomes, GoTo, client, registry
<1>7. /\ p \in AllPlaces /\ p \in Asking /\ p \notin RacePlaces /\ p \notin Chosen \cup {"second choice"}
      /\ p \notin HasWinner
      /\ p \notin {"loop", "dispatch", "stream", "done"} /\ p \notin SlotPlaces
    BY DEF SlotPlaces, AllPlaces, Places, RacePlaces, Chosen, Asking, Held, InIteration,
       Counted, BothCounted, WinnerCounted, FirstCounted, SecondCounted, HasWinner
<1> HIDE DEF l, w, s, d, p
<1>8. RequestOK(p, l, w, cancelled[q], s, d)
    <2>1. PathOK(p, w)
        BY <1>2, <1>7 DEF PathOK
    <2>2. LocalOK(p, l, w)
        BY <1>2, <1>3, <1>7 DEF LocalOK
    <2>3. w.path \notin {"single", "race"}
        BY <1>2
    <2>4. AnswerOK(p, l, w, cancelled[q], s, d)
        BY <1>5, <1>7, <2>3 DEF AnswerOK
    <2> QED
        BY <1>2, <2>1, <2>2, <2>4 DEF RequestOK
<1>9. \A t : Slots(p, l, w, t) = Slots(pc[q], local[q], race[q], t)
    BY <1>4, <1>7, NoSlots
<1> QED
    BY <1>2, <1>3, <1>6, <1>7, <1>8, <1>9, BreakersKept, QuietStep

\* The thread moves inside its iteration, before a replica has been selected.
LEMMA AskingStep ==
    ASSUME HedgeInv, NEW q \in Requests, pc[q] \in Asking, NEW p \in {"wait", "reselect"},
           GoTo(q, p), local[q].attempt < max_retries,
           UNCHANGED <<local, race, client, registry, breaker>>, CountFreed
    PROVE  HedgeInv'
<1>1. /\ pc[q] \notin SlotPlaces /\ pc[q] # "done"
      /\ p \in AllPlaces /\ p \in Asking /\ p \notin RacePlaces /\ p \notin Chosen \cup {"second choice"}
      /\ p \notin HasWinner /\ p \notin Held \cup {"admit"}
      /\ p \notin {"loop", "dispatch", "stream", "done"} /\ p \notin SlotPlaces
    BY DEF SlotPlaces, AllPlaces, Places, RacePlaces, Chosen, Asking, Held, InIteration,
       Counted, BothCounted, WinnerCounted, FirstCounted, SecondCounted, HasWinner
<1>2. /\ race[q].path \in {"infer", "fallback"} /\ local[q].streamed = 0 /\ status[q] = "none"
    BY <1>1, Before DEF PathOK, LocalOK, AnswerOK
<1>3. PathOK(p, race[q]) /\ LocalOK(p, local[q], race[q])
    BY <1>1, <1>2 DEF PathOK, LocalOK
<1>4. race[q].path \notin {"single", "race"}
    BY <1>2
<1>5. AnswerOK(p, local[q], race[q], cancelled[q], status[q], delivered[q])
    BY <1>1, <1>2, <1>4 DEF AnswerOK
<1>6. \A t : Slots(p, local[q], race[q], t) = Slots(pc[q], local[q], race[q], t)
    BY <1>1, NoSlots
<1> QED
    BY <1>1, <1>3, <1>5, <1>6, MoveStep

\* Returning from a place where no slot is held, with the breakers untouched.
LEMMA PlainReturn ==
    ASSUME HedgeInv, NEW q \in Requests, pc[q] \in Asking, NEW code \in Statuses,
           Return(q, code), UNCHANGED <<race, cancelled, delivered, registry, breaker>>, CountFreed
    PROVE  HedgeInv'
<1>1. pc[q] \notin SlotPlaces
    BY DEF SlotPlaces, AllPlaces, Places, RacePlaces, Chosen, Asking, Held, InIteration,
       Counted, BothCounted, WinnerCounted, FirstCounted, SecondCounted, HasWinner
<1>2. \A t : Slots(pc[q], local[q], race[q], t) = 0
    BY <1>1, NoSlots
<1>3. race[q].path # "race"
    BY Before DEF PathOK
<1> QED
    BY <1>2, <1>3, BreakersKept, ReturnStep

LEMMA LoopStep ==
    ASSUME HedgeInv, NEW q \in Requests, CountFreed, UNCHANGED race,
           ReturnCancelled(q) \/ Select(q) \/ ReturnAfterLoop(q)
    PROVE  HedgeInv'
<1>1. pc[q] \in Asking
    BY DEF ReturnCancelled, Select, ReturnAfterLoop, Asking
<1>2. CASE ReturnCancelled(q)
    BY <1>1, <1>2, PlainReturn DEF ReturnCancelled, Statuses
<1>3. CASE Select(q)
    <2>1. local[q].attempt < max_retries
        <3>1. local[q].attempt \in Nat /\ max_retries \in Nat
            BY Before, GatewayAssumption DEF Locals, GatewayAssumption
        <3> QED
            BY <1>3, <3>1 DEF Select, LoopEnds
    <2> QED
        BY <1>1, <1>3, <2>1, SelectOneStep, AskingStep DEF Select
<1>4. CASE ReturnAfterLoop(q)
    BY <1>1, <1>4, PlainReturn DEF ReturnAfterLoop, Statuses
<1> QED
    BY <1>2, <1>3, <1>4

LEMMA WaitingStep ==
    ASSUME HedgeInv, NEW q \in Requests, CountFreed, UNCHANGED race,
           WaitInQueue(q) \/ LeaveQueue(q) \/ Reselect(q)
    PROVE  HedgeInv'
<1>1. CASE WaitInQueue(q)
    BY <1>1, QueueStep DEF WaitInQueue
<1>2. ASSUME LeaveQueue(q) \/ Reselect(q)
      PROVE  pc[q] \in Asking /\ pc[q] \in InIteration /\ pc[q] \notin SlotPlaces
    BY <1>2 DEF LeaveQueue, Reselect, SlotPlaces, AllPlaces, Places, RacePlaces, Chosen,
       Asking, Held, InIteration, Counted, BothCounted, WinnerCounted, FirstCounted,
       SecondCounted, HasWinner
<1>3. ASSUME LeaveQueue(q) \/ Reselect(q)
      PROVE  local[q].attempt < max_retries /\ race[q].path \in {"infer", "fallback"}
    BY <1>2, <1>3, Before DEF LocalOK, PathOK
<1>4. CASE LeaveQueue(q)
    <2>1. CASE GoTo(q, "reselect") /\ UNCHANGED <<local, status>>
        BY <1>2, <1>3, <1>4, <2>1, AskingStep DEF LeaveQueue, client
    <2>2. CASE Return(q, "RESOURCE_EXHAUSTED")
        BY <1>2, <1>4, <2>2, PlainReturn DEF LeaveQueue, Statuses
    <2> QED
        BY <1>4, <2>1, <2>2 DEF LeaveQueue
<1>5. CASE Reselect(q)
    <2>1. CASE SelectOne(q)
        BY <1>2, <1>3, <1>5, <2>1, SelectOneStep DEF Reselect
    <2>2. CASE NextAttempt(q, local[q].tokens_sent, {})
        <3>1. local[q].tokens_sent \in Nat /\ {} \in SUBSET Replicas
            BY Before DEF Locals
        <3>2. BreakersSound'
            BY <1>5, BreakersKept DEF Reselect
        <3> QED
            BY <1>2, <1>3, <1>5, <2>2, <3>1, <3>2, NextAttemptStep DEF Reselect
    <2> QED
        BY <1>5, <2>1, <2>2 DEF Reselect
<1> QED
    BY <1>1, <1>4, <1>5

LEMMA AdmitStep ==
    ASSUME HedgeInv, NEW q \in Requests, CountFreed, UNCHANGED race, Admit(q)
    PROVE  HedgeInv'
<1> DEFINE r == local[q].selection
           l == [local[q] EXCEPT !.probe = breaker[r].state # "CLOSED"]
           w == race[q]
           s == status[q]
           d == delivered[q]
           p == "dispatch"
<1>1. /\ pc[q] \in Asking /\ pc[q] \in InIteration /\ pc[q] \in Held \cup {"admit"}
      /\ pc[q] \notin SlotPlaces /\ pc[q] # "done"
    BY DEF Admit, SlotPlaces, AllPlaces, Places, RacePlaces, Chosen, Asking, Held,
       InIteration, Counted, BothCounted, WinnerCounted, FirstCounted, SecondCounted,
       HasWinner
<1>2. /\ local[q] \in Locals /\ w \in Races /\ s \in Statuses /\ d \in Seq(Nat) /\ RaceOK(w)
      /\ local \in [Requests -> Locals] /\ local[q].streamed = 0
      /\ w.path \in {"infer", "fallback"} /\ r \in Replicas /\ s = "none"
    BY <1>1, Before DEF HedgeInv, ThreadsTyped, LocalOK, PathOK, AnswerOK
<1>3. local[q].attempt < max_retries
    BY <1>1, <1>2, Before DEF LocalOK
<1>4. CASE NextAttempt(q, local[q].tokens_sent, {r}) /\ UNCHANGED breaker
    <2>1. local[q].tokens_sent \in Nat /\ {r} \in SUBSET Replicas
        BY <1>2 DEF Locals
    <2> HIDE DEF r
    <2> QED
        BY <1>1, <1>2, <1>4, <2>1, BreakersKept, NextAttemptStep DEF Admit, w
<1>5. CASE /\ Allows(breaker[r])
           /\ breaker' = [breaker EXCEPT ![r] = AfterAllowRequest(@)]
           /\ local' = [local EXCEPT ![q].probe = breaker[r].state # "CLOSED"]
           /\ GoTo(q, p)
    <2>1. /\ l \in Locals /\ l.selection = r /\ l.streamed = 0
          /\ l.attempt = local[q].attempt
        BY <1>2 DEF Locals
    <2>2. Becomes(q, p, l, w, s, d) /\ UNCHANGED active
        BY <1>2, <1>5, Same DEF Admit, Becomes, GoTo, client, registry
    <2>3. BreakersSound'
        <3>1. Sound(breaker[r])
            BY <1>2 DEF HedgeInv, BreakersSound
        <3>2. Sound(AfterAllowRequest(breaker[r]))
            BY <1>5, <3>1, AllowSound
        <3>3. breaker' = [breaker EXCEPT ![r] = AfterAllowRequest(breaker[r])]
            BY <1>5
        <3> HIDE DEF r
        <3> QED
            BY <1>2, <3>2, <3>3, BreakerAsked
    <2>4. /\ p \in AllPlaces /\ p \notin Asking /\ p \notin RacePlaces
          /\ p \notin Chosen \cup {"second choice"} /\ p \notin HasWinner
          /\ p \notin {"loop", "stream", "done"} /\ p \notin SlotPlaces
        BY DEF SlotPlaces, AllPlaces, Places, RacePlaces, Chosen, Asking, Held,
           InIteration, Counted, BothCounted, WinnerCounted, FirstCounted,
           SecondCounted, HasWinner
    <2> HIDE DEF l, w, s, d, p
    <2>5. RequestOK(p, l, w, cancelled[q], s, d)
        <3>1. PathOK(p, w)
            BY <2>4 DEF PathOK
        <3>2. LocalOK(p, l, w)
            BY <1>2, <1>3, <2>1, <2>4 DEF LocalOK
        <3>3. w.path \notin {"single", "race"}
            BY <1>2
        <3>4. AnswerOK(p, l, w, cancelled[q], s, d)
            BY <1>2, <2>4, <3>3 DEF AnswerOK
        <3> QED
            BY <1>2, <3>1, <3>2, <3>4 DEF RequestOK
    <2>6. \A t : Slots(p, l, w, t) = Slots(pc[q], local[q], race[q], t)
        BY <1>1, <2>4, NoSlots
    <2> QED
        BY <1>2, <2>1, <2>2, <2>3, <2>4, <2>5, <2>6, QuietStep
<1> QED
    BY <1>4, <1>5 DEF Admit

\* A stream starts, for Infer or for a hedged request with one replica only.
LEMMA DispatchStep ==
    ASSUME HedgeInv, NEW q \in Requests, CountFreed, UNCHANGED race, Dispatch(q)
    PROVE  HedgeInv'
<1> DEFINE r == local[q].selection
           l == local[q]
           w == race[q]
           s == status[q]
           d == delivered[q]
           p == "stream"
<1>1. /\ pc[q] \in Held /\ pc[q] \notin SlotPlaces /\ pc[q] = "dispatch"
    BY DEF Dispatch, SlotPlaces, AllPlaces, Places, RacePlaces, Chosen, Asking, Held,
       InIteration, Counted, BothCounted, WinnerCounted, FirstCounted, SecondCounted,
       HasWinner
<1>2. /\ l \in Locals /\ w \in Races /\ s \in Statuses /\ d \in Seq(Nat)
      /\ r \in Replicas /\ s = "none" /\ l.streamed = 0
      /\ RaceOK(w) /\ LocalOK(pc[q], l, w) /\ AnswerOK(pc[q], l, w, cancelled[q], s, d)
    BY <1>1, Before DEF LocalOK, AnswerOK
<1>3. /\ active' = [active EXCEPT ![r] = @ + 1] /\ UNCHANGED breaker
      /\ Becomes(q, p, l, w, s, d)
    BY Same DEF Dispatch, Becomes, GoTo, client
<1>4. /\ p \in AllPlaces /\ p \notin Asking /\ p \notin RacePlaces
      /\ p \notin Chosen \cup {"second choice"} /\ p \notin HasWinner
    BY DEF AllPlaces, Places, RacePlaces, Chosen, Asking, Held, InIteration, Counted,
       BothCounted, WinnerCounted, FirstCounted, SecondCounted, HasWinner
<1>5. p \in Counted
    BY DEF Counted
<1> HIDE DEF l, w, s, d, r
<1>6. RequestOK(p, l, w, cancelled[q], s, d)
    <2>1. PathOK(p, w)
        BY <1>4 DEF PathOK
    <2>2. LocalOK(p, l, w)
        BY <1>1, <1>2, <1>4 DEF LocalOK, InIteration, Held
    <2>3. AnswerOK(p, l, w, cancelled[q], s, d)
        BY <1>1, <1>2, <1>4 DEF AnswerOK
    <2> QED
        BY <1>2, <2>1, <2>2, <2>3 DEF RequestOK
<1> HIDE DEF p
<1>7. \A t : Slots(p, l, w, t) = Slots(pc[q], local[q], race[q], t) + One(t = r)
    <2>1. \A t : Slots(pc[q], local[q], race[q], t) = 0
        BY <1>1, NoSlots
    <2>2. \A t : Slots(p, l, w, t) = One(l.selection = t)
        BY <1>5, CountedSlots
    <2> QED
        BY <2>1, <2>2 DEF One, r, l
<1> QED
    BY <1>2, <1>3, <1>4, <1>6, <1>7, TakeStep

\* What is known while a stream is open, and when it is over.
LEMMA Streaming ==
    ASSUME HedgeInv, NEW q \in Requests, pc[q] \in Held
    PROVE  /\ local[q] \in Locals /\ race[q] \in Races /\ status[q] = "none"
           /\ local[q].selection \in Replicas
           /\ local \in [Requests -> Locals] /\ delivered \in [Requests -> Seq(Nat)]
           /\ race[q].path \in {"infer", "fallback"} => local[q].attempt < max_retries
<1>1. pc[q] # "done" /\ pc[q] \in InIteration
    BY DEF Held, InIteration
<1> QED
    BY <1>1, Before DEF LocalOK, AnswerOK, HedgeInv, ThreadsTyped

LEMMA ForwardStep ==
    ASSUME HedgeInv, NEW q \in Requests, CountFreed, UNCHANGED race, ForwardToken(q)
    PROVE  HedgeInv'
<1> DEFINE n == local[q].streamed + 1
           l == [local[q] EXCEPT !.streamed = n]
           k == NextToken(q)
           w == race[q]
           s == status[q]
           d == Append(delivered[q], k)
           p == "stream"
<1>1. pc[q] = "stream" /\ pc[q] \in Held /\ pc[q] \in AllPlaces /\ ~cancelled[q]
    BY DEF ForwardToken, AllPlaces, Places, RacePlaces, Chosen, Asking, Held,
       InIteration, Counted, BothCounted, WinnerCounted, FirstCounted, SecondCounted,
       HasWinner
<1>2. /\ local[q] \in Locals /\ w \in Races /\ s \in Statuses /\ delivered[q] \in Seq(Nat)
      /\ local \in [Requests -> Locals] /\ delivered \in [Requests -> Seq(Nat)]
      /\ RaceOK(w) /\ PathOK(p, w) /\ LocalOK(p, local[q], w) /\ s = "none"
      /\ AnswerOK(p, local[q], w, cancelled[q], s, delivered[q])
    BY <1>1, Before, Streaming
<1>3. local[q].streamed \in Nat /\ local[q].tokens_sent \in Nat
    BY <1>2 DEF LocalOK, Locals
<1>4. k \in Nat /\ k = local[q].tokens_sent + local[q].streamed
    BY <1>3 DEF NextToken
<1>5. /\ l \in Locals /\ l.streamed = local[q].streamed + 1
      /\ l.tokens_sent = local[q].tokens_sent /\ l.selection = local[q].selection
      /\ l.attempt = local[q].attempt
    <2>1. n \in Nat \cup {-1} /\ n = local[q].streamed + 1
        BY <1>3
    <2> HIDE DEF n
    <2> QED
        BY <1>2, <2>1 DEF Locals
<1>6. d \in Seq(Nat)
    BY <1>2, <1>4
<1>7. w.path \in {"single", "race"} =>
          InOrder(d) /\ Len(d) = l.tokens_sent + l.streamed
    <2> SUFFICES ASSUME w.path \in {"single", "race"}
                 PROVE  InOrder(d) /\ Len(d) = l.tokens_sent + l.streamed
        OBVIOUS
    <2>1. InOrder(delivered[q]) /\ Len(delivered[q]) = k
        BY <1>1, <1>2, <1>4 DEF AnswerOK
    <2>2. InOrder(d) /\ Len(d) = k + 1
        BY <1>2, <2>1, NextInOrder
    <2> QED
        BY <1>3, <1>4, <1>5, <2>2
<1>8. Becomes(q, p, l, w, s, d) /\ UNCHANGED <<active, breaker>>
    BY <1>1, <1>2, Same DEF ForwardToken, Becomes, registry
<1>9. p \notin RacePlaces /\ p \notin Asking /\ p \in Held
    BY DEF AllPlaces, Places, RacePlaces, Chosen, Asking, Held, InIteration, Counted,
       BothCounted, WinnerCounted, FirstCounted, SecondCounted, HasWinner
<1> HIDE DEF l, w, s, d, k
<1>10. RequestOK(p, l, w, cancelled[q], s, d)
    <2>1. LocalOK(p, l, w)
        BY <1>2, <1>3, <1>5, <1>9 DEF LocalOK
    <2>2. AnswerOK(p, l, w, cancelled[q], s, d)
        BY <1>2, <1>7, <1>9 DEF AnswerOK
    <2> QED
        BY <1>2, <2>1, <2>2 DEF RequestOK
<1>11. \A t : Slots(p, l, w, t) = Slots(pc[q], local[q], race[q], t)
    BY <1>1, <1>5 DEF Slots, StreamSlot, w
<1>12. p \in AllPlaces
    BY <1>1
<1> HIDE DEF p
<1> QED
    BY <1>2, <1>5, <1>6, <1>8, <1>10, <1>11, <1>12, BreakersKept, QuietStep

\* The stream is over, at its end or with an error.
LEMMA EndStep ==
    ASSUME HedgeInv, NEW q \in Requests, CountFreed, UNCHANGED race,
           StreamEnds(q) \/ StreamFails(q)
    PROVE  HedgeInv'
<1> DEFINE l == local'[q]
           w == race[q]
           s == status[q]
           d == delivered[q]
           p == "release"
<1>1. pc[q] \in Held /\ pc[q] \in Counted
    BY DEF StreamEnds, StreamFails, Held, Counted
<1>2. /\ local[q] \in Locals /\ w \in Races /\ s \in Statuses /\ d \in Seq(Nat)
      /\ local \in [Requests -> Locals]
      /\ RaceOK(w) /\ s = "none" /\ local[q].selection \in Replicas
      /\ LocalOK(pc[q], local[q], w)
      /\ AnswerOK(pc[q], local[q], w, cancelled[q], s, d)
    BY <1>1, Before, Streaming
<1>3. /\ l \in Locals /\ l.selection = local[q].selection /\ l.attempt = local[q].attempt
      /\ local' = [local EXCEPT ![q] = l]
    <2>1. CASE local' = local
        BY <1>2, <2>1
    <2>2. CASE local' = [local EXCEPT ![q].streamed = -1]
        BY <1>2, <2>2 DEF Locals
    <2> QED
        BY <2>1, <2>2 DEF StreamEnds, StreamFails
<1>4. UNCHANGED <<client, registry, breaker>> /\ pc' = [pc EXCEPT ![q] = p]
    BY DEF StreamEnds, StreamFails, GoTo
<1>5. Becomes(q, p, l, w, s, d) /\ UNCHANGED <<active, breaker>>
    BY <1>3, <1>4, Same DEF Becomes, client, registry
<1>6. /\ p \in AllPlaces /\ p \notin Asking /\ p \notin RacePlaces
      /\ p \notin Chosen \cup {"second choice"} /\ p \notin HasWinner
      /\ p \in Held /\ p \notin {"dispatch", "stream", "done", "loop"}
    BY DEF AllPlaces, Places, RacePlaces, Chosen, Asking, Held, InIteration, Counted,
       BothCounted, WinnerCounted, FirstCounted, SecondCounted, HasWinner
<1>7. p \in Counted
    BY DEF Counted
<1> HIDE DEF l, w, s, d, p
<1>8. RequestOK(p, l, w, cancelled[q], s, d)
    <2>1. PathOK(p, w)
        BY <1>6 DEF PathOK
    <2>2. LocalOK(p, l, w)
        BY <1>1, <1>2, <1>3, <1>6 DEF LocalOK, InIteration
    <2>3. AnswerOK(p, l, w, cancelled[q], s, d)
        BY <1>2, <1>6 DEF AnswerOK
    <2> QED
        BY <1>2, <2>1, <2>2, <2>3 DEF RequestOK
<1>9. \A t : Slots(p, l, w, t) = Slots(pc[q], local[q], race[q], t)
    BY <1>1, <1>3, <1>7, CountedSlots
<1> QED
    BY <1>2, <1>3, <1>5, <1>6, <1>8, <1>9, BreakersKept, QuietStep

\* The slot is given back, and the queue notified.
LEMMA AfterStream ==
    ASSUME HedgeInv, NEW q \in Requests, pc[q] \in Held,
           NEW p \in {"notify", "record"}
    PROVE  /\ p \in AllPlaces /\ p \notin SlotPlaces
           /\ PathOK(p, race[q])
           /\ LocalOK(p, local[q], race[q])
           /\ AnswerOK(p, local[q], race[q], cancelled[q], status[q], delivered[q])
<1>1. /\ p \in AllPlaces /\ p \notin Asking /\ p \notin RacePlaces
      /\ p \notin Chosen \cup {"second choice"} /\ p \notin HasWinner
      /\ p \in Held /\ p \notin {"dispatch", "stream", "done", "loop"} /\ p \notin SlotPlaces
    BY DEF SlotPlaces, AllPlaces, Places, RacePlaces, Chosen, Asking, Held, InIteration,
       Counted, BothCounted, WinnerCounted, FirstCounted, SecondCounted, HasWinner
<1>2. PathOK(p, race[q])
    BY <1>1 DEF PathOK
<1>3. LocalOK(p, local[q], race[q])
    BY <1>1, Before, Streaming DEF LocalOK, InIteration
<1>4. AnswerOK(p, local[q], race[q], cancelled[q], status[q], delivered[q])
    BY <1>1, Before, Streaming DEF AnswerOK
<1> QED
    BY <1>1, <1>2, <1>3, <1>4

LEMMA ReleaseStep ==
    ASSUME HedgeInv, NEW q \in Requests, CountFreed, UNCHANGED race, Release(q)
    PROVE  HedgeInv'
<1> DEFINE r == local[q].selection
           l == local[q]
           w == race[q]
           s == status[q]
           d == delivered[q]
           p == "notify"
<1>1. pc[q] \in Held /\ pc[q] \in Counted
    BY DEF Release, Held, Counted
<1>2. l \in Locals /\ w \in Races /\ s \in Statuses /\ d \in Seq(Nat) /\ r \in Replicas
    BY <1>1, Before, Streaming
<1>3. /\ active' = [active EXCEPT ![r] = @ - 1] /\ UNCHANGED breaker
      /\ Becomes(q, p, l, w, s, d)
    BY Same DEF Release, Becomes, GoTo, client
<1>4. /\ p \in AllPlaces /\ p \notin SlotPlaces
      /\ RequestOK(p, l, w, cancelled[q], s, d)
    BY <1>1, Before, AfterStream DEF RequestOK
<1> HIDE DEF l, w, s, d, r, p
<1>5. \A t : Slots(p, l, w, t) + One(t = r) = Slots(pc[q], local[q], race[q], t)
    <2>1. \A t : Slots(p, l, w, t) = 0
        BY <1>4, NoSlots
    <2>2. \A t : Slots(pc[q], local[q], race[q], t) = One(local[q].selection = t)
        BY <1>1, CountedSlots
    <2> QED
        BY <2>1, <2>2 DEF One, r
<1> QED
    BY <1>2, <1>3, <1>4, <1>5, GiveStep

LEMMA NotifiedStep ==
    ASSUME HedgeInv, NEW q \in Requests, CountFreed, UNCHANGED race, Notify(q)
    PROVE  HedgeInv'
<1> DEFINE p == "record"
<1>1. pc[q] \in Held /\ pc[q] \notin SlotPlaces
    BY DEF Notify, SlotPlaces, AllPlaces, Places, RacePlaces, Chosen, Asking, Held,
       InIteration, Counted, BothCounted, WinnerCounted, FirstCounted, SecondCounted,
       HasWinner
<1>2. CASE UNCHANGED pc
    BY <1>2, QueueStep DEF Notify
<1>3. CASE GoTo(q, p)
    <2>1. /\ p \in AllPlaces /\ p \notin SlotPlaces
          /\ PathOK(p, race[q])
          /\ LocalOK(p, local[q], race[q])
          /\ AnswerOK(p, local[q], race[q], cancelled[q], status[q], delivered[q])
        BY <1>1, AfterStream
    <2> HIDE DEF p
    <2>2. \A t : Slots(p, local[q], race[q], t) = Slots(pc[q], local[q], race[q], t)
        BY <1>1, <2>1, NoSlots
    <2> QED
        BY <1>3, <2>1, <2>2, MoveStep DEF Notify
<1> QED
    BY <1>2, <1>3 DEF Notify

LEMMA RecordStep ==
    ASSUME HedgeInv, NEW q \in Requests, CountFreed, UNCHANGED race,
           race[q].path \in {"single", "race"} => pc[q] # "record",
           RecordFailedStream(q) \/ RecordEndedStream(q)
    PROVE  HedgeInv'
<1> DEFINE r == local[q].selection
<1>1. /\ pc[q] \in Held /\ pc[q] \in InIteration /\ pc[q] \notin SlotPlaces
      /\ pc[q] = "record"
    BY DEF RecordFailedStream, RecordEndedStream, SlotPlaces, AllPlaces, Places,
       RacePlaces, Chosen, Asking, Held, InIteration, Counted, BothCounted,
       WinnerCounted, FirstCounted, SecondCounted, HasWinner
<1>2. race[q].path \in {"infer", "fallback"}
    BY <1>1, Before DEF Races, Paths
<1>3. r \in Replicas /\ local[q] \in Locals
    BY <1>1, Streaming
<1>4. Sound(breaker[r])
    BY <1>3 DEF HedgeInv, BreakersSound
<1>5. CASE RecordFailedStream(q)
    <2>1. local[q].tokens_sent \in Nat /\ {r} \in SUBSET Replicas
        BY <1>3 DEF Locals
    <2>2. BreakersSound'
        <3>1. Sound(AfterRecordFailure(breaker[r]))
            BY <1>4, FailureSound
        <3>2. breaker' = [breaker EXCEPT ![r] = AfterRecordFailure(breaker[r])]
            BY <1>5 DEF RecordFailedStream
        <3> HIDE DEF r
        <3> QED
            BY <1>3, <3>1, <3>2, BreakerAsked
    <2>3. NextAttempt(q, local[q].tokens_sent, {r}) /\ UNCHANGED <<client, registry>>
        BY <1>5 DEF RecordFailedStream
    <2> HIDE DEF r
    <2> QED
        BY <1>1, <1>2, <2>1, <2>2, <2>3, NextAttemptStep
<1>6. CASE RecordEndedStream(q)
    <2> DEFINE sent == NextToken(q)
    <2>1. sent \in Nat /\ {r} \in SUBSET Replicas
        BY <1>3, <1>6 DEF RecordEndedStream, NextToken, Locals
    <2>2. BreakersSound'
        <3>1. Sound(AfterRecordSuccess(breaker[r]))
            BY <1>4, SuccessSound
        <3>2. breaker' = [breaker EXCEPT ![r] = AfterRecordSuccess(breaker[r])]
            BY <1>6 DEF RecordEndedStream
        <3> HIDE DEF r
        <3> QED
            BY <1>3, <3>1, <3>2, BreakerAsked
    <2>3. CASE Return(q, "OK")
        <3>1. \A t : Slots(pc[q], local[q], race[q], t) = 0
            BY <1>1, NoSlots
        <3>2. race[q].path # "race"
            BY <1>2
        <3> QED
            BY <1>6, <2>2, <2>3, <3>1, <3>2, ReturnStep DEF RecordEndedStream, Statuses
    <2>4. CASE NextAttempt(q, sent, {r}) /\ UNCHANGED status
        <3>1. UNCHANGED <<client, registry>>
            BY <1>6, <2>4 DEF RecordEndedStream, client
        <3> HIDE DEF r, sent
        <3> QED
            BY <1>1, <1>2, <2>1, <2>2, <2>4, <3>1, NextAttemptStep
    <2> QED
        BY <1>6, <2>3, <2>4 DEF RecordEndedStream
<1> QED
    BY <1>5, <1>6

-----------------------------------------------------------------------------
(* The inductive invariant                                                 *)

LEMMA InferStep ==
    ASSUME HedgeInv, NEW q \in Requests, CountFreed, UNCHANGED race, RunsInfer(q), Infer(q)
    PROVE  HedgeInv'
<1>1. race[q].path \in {"single", "race"} => pc[q] # "record"
    BY DEF RunsInfer
<1> QED
    BY <1>1, LoopStep, WaitingStep, AdmitStep, DispatchStep, ForwardStep, EndStep,
       ReleaseStep,
       NotifiedStep, RecordStep DEF Infer

\* The clients, the replicas' routability and the breakers' clock.
LEMMA EnvironmentKeeps ==
    ASSUME HedgeInv, EnvironmentStep, CountFreed
    PROVE  HedgeInv'
<1>1. ASSUME NEW q \in Requests, ClientCancels(q)
      PROVE  HedgeInv'
    <2>1. /\ pc' = pc /\ local' = local /\ race' = race
          /\ status' = status /\ delivered' = delivered
          /\ alive' = alive /\ active' = active /\ breaker' = breaker
          /\ cancelled' = [cancelled EXCEPT ![q] = TRUE]
        BY <1>1 DEF ClientCancels, EnvironmentStep, registry
    <2>2. ThreadsTyped' /\ BreakersSound'
        BY <2>1 DEF HedgeInv, ThreadsTyped, BreakersSound
    <2>3. RegistryTyped'
        BY <2>1, FreedCounts DEF HedgeInv, RegistryTyped
    <2>4. RequestsOK'
        <3>1. ASSUME NEW u \in Requests
              PROVE  RequestOK(pc[u], local[u], race[u], cancelled'[u], status[u],
                 delivered[u])
            <4>1. cancelled'[u] = cancelled[u] \/ cancelled'[u] = TRUE
                BY <2>1 DEF HedgeInv, ThreadsTyped
            <4>2. RequestOK(pc[u], local[u], race[u], cancelled[u], status[u], delivered[u])
                BY DEF HedgeInv, RequestsOK
            <4> QED
                BY <4>1, <4>2 DEF RequestOK, AnswerOK
        <3> QED
            BY <2>1, <3>1 DEF RequestsOK
    <2>5. RaceCountsExact'
        BY <2>1, CountersKept DEF HedgeInv
    <2> QED
        BY <2>2, <2>3, <2>4, <2>5 DEF HedgeInv
<1>2. ASSUME NEW r \in Replicas, RoutabilityChanges(r) \/ CooldownElapses(r)
      PROVE  HedgeInv'
    <2>1. /\ pc' = pc /\ local' = local /\ race' = race
          /\ status' = status /\ delivered' = delivered /\ cancelled' = cancelled
          /\ active' = active
        BY <1>2 DEF RoutabilityChanges, CooldownElapses, EnvironmentStep, registry,
           client
    <2>2. ThreadsTyped' /\ RequestsOK'
        BY <2>1 DEF HedgeInv, ThreadsTyped, RequestsOK
    <2>3. RegistryTyped'
        <3>1. alive' \subseteq Replicas
            BY <1>2 DEF RoutabilityChanges, CooldownElapses, registry, HedgeInv,
               RegistryTyped
        <3> QED
            BY <2>1, <3>1, FreedCounts DEF HedgeInv, RegistryTyped
    <2>4. BreakersSound'
        <3>1. CASE CooldownElapses(r)
            <4>1. Sound(AfterCooldown(breaker[r]))
                BY CooldownSound DEF HedgeInv, BreakersSound
            <4> QED
                BY <3>1, <4>1, BreakerAsked DEF CooldownElapses
        <3>2. CASE RoutabilityChanges(r)
            BY <3>2, BreakersKept DEF RoutabilityChanges
        <3> QED
            BY <1>2, <3>1, <3>2
    <2>5. RaceCountsExact'
        BY <2>1, CountersKept DEF HedgeInv
    <2> QED
        BY <2>2, <2>3, <2>4, <2>5 DEF HedgeInv
<1>3. CASE AllReturned
    BY <1>3, QueueStep DEF AllReturned, EnvironmentStep, vars
<1> QED
    BY <1>1, <1>2, <1>3 DEF EnvironmentStep

LEMMA StepKeeps ==
    ASSUME HedgeInv, HedgeNext
    PROVE  HedgeInv'
<1>1. CountFreed
    BY DEF HedgeNext
<1>2. ASSUME NEW q \in Requests, HandlerStep(q)
      PROVE  HedgeInv'
    BY <1>1, <1>2, InferHedgedStep, InferStep DEF HandlerStep
<1>3. ASSUME NEW q \in Requests, NEW i \in Racers, Reads(q, i) \/ Signals(q, i)
      PROVE  HedgeInv'
    BY <1>1, <1>3, RacerStep
<1>4. CASE EnvironmentStep
    BY <1>1, <1>4, EnvironmentKeeps
<1> QED
    BY <1>2, <1>3, <1>4 DEF HedgeNext

\* All threads are before the loop, and nobody has a slot.
LEMMA InitialInv == HedgeInit => HedgeInv
<1> SUFFICES ASSUME HedgeInit
             PROVE  HedgeInv
    OBVIOUS
<1>1. NoRace \in Races /\ RaceOK(NoRace) /\ NoRace.path = "infer"
    BY DEF NoRace, Races, Paths, Phases, Racers, RaceOK, NoReplica
<1>2. Fresh \in Locals /\ Fresh.streamed = 0 /\ Fresh.attempt = 0
    BY GatewayAssumption DEF Fresh, AtLoop, Locals, GatewayAssumption
<1> DEFINE p == "loop"
<1>3. /\ p \in AllPlaces /\ p \in Asking /\ p \notin RacePlaces
      /\ p \notin Chosen \cup {"second choice"} /\ p \notin HasWinner
      /\ p \notin Held \cup {"admit"} /\ p \notin InIteration
      /\ p \notin {"dispatch", "stream", "done"} /\ p \notin SlotPlaces
    BY DEF SlotPlaces, AllPlaces, Places, RacePlaces, Chosen, Asking, Held, InIteration,
       Counted, BothCounted, WinnerCounted, FirstCounted, SecondCounted, HasWinner
<1> HIDE DEF p
<1>4. ASSUME NEW q \in Requests
      PROVE  /\ pc[q] = p /\ local[q] = Fresh /\ race[q] = NoRace
             /\ cancelled[q] = FALSE /\ status[q] = "none" /\ delivered[q] = <<>>
    BY DEF HedgeInit, Init, p
<1>5. ThreadsTyped
    BY <1>1, <1>2, <1>3 DEF HedgeInit, Init, ThreadsTyped, Statuses, p
<1>6. RegistryTyped
    BY DEF HedgeInit, Init, RegistryTyped
<1>7. BreakersSound
    BY NewBreakerSound DEF HedgeInit, Init, BreakersSound, Sound, GoodBreaker
<1>8. RequestsOK
    <2>1. RequestOK(p, Fresh, NoRace, FALSE, "none", <<>>)
        BY <1>1, <1>2, <1>3 DEF RequestOK, PathOK, LocalOK, AnswerOK
    <2> QED
        BY <1>4, <2>1 DEF RequestsOK
<1>9. RaceCountsExact
    <2>1. ASSUME NEW r \in Replicas
          PROVE  OnReplica(r) = {} /\ RacingOn(r) = {}
        <3>1. OnReplica(r) = {}
            BY <1>3, <1>4 DEF OnReplica, SlotPlaces
        <3>2. ASSUME NEW q \in Requests, NEW i
              PROVE  ~HoldsSlot(q, i)
            <4>1. ~HoldsAt(p, race[q], i)
                BY <1>3, NoRacerSlot
            <4> QED
                BY <1>4, <4>1 DEF HoldsSlot, HoldsAt, FirstCounted, SecondCounted
        <3> QED
            BY <3>1, <3>2 DEF RacingOn
    <2> QED
        <3>1. ASSUME NEW r \in Replicas
              PROVE  active[r] = 0
            BY DEF HedgeInit, Init
        <3>2. Cardinality({}) = 0
            BY FS_EmptySet
        <3> QED
            BY <2>1, <3>1, <3>2 DEF RaceCountsExact
<1> QED
    BY <1>5, <1>6, <1>7, <1>8, <1>9 DEF HedgeInv

LEMMA Invariance == HedgeSpec => []HedgeInv
<1>1. HedgeInv /\ [HedgeNext]_hedgeVars => HedgeInv'
    <2> SUFFICES ASSUME HedgeInv, UNCHANGED hedgeVars
                 PROVE  HedgeInv'
        BY StepKeeps
    <2>1. /\ pc' = pc /\ local' = local /\ race' = race /\ status' = status
          /\ delivered' = delivered /\ cancelled' = cancelled
          /\ alive' = alive /\ active' = active /\ breaker' = breaker /\ freed' = freed
        BY DEF hedgeVars, vars, client, registry
    <2>2. ThreadsTyped' /\ RegistryTyped' /\ BreakersSound' /\ RequestsOK'
        BY <2>1 DEF HedgeInv, ThreadsTyped, RegistryTyped, BreakersSound, RequestsOK
    <2>3. RaceCountsExact'
        BY <2>1, CountersKept DEF HedgeInv
    <2> QED
        BY <2>2, <2>3 DEF HedgeInv
<1> QED
    BY <1>1, InitialInv, PTL DEF HedgeSpec

-----------------------------------------------------------------------------
(* What follows from it                                                    *)

\* The counters are exact whatever way a race ends and whoever else streams
\* from the same replicas meanwhile.
THEOREM RaceCountersExact == HedgeSpec => []RaceCountsExact
<1>1. HedgeInv => RaceCountsExact
    BY DEF HedgeInv
<1> QED
    BY <1>1, Invariance, PTL

\* The winner's promise is set once at most, by a racer that has a token.
THEOREM OneWinnerHolds == HedgeSpec => []OneWinner
<1>1. HedgeInv => OneWinner
    <2> SUFFICES ASSUME HedgeInv, NEW q \in Requests
                 PROVE  /\ Cardinality({i \in Racers : race[q].phase[i] = "won"})
                              + (IF race[q].promise = 0 THEN 0 ELSE 1) <= 1
                        /\ race[q].promise # 0 => race[q].success[race[q].promise]
        BY DEF OneWinner
    <2> DEFINE W == {i \in Racers : race[q].phase[i] = "won"}
    <2>1. RaceOK(race[q]) /\ race[q] \in Races
        BY Before
    <2>2. W = {} \/ \E i \in Racers : W = {i}
        <3>1. \A i \in W : Other(i) \notin W
            BY <2>1 DEF RaceOK
        <3> QED
            BY <3>1 DEF Racers, Other
    <2>3. W # {} => race[q].promise = 0
        BY <2>1 DEF RaceOK
    <2> HIDE DEF W
    <2>4. Cardinality(W) = 0 \/ (Cardinality(W) = 1 /\ W # {})
        <3>1. CASE W = {}
            BY <3>1, FS_EmptySet
        <3>2. ASSUME NEW i \in Racers, W = {i}
              PROVE  Cardinality(W) = 1 /\ W # {}
            BY <3>2, FS_Singleton
        <3> QED
            BY <2>2, <3>1, <3>2
    <2>5. Cardinality(W) + (IF race[q].promise = 0 THEN 0 ELSE 1) <= 1
        BY <2>3, <2>4
    <2> QED
        BY <2>1, <2>5 DEF RaceOK, W
<1> QED
    BY <1>1, Invariance, PTL

\* A hedged answer comes from one stream, and a race given up sends nothing.
THEOREM HedgedAnswerHolds == HedgeSpec => []HedgedAnswer
<1>1. HedgeInv => HedgedAnswer
    BY Before DEF HedgedAnswer, AnswerOK, InOrder
<1> QED
    BY <1>1, Invariance, PTL

-----------------------------------------------------------------------------
(* Every slot that is given back is told to the queue                      *)

\* The places between the release of a slot and its notification, those where
\* the queue's code runs, and all others.
Owing == {"notify", "notify loser", "notify again", "drop second", "notify twice"}
Notifying == Owing \ {"drop second"}
Elsewhere == AllPlaces \ (Owing \cup {"wait"})

\* Where in the queue a thread can be that is at p in Infer or InferHedged.
QueueOK(p, z) ==
    /\ p \in Notifying => z \in {"out", "notifying"}
    /\ p \notin Notifying \cup {"wait"} => z = "out"

\* How many notifications a request at p and at z in the queue owes.
OwesOne(p, z) ==
    \/ p \in {"notify", "notify loser", "notify again"} /\ z = "out"
    \/ p \in {"drop second", "notify twice"}
OwesTwo(p, z) == p = "notify twice" /\ z = "out"
Owed(p, z) == One(OwesOne(p, z)) + One(OwesTwo(p, z))

\* What a call of the queue does to the other threads: it may wake them.
OthersWoken(q) ==
    \A u \in Requests \ {q} :
        qpc'[u] = qpc[u] \/ (qpc[u] = "asleep" /\ qpc'[u] = "awake")

\* The places where a slot has just been given back.
Given == {"notify", "notify loser", "drop second"}
Halfway == {"drop second"}
BothGiven == {"notify twice"}
HalfTold == {"notify again"}
InQueue == {"wait"}

\* A call of the queue that notifies nobody.
StepsInQueue(q, z) == qpc' = [qpc EXCEPT ![q] = z] /\ UNCHANGED serving_ticket

\* Only a thread that has left the queue can be elsewhere.
Leaves(p, z) == p \in Elsewhere => z = "out"

\* No slot is given back: the counters are left alone, or one goes up.
OnlyTakes == active' = active \/ \E r \in Replicas : active' = [active EXCEPT ![r] = @ + 1]

ToldInv ==
    /\ DOMAIN qpc = Requests /\ qpc = [q \in Requests |-> qpc[q]]
    /\ serving_ticket \in Nat
    /\ \A q \in Requests : QueueOK(pc[q], qpc[q])
    /\ EverySlotTold

-----------------------------------------------------------------------------
(* One thread's step                                                       *)

LEMMA OwedNumber == \A p, z : Owed(p, z) \in Nat
BY DEF Owed, One

\* What q gives back and tells to the queue is what it then owes more or less.
LEMMA ToldStep ==
    ASSUME HedgeInv, ToldInv, NEW q \in Requests, NEW p, NEW z,
           pc' = [pc EXCEPT ![q] = p], qpc' = [u \in Requests |-> qpc'[u]], qpc'[q] = z,
           OthersWoken(q),
           QueueOK(p, z), NEW n \in Nat, freed' = freed + n,
           NEW m \in Nat, serving_ticket' = serving_ticket + m,
           Owed(p, z) + m = Owed(pc[q], qpc[q]) + n
    PROVE  ToldInv'
<1>1. pc'[q] = p /\ \A u \in Requests \ {q} : pc'[u] = pc[u]
    BY DEF HedgeInv, ThreadsTyped
<1>2. ASSUME NEW u \in Requests \ {q}
      PROVE  /\ QueueOK(pc'[u], qpc'[u])
             /\ OwesOne(pc'[u], qpc'[u]) <=> OwesOne(pc[u], qpc[u])
             /\ OwesTwo(pc'[u], qpc'[u]) <=> OwesTwo(pc[u], qpc[u])
    <2>1. QueueOK(pc[u], qpc[u]) /\ pc'[u] = pc[u]
        BY <1>1 DEF ToldInv
    <2>2. CASE qpc'[u] = qpc[u]
        BY <2>1, <2>2
    <2>3. CASE qpc[u] = "asleep" /\ qpc'[u] = "awake"
        <3>1. pc[u] = "wait"
            BY <2>1, <2>3 DEF QueueOK
        <3> QED
            BY <2>1, <3>1 DEF QueueOK, OwesOne, OwesTwo, Notifying, Owing
    <2> QED
        BY <2>2, <2>3 DEF OthersWoken
<1>3. \A u \in Requests : QueueOK(pc'[u], qpc'[u])
    BY <1>1, <1>2
<1>4. Cardinality(Untold) \in Nat
      /\ Cardinality(Untold') = Cardinality(Untold) - Owed(pc[q], qpc[q]) + Owed(p, z)
    <2>1. \A u \in Requests, i \in Racers :
             /\ <<u, i>> \in Untold <=> \/ i = 1 /\ OwesOne(pc[u], qpc[u])
                                        \/ i = 2 /\ OwesTwo(pc[u], qpc[u])
             /\ <<u, i>> \in Untold' <=> \/ i = 1 /\ OwesOne(pc'[u], qpc'[u])
                                         \/ i = 2 /\ OwesTwo(pc'[u], qpc'[u])
        BY DEF Untold, Owes, OwesOne, OwesTwo, Racers
    <2>2. \A u \in Requests \ {q}, i \in Racers : <<u, i>> \in Untold' <=> <<u, i>> \in Untold
        BY <1>2, <2>1
    <2>3. Untold \in SUBSET (Requests \X Racers) /\ Untold' \in SUBSET (Requests \X Racers)
        BY DEF Untold
    <2>4. /\ <<q, 1>> \in Untold <=> OwesOne(pc[q], qpc[q])
          /\ <<q, 2>> \in Untold <=> OwesTwo(pc[q], qpc[q])
          /\ <<q, 1>> \in Untold' <=> OwesOne(p, z)
          /\ <<q, 2>> \in Untold' <=> OwesTwo(p, z)
        BY <1>1, <2>1 DEF Racers
    <2>5. /\ Cardinality(Untold) \in Nat
          /\ Cardinality(Untold') = Cardinality(Untold)
                - One(<<q, 1>> \in Untold) - One(<<q, 2>> \in Untold)
                + One(<<q, 1>> \in Untold') + One(<<q, 2>> \in Untold')
        BY <2>2, <2>3, PairCardinality
    <2> QED
        BY <2>4, <2>5 DEF Owed, One
<1>5. EverySlotTold'
    <2>1. freed = serving_ticket + Cardinality(Untold) /\ serving_ticket \in Nat
        BY DEF ToldInv, EverySlotTold
    <2>2. Owed(p, z) \in Nat /\ Owed(pc[q], qpc[q]) \in Nat
        BY OwedNumber
    <2> QED
        BY <1>4, <2>1, <2>2 DEF EverySlotTold
<1>6. serving_ticket' \in Nat
    BY DEF ToldInv
<1> QED
    BY <1>3, <1>5, <1>6 DEF ToldInv

\* The history variable counts what a step gives back.
LEMMA NoneFreed ==
    ASSUME HedgeInv, CountFreed, OnlyTakes
    PROVE  freed' = freed + 0
<1>1. active \in [Replicas -> Int] /\ freed \in Nat
    BY DEF HedgeInv, RegistryTyped
<1>2. {r \in Replicas : active'[r] < active[r]} = {}
    BY <1>1 DEF OnlyTakes
<1> QED
    BY <1>1, <1>2, FS_EmptySet DEF CountFreed

LEMMA OneFreed ==
    ASSUME HedgeInv, CountFreed, NEW r \in Replicas, active' = [active EXCEPT ![r] = @ - 1]
    PROVE  freed' = freed + 1
<1>1. active \in [Replicas -> Int] /\ freed \in Nat
    BY DEF HedgeInv, RegistryTyped
<1>2. {s \in Replicas : active'[s] < active[s]} = {r}
    BY <1>1
<1> QED
    BY <1>1, <1>2, FS_Singleton DEF CountFreed

\* A thread moves between places where it owes nothing and is not in the queue.
LEMMA ElsewhereStep ==
    ASSUME HedgeInv, ToldInv, NEW q \in Requests, pc[q] \in Elsewhere,
           NEW p \in Elsewhere \cup {"wait"}, pc' = [pc EXCEPT ![q] = p], UNCHANGED queue,
           OnlyTakes, CountFreed
    PROVE  ToldInv'
<1>1. qpc[q] = "out"
    BY DEF ToldInv, QueueOK, Elsewhere, Notifying
<1>2. QueueOK(p, qpc[q])
    BY <1>1 DEF QueueOK
<1>3. p \notin Owing /\ pc[q] \notin Owing
    BY DEF Elsewhere, Owing
<1>4. \A x, y : x \notin Owing => ~OwesOne(x, y) /\ ~OwesTwo(x, y)
    BY DEF Owing, OwesOne, OwesTwo
<1>5. Owed(p, qpc[q]) + 0 = Owed(pc[q], qpc[q]) + 0
    BY <1>3, <1>4 DEF Owed, One
<1>6. qpc' = qpc /\ serving_ticket' = serving_ticket
    BY DEF queue
<1>7. serving_ticket' = serving_ticket + 0
    BY <1>6 DEF ToldInv
<1>8. qpc' = [u \in Requests |-> qpc'[u]] /\ qpc'[q] = qpc[q] /\ OthersWoken(q)
    BY <1>6 DEF ToldInv, OthersWoken
<1>9. freed' = freed + 0
    BY NoneFreed
<1> QED
    BY <1>2, <1>5, <1>7, <1>8, <1>9, ToldStep

\* No thread moves at all.
LEMMA StandStill ==
    ASSUME HedgeInv, ToldInv, UNCHANGED <<pc, queue, active>>, CountFreed
    PROVE  ToldInv'
<1>1. pc' = pc /\ qpc' = qpc /\ serving_ticket' = serving_ticket
    BY DEF queue
<1>2. Untold' = Untold
    BY <1>1 DEF Untold, Owes
<1>3. freed' = freed
    BY NoneFreed DEF OnlyTakes, HedgeInv, RegistryTyped
<1> QED
    BY <1>1, <1>2, <1>3 DEF ToldInv, EverySlotTold

\* A slot is given back: one notification more is owed.
LEMMA GivenBack ==
    ASSUME HedgeInv, ToldInv, NEW q \in Requests, pc[q] \in Elsewhere,
           NEW p \in Given, pc' = [pc EXCEPT ![q] = p],
           NEW r \in Replicas, active' = [active EXCEPT ![r] = @ - 1],
           UNCHANGED queue, CountFreed
    PROVE  ToldInv'
<1>1. qpc[q] = "out"
    BY DEF ToldInv, QueueOK, Elsewhere, Notifying, Owing
<1>2. QueueOK(p, qpc[q])
    BY <1>1 DEF QueueOK
<1>3. ~OwesOne(pc[q], qpc[q]) /\ ~OwesTwo(pc[q], qpc[q])
    BY DEF Elsewhere, Owing, OwesOne, OwesTwo
<1>4. OwesOne(p, qpc[q]) /\ ~OwesTwo(p, qpc[q])
    BY <1>1 DEF OwesOne, OwesTwo, Given
<1>5. Owed(p, qpc[q]) + 0 = Owed(pc[q], qpc[q]) + 1
    BY <1>3, <1>4 DEF Owed, One
<1>6. qpc' = qpc /\ serving_ticket' = serving_ticket
    BY DEF queue
<1>7. serving_ticket' = serving_ticket + 0
    BY <1>6 DEF ToldInv
<1>8. qpc' = [u \in Requests |-> qpc'[u]] /\ qpc'[q] = qpc[q] /\ OthersWoken(q)
    BY <1>6 DEF ToldInv, OthersWoken
<1>9. freed' = freed + 1
    BY OneFreed
<1> QED
    BY <1>2, <1>5, <1>7, <1>8, <1>9, ToldStep

\* The same of the second racer that is given up: two are owed now.
LEMMA BothGivenBack ==
    ASSUME HedgeInv, ToldInv, NEW q \in Requests, pc[q] \in Halfway,
           NEW p \in BothGiven, pc' = [pc EXCEPT ![q] = p],
           NEW r \in Replicas, active' = [active EXCEPT ![r] = @ - 1],
           UNCHANGED queue, CountFreed
    PROVE  ToldInv'
<1>1. qpc[q] = "out"
    BY DEF ToldInv, QueueOK, Halfway, Notifying
<1>2. QueueOK(p, qpc[q])
    BY <1>1 DEF QueueOK, BothGiven, Notifying, Owing
<1>3. OwesOne(pc[q], qpc[q]) /\ ~OwesTwo(pc[q], qpc[q])
    BY DEF OwesOne, OwesTwo, Halfway
<1>4. OwesOne(p, qpc[q]) /\ OwesTwo(p, qpc[q])
    BY <1>1 DEF OwesOne, OwesTwo, BothGiven
<1>5. Owed(p, qpc[q]) + 0 = Owed(pc[q], qpc[q]) + 1
    BY <1>3, <1>4 DEF Owed, One
<1>6. qpc' = qpc /\ serving_ticket' = serving_ticket
    BY DEF queue
<1>7. serving_ticket' = serving_ticket + 0
    BY <1>6 DEF ToldInv
<1>8. qpc' = [u \in Requests |-> qpc'[u]] /\ qpc'[q] = qpc[q] /\ OthersWoken(q)
    BY <1>6 DEF ToldInv, OthersWoken
<1>9. freed' = freed + 1
    BY OneFreed
<1> QED
    BY <1>2, <1>5, <1>7, <1>8, <1>9, ToldStep

-----------------------------------------------------------------------------
(* Calls of the queue                                                      *)

LEMMA Unmoved == HedgeInv => \A q \in Requests : pc = [pc EXCEPT ![q] = pc[q]]
BY DEF HedgeInv, ThreadsTyped

\* The first critical section of NotifyCapacityAvailable: the ticket advances.
LEMMA ServeStep ==
    ASSUME HedgeInv, ToldInv, NEW q \in Requests, pc[q] \in Notifying,
           Queue!NotifyServe(q), UNCHANGED <<pc, active>>, CountFreed
    PROVE  ToldInv'
<1> DEFINE z == "notifying"
<1>1. qpc[q] = "out"
    BY DEF Queue!NotifyServe
<1>2. serving_ticket' = serving_ticket + 1 /\ qpc' = [qpc EXCEPT ![q] = z]
    BY DEF Queue!NotifyServe, Queue!Move
<1>3. QueueOK(pc[q], z)
    BY DEF QueueOK, Notifying
<1>4. Owed(pc[q], z) + 1 = Owed(pc[q], qpc[q]) + 0
    <2>1. OwesTwo(pc[q], z) = FALSE /\ OwesOne(pc[q], qpc[q]) = TRUE
        BY <1>1 DEF OwesOne, OwesTwo, Notifying, Owing
    <2>2. OwesOne(pc[q], z) <=> OwesTwo(pc[q], qpc[q])
        BY <1>1 DEF OwesOne, OwesTwo, Notifying, Owing
    <2> HIDE DEF z
    <2> QED
        BY <2>1, <2>2 DEF Owed, One
<1> HIDE DEF z
<1>5. qpc' = [u \in Requests |-> qpc'[u]] /\ qpc'[q] = z /\ OthersWoken(q)
    BY <1>2 DEF ToldInv, OthersWoken
<1>6. freed' = freed + 0
    BY NoneFreed DEF OnlyTakes
<1>7. pc' = [pc EXCEPT ![q] = pc[q]]
    BY Unmoved
<1> QED
    BY <1>3, <1>4, <1>5, <1>6, <1>7, <1>2, ToldStep

\* notify_all: the call ends, and the thread goes on.
LEMMA NotifyAllStep ==
    ASSUME HedgeInv, ToldInv, NEW q \in Requests, pc[q] \in Notifying, NEW p, GoTo(q, p),
           \/ pc[q] \in Notifying \ BothGiven /\ p \in Elsewhere
           \/ pc[q] \in BothGiven /\ p \in HalfTold,
           Queue!NotifyAll(q), UNCHANGED active, CountFreed
    PROVE  ToldInv'
<1> DEFINE z == "out"
<1>1. qpc[q] = "notifying" /\ serving_ticket' = serving_ticket
      /\ qpc' = [Queue!WakeAll EXCEPT ![q] = z]
    BY DEF Queue!NotifyAll
<1>2. QueueOK(p, z)
    BY DEF QueueOK
<1>3. Owed(p, z) + 0 = Owed(pc[q], qpc[q]) + 0
    <2>1. OwesTwo(p, z) = FALSE /\ OwesTwo(pc[q], qpc[q]) = FALSE
        BY <1>1 DEF OwesTwo, Elsewhere, Owing, HalfTold
    <2>2. OwesOne(p, z) <=> OwesOne(pc[q], qpc[q])
        BY <1>1 DEF OwesOne, Notifying, Owing, BothGiven, HalfTold, Elsewhere
    <2> HIDE DEF z
    <2> QED
        BY <2>1, <2>2 DEF Owed, One
<1>4. qpc' = [u \in Requests |-> qpc'[u]] /\ qpc'[q] = z /\ OthersWoken(q)
    BY <1>1 DEF ToldInv, OthersWoken, Queue!WakeAll
<1> HIDE DEF z
<1>5. freed' = freed + 0
    BY NoneFreed DEF OnlyTakes
<1>6. serving_ticket' = serving_ticket + 0
    BY <1>1 DEF ToldInv
<1>7. pc' = [pc EXCEPT ![q] = p]
    BY DEF GoTo
<1> QED
    BY <1>2, <1>3, <1>4, <1>5, <1>6, <1>7, ToldStep

LEMMA NotifyForStep ==
    ASSUME HedgeInv, ToldInv, NEW q \in Requests, NEW from, NEW to, NotifyFor(q, from, to),
           \/ from \in Notifying \ BothGiven /\ to \in Elsewhere
           \/ from \in BothGiven /\ to \in HalfTold,
           CountFreed
    PROVE  ToldInv'
<1>1. pc[q] = from /\ UNCHANGED active /\ pc[q] \in Notifying
    BY DEF NotifyFor, registry, BothGiven, Notifying, Owing
<1>2. CASE Queue!NotifyServe(q) /\ UNCHANGED pc
    BY <1>1, <1>2, ServeStep
<1>3. CASE Queue!NotifyAll(q) /\ GoTo(q, to)
    BY <1>1, <1>3, NotifyAllStep
<1> QED
    BY <1>2, <1>3 DEF NotifyFor

\* Waiting for a slot touches no notification, and leaves with none owed.
LEMMA QueueMove ==
    ASSUME HedgeInv, ToldInv, NEW q \in Requests, pc[q] \in InQueue,
           NEW p \in InQueue \cup Elsewhere, NEW z, Leaves(p, z),
           GoTo(q, p), StepsInQueue(q, z), UNCHANGED active, CountFreed
    PROVE  ToldInv'
<1>1. p \notin Owing /\ pc[q] \notin Owing
    BY DEF InQueue, Elsewhere, Owing
<1>2. QueueOK(p, z)
    BY <1>1 DEF QueueOK, InQueue, Notifying, Owing, Leaves
<1>3. \A x, y : x \notin Owing => ~OwesOne(x, y) /\ ~OwesTwo(x, y)
    BY DEF Owing, OwesOne, OwesTwo
<1>4. Owed(p, z) + 0 = Owed(pc[q], qpc[q]) + 0
    BY <1>1, <1>3 DEF Owed, One
<1>5. qpc' = [u \in Requests |-> qpc'[u]] /\ qpc'[q] = z /\ OthersWoken(q)
    BY DEF ToldInv, OthersWoken, StepsInQueue
<1>6. serving_ticket' = serving_ticket + 0
    BY DEF ToldInv, StepsInQueue
<1>7. freed' = freed + 0
    BY NoneFreed DEF OnlyTakes
<1>8. pc' = [pc EXCEPT ![q] = p]
    BY DEF GoTo
<1> QED
    BY <1>2, <1>4, <1>5, <1>6, <1>7, <1>8, ToldStep

LEMMA WaitingTold ==
    ASSUME HedgeInv, ToldInv, NEW q \in Requests, WaitInQueue(q) \/ LeaveQueue(q), CountFreed
    PROVE  ToldInv'
<1>1. pc[q] \in InQueue
    BY DEF WaitInQueue, LeaveQueue, InQueue
<1>2. CASE WaitInQueue(q)
    <2>1. GoTo(q, pc[q]) /\ UNCHANGED active
        BY <1>2, Unmoved DEF WaitInQueue, GoTo, registry
    <2>2. UNCHANGED serving_ticket /\ \E z : qpc' = [qpc EXCEPT ![q] = z]
        BY <1>2 DEF WaitInQueue, Queue!WaitForCapacity, Queue!Resume,
           Queue!DeadlinePasses,
                    Queue!ReturnAtDeadline, Queue!RejectFull, Queue!PassAtOnce,
                    Queue!GoToSleep, Queue!TakeTicket, Queue!ReturnServed,
                    Queue!ReturnUnserved, Queue!Move
    <2>3. pc[q] \notin Elsewhere
        BY <1>1 DEF InQueue, Elsewhere
    <2> QED
        BY <1>1, <2>1, <2>2, <2>3, QueueMove DEF Leaves, StepsInQueue
<1>3. CASE LeaveQueue(q)
    <2>1. qpc' = [qpc EXCEPT ![q] = "out"] /\ UNCHANGED <<serving_ticket, active>>
        BY <1>3 DEF LeaveQueue, Queue!TakeResult, Queue!Move, registry
    <2>2. \E p \in Elsewhere : GoTo(q, p)
        <3>1. GoTo(q, "reselect") \/ GoTo(q, "done")
            BY <1>3 DEF LeaveQueue, Return
        <3>2. "reselect" \in Elsewhere /\ "done" \in Elsewhere
            BY DEF Elsewhere, AllPlaces, Places, RacePlaces, Owing
        <3> QED
            BY <3>1, <3>2
    <2> QED
        BY <1>1, <2>1, <2>2, QueueMove DEF Leaves, StepsInQueue
<1> QED
    BY <1>2, <1>3

-----------------------------------------------------------------------------
(* All steps                                                               *)

\* A thread goes on between places where it owes nothing.
MovesElsewhere(q) ==
    /\ pc[q] \in Elsewhere
    /\ \E p \in Elsewhere \cup {"wait"} : GoTo(q, p)
    /\ UNCHANGED queue
    /\ OnlyTakes

LEMMA ElsewhereMove ==
    ASSUME HedgeInv, ToldInv, NEW q \in Requests, MovesElsewhere(q), CountFreed
    PROVE  ToldInv'
BY ElsewhereStep DEF MovesElsewhere, GoTo

LEMMA Stays ==
    ASSUME HedgeInv, NEW q \in Requests, pc[q] \in Elsewhere, UNCHANGED <<pc, queue, active>>
    PROVE  MovesElsewhere(q)
BY Unmoved DEF MovesElsewhere, GoTo, OnlyTakes

LEMMA RaceMoves ==
    ASSUME HedgeInv, NEW q \in Requests,
           \/ EnterHedged(q) \/ SelectFirst(q) \/ SelectSecond(q) \/ CountFirst(q)
           \/ CountSecond(q) \/ WaitForWinner(q) \/ JoinRacers(q)
    PROVE  MovesElsewhere(q)
<1>1. CASE EnterHedged(q)
    <2>1. pc[q] \in Elsewhere
        BY <1>1 DEF EnterHedged, AtEntry, Elsewhere, Owing, AllPlaces, Places,
           RacePlaces, Chosen, Asking, Held, InIteration, Counted, BothCounted,
           WinnerCounted, FirstCounted, SecondCounted, HasWinner
    <2>2. CASE GoTo(q, "first choice")
        BY <1>1, <2>1, <2>2
        DEF EnterHedged, registry, MovesElsewhere, OnlyTakes, Elsewhere, Owing,
           AllPlaces, Places, RacePlaces, Chosen, Asking, Held, InIteration, Counted,
           BothCounted, WinnerCounted, FirstCounted, SecondCounted, HasWinner
    <2>3. CASE UNCHANGED pc
        BY <1>1, <2>1, <2>3, Stays DEF EnterHedged, registry
    <2> QED
        BY <1>1, <2>2, <2>3 DEF EnterHedged
<1>2. CASE SelectFirst(q)
    BY <1>2 DEF SelectFirst, Return, registry, MovesElsewhere, OnlyTakes, Elsewhere,
       Owing, AllPlaces, Places, RacePlaces, Chosen, Asking, Held, InIteration, Counted,
       BothCounted, WinnerCounted, FirstCounted, SecondCounted, HasWinner
<1>3. CASE SelectSecond(q)
    BY <1>3 DEF SelectSecond, registry, MovesElsewhere, OnlyTakes, Elsewhere, Owing,
       AllPlaces, Places, RacePlaces, Chosen, Asking, Held, InIteration, Counted,
       BothCounted, WinnerCounted, FirstCounted, SecondCounted, HasWinner
<1>4. CASE CountFirst(q)
    <2>1. race[q].sel[1] \in Replicas
        <3>1. pc[q] \in Chosen
            BY <1>4 DEF CountFirst, Count, AllPlaces, Places, RacePlaces, Chosen,
               Asking, Held, InIteration, Counted, BothCounted, WinnerCounted,
               FirstCounted, SecondCounted, HasWinner
        <3> QED
            BY <3>1, OnTheWay
    <2> QED
        BY <1>4, <2>1 DEF CountFirst, Count, MovesElsewhere, OnlyTakes, Elsewhere,
           Owing, AllPlaces, Places, RacePlaces, Chosen, Asking, Held, InIteration,
           Counted, BothCounted, WinnerCounted, FirstCounted, SecondCounted, HasWinner
<1>5. CASE CountSecond(q)
    <2>1. race[q].sel[2] \in Replicas
        <3>1. pc[q] \in Chosen
            BY <1>5 DEF CountSecond, Count, AllPlaces, Places, RacePlaces, Chosen,
               Asking, Held, InIteration, Counted, BothCounted, WinnerCounted,
               FirstCounted, SecondCounted, HasWinner
        <3> QED
            BY <3>1, OnTheWay
    <2> QED
        BY <1>5, <2>1 DEF CountSecond, Count, MovesElsewhere, OnlyTakes, Elsewhere,
           Owing, AllPlaces, Places, RacePlaces, Chosen, Asking, Held, InIteration,
           Counted, BothCounted, WinnerCounted, FirstCounted, SecondCounted, HasWinner
<1>6. CASE WaitForWinner(q)
    BY <1>6 DEF WaitForWinner, registry, MovesElsewhere, OnlyTakes, Elsewhere, Owing,
       AllPlaces, Places, RacePlaces, Chosen, Asking, Held, InIteration, Counted,
       BothCounted, WinnerCounted, FirstCounted, SecondCounted, HasWinner
<1>7. CASE JoinRacers(q)
    BY <1>7 DEF JoinRacers, registry, MovesElsewhere, OnlyTakes, Elsewhere, Owing,
       AllPlaces, Places, RacePlaces, Chosen, Asking, Held, InIteration, Counted,
       BothCounted, WinnerCounted, FirstCounted, SecondCounted, HasWinner
<1> QED
    BY <1>1, <1>2, <1>3, <1>4, <1>5, <1>6, <1>7

LEMMA AnswerMoves ==
    ASSUME HedgeInv, NEW q \in Requests,
           \/ ReturnLost(q) \/ RecordWinner(q) \/ RecordLoser(q) \/ WriteFirst(q)
           \/ ReturnWon(q) \/ ReturnSingle(q)
    PROVE  MovesElsewhere(q)
<1>1. CASE ReturnLost(q) \/ ReturnWon(q) \/ ReturnSingle(q)
    BY <1>1 DEF ReturnLost, ReturnWon, ReturnSingle, Return, registry, MovesElsewhere,
                OnlyTakes, Elsewhere, Owing, AllPlaces, Places, RacePlaces, Chosen, Asking,
                Held, InIteration, Counted, BothCounted, WinnerCounted, FirstCounted,
                SecondCounted, HasWinner
<1>2. CASE RecordWinner(q) \/ RecordLoser(q)
    BY <1>2 DEF RecordWinner, RecordLoser, Success, registry, MovesElsewhere, OnlyTakes,
                Elsewhere, Owing, AllPlaces, Places, RacePlaces, Chosen, Asking, Held,
                InIteration, Counted, BothCounted, WinnerCounted, FirstCounted,
                SecondCounted, HasWinner
<1>3. CASE WriteFirst(q)
    BY <1>3 DEF WriteFirst, registry, MovesElsewhere, OnlyTakes, Elsewhere, Owing,
       AllPlaces, Places, RacePlaces, Chosen, Asking, Held, InIteration, Counted,
       BothCounted, WinnerCounted, FirstCounted, SecondCounted, HasWinner
<1> QED
    BY <1>1, <1>2, <1>3

LEMMA LoopMoves ==
    ASSUME HedgeInv, NEW q \in Requests,
           \/ ReturnCancelled(q) \/ Select(q) \/ Reselect(q) \/ Admit(q)
           \/ RecordFailedStream(q) \/ RecordEndedStream(q) \/ ReturnAfterLoop(q)
    PROVE  MovesElsewhere(q)
<1>1. CASE ReturnCancelled(q) \/ ReturnAfterLoop(q)
    BY <1>1 DEF ReturnCancelled, ReturnAfterLoop, Return, registry, MovesElsewhere,
       OnlyTakes,
                Elsewhere, Owing, AllPlaces, Places, RacePlaces, Chosen, Asking, Held,
                InIteration, Counted, BothCounted, WinnerCounted, FirstCounted,
                SecondCounted, HasWinner
<1>2. CASE Select(q) \/ Reselect(q)
    BY <1>2 DEF Select, Reselect, SelectOne, NextAttempt, registry, MovesElsewhere,
       OnlyTakes,
                Elsewhere, Owing, AllPlaces, Places, RacePlaces, Chosen, Asking, Held,
                InIteration, Counted, BothCounted, WinnerCounted, FirstCounted,
                SecondCounted, HasWinner
<1>3. CASE Admit(q)
    BY <1>3 DEF Admit, NextAttempt, registry, MovesElsewhere, OnlyTakes, Elsewhere,
       Owing, AllPlaces, Places, RacePlaces, Chosen, Asking, Held, InIteration, Counted,
       BothCounted, WinnerCounted, FirstCounted, SecondCounted, HasWinner
<1>4. CASE RecordFailedStream(q) \/ RecordEndedStream(q)
    BY <1>4 DEF RecordFailedStream, RecordEndedStream, Return, NextAttempt, registry,
                MovesElsewhere, OnlyTakes, Elsewhere, Owing, AllPlaces, Places, RacePlaces,
                Chosen, Asking, Held, InIteration, Counted, BothCounted, WinnerCounted,
                FirstCounted, SecondCounted, HasWinner
<1> QED
    BY <1>1, <1>2, <1>3, <1>4

LEMMA StreamMoves ==
    ASSUME HedgeInv, NEW q \in Requests,
           Dispatch(q) \/ ForwardToken(q) \/ StreamEnds(q) \/ StreamFails(q)
    PROVE  MovesElsewhere(q)
<1>1. pc[q] \in Elsewhere
    BY DEF Dispatch, ForwardToken, StreamEnds, StreamFails, Elsewhere, Owing, AllPlaces,
       Places, RacePlaces, Chosen, Asking, Held, InIteration, Counted, BothCounted,
       WinnerCounted, FirstCounted, SecondCounted, HasWinner
<1>2. CASE Dispatch(q)
    <2>1. local[q].selection \in Replicas
        <3>1. pc[q] \in Held
            BY <1>2 DEF Dispatch, Held
        <3> QED
            BY <3>1, Before DEF LocalOK
    <2> QED
        BY <1>1, <1>2, <2>1 DEF Dispatch, MovesElsewhere, OnlyTakes, Elsewhere, Owing,
           AllPlaces, Places, RacePlaces, Chosen, Asking, Held, InIteration, Counted,
           BothCounted, WinnerCounted, FirstCounted, SecondCounted, HasWinner
<1>3. CASE ForwardToken(q)
    BY <1>1, <1>3, Stays DEF ForwardToken, registry
<1>4. CASE StreamEnds(q) \/ StreamFails(q)
    BY <1>1, <1>4 DEF StreamEnds, StreamFails, registry, MovesElsewhere, OnlyTakes,
       Elsewhere,
                      Owing, AllPlaces, Places, RacePlaces, Chosen, Asking, Held,
                      InIteration, Counted, BothCounted, WinnerCounted, FirstCounted,
                      SecondCounted, HasWinner
<1> QED
    BY <1>2, <1>3, <1>4

LEMMA GivingBack ==
    ASSUME HedgeInv, ToldInv, NEW q \in Requests,
           Release(q) \/ DropFirst(q) \/ DropSecond(q) \/ DropLoser(q), CountFreed
    PROVE  ToldInv'
<1>1. CASE Release(q)
    <2> DEFINE p == "notify"
    <2>1. pc[q] \in Held /\ pc[q] \in Elsewhere /\ p \in Given
        BY <1>1 DEF Release, Given, Elsewhere, Owing, AllPlaces, Places, RacePlaces,
           Chosen, Asking, Held, InIteration, Counted, BothCounted, WinnerCounted,
           FirstCounted, SecondCounted, HasWinner
    <2>2. local[q].selection \in Replicas
        BY <2>1, Before DEF LocalOK
    <2>3. /\ active' = [active EXCEPT ![local[q].selection] = @ - 1]
          /\ pc' = [pc EXCEPT ![q] = p] /\ UNCHANGED queue
        BY <1>1 DEF Release, GoTo
    <2> HIDE DEF p
    <2> QED
        BY <2>1, <2>2, <2>3, GivenBack
<1>2. CASE DropFirst(q)
    <2> DEFINE p == "drop second"
    <2>1. pc[q] \in Chosen /\ pc[q] \in Elsewhere /\ p \in Given
        BY <1>2 DEF DropFirst, Uncount, Given, Elsewhere, Owing, AllPlaces, Places,
           RacePlaces, Chosen, Asking, Held, InIteration, Counted, BothCounted,
           WinnerCounted, FirstCounted, SecondCounted, HasWinner
    <2>2. race[q].sel[1] \in Replicas
        BY <2>1, OnTheWay
    <2>3. /\ active' = [active EXCEPT ![race[q].sel[1]] = @ - 1]
          /\ pc' = [pc EXCEPT ![q] = p] /\ UNCHANGED queue
        BY <1>2 DEF DropFirst, Uncount, GoTo
    <2> HIDE DEF p
    <2> QED
        BY <2>1, <2>2, <2>3, GivenBack
<1>3. CASE DropSecond(q)
    <2> DEFINE p == "notify twice"
    <2>1. pc[q] \in Chosen /\ pc[q] \in Halfway /\ p \in BothGiven
        BY <1>3 DEF DropSecond, Uncount, Halfway, BothGiven, AllPlaces, Places,
           RacePlaces, Chosen, Asking, Held, InIteration, Counted, BothCounted,
           WinnerCounted, FirstCounted, SecondCounted, HasWinner
    <2>2. race[q].sel[2] \in Replicas
        BY <2>1, OnTheWay
    <2>3. /\ active' = [active EXCEPT ![race[q].sel[2]] = @ - 1]
          /\ pc' = [pc EXCEPT ![q] = p] /\ UNCHANGED queue
        BY <1>3 DEF DropSecond, Uncount, GoTo
    <2> HIDE DEF p
    <2> QED
        BY <2>1, <2>2, <2>3, BothGivenBack
<1>4. CASE DropLoser(q)
    <2> DEFINE p == "notify loser"
    <2>1. /\ pc[q] \in Chosen /\ pc[q] \in HasWinner /\ pc[q] \in Elsewhere
          /\ p \in Given
        BY <1>4 DEF DropLoser, Uncount, Given, Elsewhere, Owing, AllPlaces, Places,
           RacePlaces, Chosen, Asking, Held, InIteration, Counted, BothCounted,
           WinnerCounted, FirstCounted, SecondCounted, HasWinner
    <2>2. Loser(q) \in Replicas
        <3>1. race[q].winner_id \in Racers
            BY <2>1, OnTheWay
        <3>2. Other(race[q].winner_id) \in Racers
            BY <3>1 DEF Other, Racers
        <3>3. \A i \in Racers : race[q].sel[i] \in Replicas
            BY <2>1, OnTheWay DEF Racers
        <3> QED
            BY <3>2, <3>3 DEF Loser
    <2>3. /\ active' = [active EXCEPT ![Loser(q)] = @ - 1]
          /\ pc' = [pc EXCEPT ![q] = p] /\ UNCHANGED queue
        BY <1>4 DEF DropLoser, Uncount, GoTo
    <2> HIDE DEF p
    <2> QED
        BY <2>1, <2>2, <2>3, GivenBack
<1> QED
    BY <1>1, <1>2, <1>3, <1>4

LEMMA Notifications ==
    ASSUME HedgeInv, ToldInv, NEW q \in Requests,
           Notify(q) \/ NotifyBoth(q) \/ NotifyLoser(q), CountFreed
    PROVE  ToldInv'
<1>1. \/ \E from \in Notifying \ BothGiven, to \in Elsewhere : NotifyFor(q, from, to)
      \/ \E from \in BothGiven, to \in HalfTold : NotifyFor(q, from, to)
    <2>1. \/ NotifyFor(q, "notify", "record")
          \/ NotifyFor(q, "notify twice", "notify again")
          \/ NotifyFor(q, "notify again", "lost")
          \/ NotifyFor(q, "notify loser", "record winner")
        BY DEF Notify, NotifyBoth, NotifyLoser, NotifyFor
    <2>2. /\ {"notify", "notify again", "notify loser"} \subseteq Notifying \ BothGiven
          /\ {"record", "lost", "record winner"} \subseteq Elsewhere
        BY DEF Notifying, BothGiven, Elsewhere, Owing, AllPlaces, Places, RacePlaces,
           Chosen, Asking, Held, InIteration, Counted, BothCounted, WinnerCounted,
           FirstCounted, SecondCounted, HasWinner
    <2>3. "notify twice" \in BothGiven /\ "notify again" \in HalfTold
        BY DEF BothGiven, HalfTold
    <2> QED
        BY <2>1, <2>2, <2>3
<1> QED
    BY <1>1, NotifyForStep

LEMMA ToldKeeps ==
    ASSUME HedgeInv, ToldInv, [HedgeNext]_hedgeVars
    PROVE  ToldInv'
<1>1. CASE HedgeNext
    <2>1. CountFreed
        BY <1>1 DEF HedgeNext
    <2>2. ASSUME NEW q \in Requests, InferHedged(q)
          PROVE  ToldInv'
        BY <2>1, <2>2, RaceMoves, AnswerMoves, ElsewhereMove, GivingBack, Notifications
        DEF InferHedged
    <2>3. ASSUME NEW q \in Requests, Infer(q)
          PROVE  ToldInv'
        BY <2>1, <2>3, LoopMoves, StreamMoves, ElsewhereMove, WaitingTold, GivingBack,
           Notifications DEF Infer
    <2>4. ASSUME NEW q \in Requests, NEW i \in Racers, Reads(q, i) \/ Signals(q, i)
          PROVE  ToldInv'
        BY <2>1, <2>4, StandStill
        DEF Reads, Signals, ReadToken, ReadFails, Exchange, SetPromise, vars, registry
    <2>5. CASE EnvironmentStep
        BY <2>1, <2>5, StandStill
        DEF EnvironmentStep, ClientCancels, RoutabilityChanges, CooldownElapses,
           AllReturned,
            vars, registry
    <2> QED
        BY <1>1, <2>2, <2>3, <2>4, <2>5 DEF HedgeNext, HandlerStep
<1>2. CASE UNCHANGED hedgeVars
    <2>1. pc' = pc /\ qpc' = qpc /\ serving_ticket' = serving_ticket /\ freed' = freed
        BY <1>2 DEF hedgeVars, vars, queue
    <2>2. Untold' = Untold
        BY <2>1 DEF Untold, Owes
    <2> QED
        BY <2>1, <2>2 DEF ToldInv, EverySlotTold
<1> QED
    BY <1>1, <1>2

LEMMA ToldAtFirst == HedgeInit => ToldInv
<1> SUFFICES ASSUME HedgeInit
             PROVE  ToldInv
    OBVIOUS
<1>1. /\ pc = [q \in Requests |-> "loop"] /\ qpc = [q \in Requests |-> "out"]
      /\ serving_ticket = 0 /\ freed = 0
    BY DEF HedgeInit, Init, Queue!QueueInit
<1>2. \A q \in Requests : QueueOK(pc[q], qpc[q])
    BY <1>1 DEF QueueOK, Notifying, Owing
<1>3. Untold = {}
    BY <1>1 DEF Untold, Owes
<1>4. EverySlotTold
    BY <1>1, <1>3, FS_EmptySet DEF EverySlotTold
<1> QED
    BY <1>1, <1>2, <1>4 DEF ToldInv

\* Every slot that Infer or InferHedged gives back is told to the queue, once.
THEOREM EverySlotToldHolds == HedgeSpec => []EverySlotTold
<1>1. HedgeInv /\ ToldInv /\ [HedgeNext]_hedgeVars => ToldInv'
    BY ToldKeeps
<1>2. ToldInv => EverySlotTold
    BY DEF ToldInv
<1>3. HedgeSpec => []HedgeInv
    BY Invariance
<1>4. HedgeSpec => HedgeInit /\ [][HedgeNext]_hedgeVars
    BY DEF HedgeSpec
<1> QED
    BY <1>1, <1>2, <1>3, <1>4, ToldAtFirst, PTL
-----------------------------------------------------------------------------
(* With hedging, too, the breakers' protocol is kept                       *)

\* When a request's racers have been joined, they have ended; the loser is
\* recorded if it had a token.
AfterJoin == {"drop first", "drop second", "notify twice", "notify again", "lost",
              "drop loser", "notify loser", "record winner", "record loser", "first token"}

Joined ==
    \A q \in Requests :
        /\ pc[q] \in AfterJoin => \A i \in Racers : race[q].phase[i] = "ended"
        /\ pc[q] = "record loser" => race[q].success[Other(race[q].winner_id)]

\* A handler's step changes its own request only.
Alone(q) ==
    \A u \in Requests \ {q} :
        pc'[u] = pc[u] /\ local'[u] = local[u] /\ race'[u] = race[u]

LEMMA HandlersAlone ==
    ASSUME HedgeInv, NEW q \in Requests, HandlerStep(q)
    PROVE  Alone(q)
<1> USE DEF Alone
<1>0. /\ pc \in [Requests -> AllPlaces]
      /\ local \in [Requests -> Locals]
      /\ race \in [Requests -> Races]
    BY DEF HedgeInv, ThreadsTyped
<1>1. CASE EnterHedged(q) \/ SelectFirst(q) \/ SelectSecond(q)
    BY <1>0, <1>1 DEF EnterHedged, SelectFirst, SelectSecond, Return, GoTo
<1>2. CASE \/ CountFirst(q) \/ CountSecond(q) \/ WaitForWinner(q) \/ JoinRacers(q)
           \/ DropFirst(q) \/ DropSecond(q) \/ DropLoser(q)
    BY <1>0, <1>2
    DEF CountFirst, CountSecond, Count, WaitForWinner, JoinRacers, DropFirst,
        DropSecond, DropLoser, Uncount, GoTo
<1>3. CASE NotifyBoth(q) \/ NotifyLoser(q)
    BY <1>0, <1>3 DEF NotifyBoth, NotifyLoser, NotifyFor, GoTo
<1>4. CASE RecordWinner(q) \/ RecordLoser(q) \/ WriteFirst(q)
    BY <1>0, <1>4 DEF RecordWinner, RecordLoser, Success, WriteFirst, GoTo
<1>5. CASE ReturnLost(q) \/ ReturnWon(q) \/ ReturnSingle(q)
    BY <1>0, <1>5 DEF ReturnLost, ReturnWon, ReturnSingle, Return, GoTo
<1>6. CASE Infer(q) /\ UNCHANGED race
    <2>1. CASE ReturnCancelled(q) \/ ReturnAfterLoop(q) \/ LeaveQueue(q)
        BY <1>0, <1>6, <2>1 DEF ReturnCancelled, ReturnAfterLoop, LeaveQueue, Return, GoTo
    <2>2. CASE Select(q) \/ Reselect(q) \/ Admit(q)
        BY <1>0, <1>6, <2>2 DEF Select, Reselect, Admit, SelectOne, NextAttempt, GoTo
    <2>3. CASE RecordFailedStream(q) \/ RecordEndedStream(q)
        BY <1>0, <1>6, <2>3 DEF RecordFailedStream, RecordEndedStream, NextAttempt, Return, GoTo
    <2>4. CASE \/ WaitInQueue(q) \/ Dispatch(q) \/ ForwardToken(q) \/ StreamEnds(q)
               \/ StreamFails(q) \/ Release(q) \/ Notify(q)
        BY <1>0, <1>6, <2>4
        DEF WaitInQueue, Dispatch, ForwardToken, StreamEnds, StreamFails, Release, Notify, GoTo
    <2> QED
        BY <1>6, <2>1, <2>2, <2>3, <2>4 DEF Infer
<1> QED
    BY <1>1, <1>2, <1>3, <1>4, <1>5, <1>6 DEF HandlerStep, InferHedged

\* A racer's step changes its request's race only, and not the selections.
LEMMA RacersAlone ==
    ASSUME HedgeInv, NEW q \in Requests, NEW i \in Racers, Reads(q, i) \/ Signals(q, i)
    PROVE  /\ UNCHANGED vars
           /\ \A u \in Requests \ {q} : race'[u] = race[u]
           /\ race'[q].path = race[q].path /\ race'[q].sel = race[q].sel
           /\ race'[q].winner_id = race[q].winner_id
           /\ race[q].phase[i] # "ended"
           /\ race'[q].phase[Other(i)] = race[q].phase[Other(i)]
<1>0. race \in [Requests -> Races] /\ race[q] \in Races
    BY DEF HedgeInv, ThreadsTyped
<1>1. Other(i) # i /\ Other(i) \in Racers
    BY DEF Other, Racers
<1>2. CASE ReadToken(q, i)
    BY <1>0, <1>1, <1>2 DEF ReadToken, Races
<1>3. CASE ReadFails(q, i)
    BY <1>0, <1>1, <1>3 DEF ReadFails, Races
<1>4. CASE Exchange(q, i)
    BY <1>0, <1>1, <1>4 DEF Exchange, Races
<1>5. CASE SetPromise(q, i)
    BY <1>0, <1>1, <1>5 DEF SetPromise, Races
<1> QED
    BY <1>2, <1>3, <1>4, <1>5 DEF Reads, Signals

\* Infer's steps lie outside the race.
LEMMA InferLeavesRace ==
    ASSUME HedgeInv, NEW q \in Requests, Infer(q)
    PROVE  pc[q] \in Places /\ pc'[q] \in Places
<1>0. pc \in [Requests -> AllPlaces]
    BY DEF HedgeInv, ThreadsTyped
<1> QED
    BY <1>0
    DEF Infer, ReturnCancelled, ReturnAfterLoop, LeaveQueue, Select, Reselect, Admit,
        RecordFailedStream, RecordEndedStream, WaitInQueue, Dispatch, ForwardToken,
        StreamEnds, StreamFails, Release, Notify, SelectOne, NextAttempt, Return,
        GoTo, Places

LEMMA JoinedKept ==
    ASSUME HedgeInv, Joined, [HedgeNext]_hedgeVars
    PROVE  Joined'
<1>0. /\ pc \in [Requests -> AllPlaces]
      /\ race \in [Requests -> Races]
    BY DEF HedgeInv, ThreadsTyped
<1>1. ASSUME NEW q \in Requests, HandlerStep(q),
             pc'[q] \in AfterJoin =>
                \/ pc[q] \in AfterJoin /\ race'[q].phase = race[q].phase
                \/ \A i \in Racers : race'[q].phase[i] = "ended",
             pc'[q] = "record loser" => race'[q].success[Other(race'[q].winner_id)]
      PROVE  Joined'
    <2>1. /\ pc[q] \in AfterJoin => \A i \in Racers : race[q].phase[i] = "ended"
          /\ \A u \in Requests \ {q} : pc'[u] = pc[u] /\ race'[u] = race[u]
        BY <1>1, HandlersAlone DEF Joined, Alone
    <2>2. ASSUME NEW u \in Requests, pc'[u] \in AfterJoin, NEW i \in Racers
          PROVE  race'[u].phase[i] = "ended"
        <3>1. CASE u = q
            BY <1>1, <2>1, <2>2, <3>1
        <3>2. CASE u # q
            BY <2>1, <2>2, <3>2 DEF Joined
        <3> QED
            BY <3>1, <3>2
    <2>3. ASSUME NEW u \in Requests, pc'[u] = "record loser"
          PROVE  race'[u].success[Other(race'[u].winner_id)]
        <3>1. CASE u = q
            BY <1>1, <2>3, <3>1
        <3>2. CASE u # q
            BY <2>1, <2>3, <3>2 DEF Joined
        <3> QED
            BY <3>1, <3>2
    <2> QED
        BY <2>2, <2>3 DEF Joined
<1>2. ASSUME NEW q \in Requests, InferHedged(q) PROVE Joined'
    <2>0. race[q] \in Races /\ HandlerStep(q)
        BY <1>0, <1>2 DEF HandlerStep
    <2>1. CASE \/ EnterHedged(q) \/ SelectFirst(q) \/ SelectSecond(q) \/ CountFirst(q)
               \/ CountSecond(q) \/ WaitForWinner(q) \/ WriteFirst(q)
               \/ ReturnLost(q) \/ ReturnWon(q) \/ ReturnSingle(q)
        <3>1. pc'[q] \notin AfterJoin
            BY <1>0, <2>1
            DEF EnterHedged, AtEntry, SelectFirst, SelectSecond, CountFirst, CountSecond,
                Count, WaitForWinner, WriteFirst, ReturnLost, ReturnWon, ReturnSingle,
                Return, GoTo, AfterJoin
        <3> QED
            BY <1>1, <2>0, <3>1 DEF AfterJoin
    <2>2. CASE JoinRacers(q)
        <3>1. pc'[q] # "record loser"
            BY <1>0, <2>2 DEF JoinRacers, GoTo
        <3> QED
            BY <1>1, <2>0, <2>2, <3>1 DEF JoinRacers
    <2>3. CASE \/ DropFirst(q) \/ DropSecond(q) \/ NotifyBoth(q) \/ DropLoser(q)
               \/ NotifyLoser(q) \/ RecordWinner(q) \/ RecordLoser(q)
        <3>1. pc[q] \in AfterJoin /\ race' = race
            BY <2>3
            DEF DropFirst, DropSecond, NotifyBoth, DropLoser, NotifyLoser, RecordWinner,
                RecordLoser, Uncount, NotifyFor, Success, AfterJoin
        <3>2. pc'[q] = "record loser" => RecordWinner(q)
            BY <1>0, <2>3
            DEF DropFirst, DropSecond, NotifyBoth, DropLoser, NotifyLoser, RecordLoser,
                Uncount, NotifyFor, Success, GoTo
        <3>3. RecordWinner(q) /\ pc'[q] = "record loser"
                => race[q].success[Other(race[q].winner_id)]
            BY <1>0 DEF RecordWinner, Success, GoTo
        <3> QED
            BY <1>1, <2>0, <3>1, <3>2, <3>3
    <2> QED
        BY <1>2, <2>1, <2>2, <2>3 DEF InferHedged
<1>3. ASSUME NEW q \in Requests, HandlerStep(q), Infer(q) PROVE Joined'
    <2>1. pc'[q] \notin AfterJoin
        BY <1>3, InferLeavesRace DEF AfterJoin, Places
    <2> QED
        BY <1>1, <1>3, <2>1 DEF AfterJoin
<1>4. ASSUME NEW q \in Requests, NEW i \in Racers, Reads(q, i) \/ Signals(q, i)
      PROVE  Joined'
    <2>1. /\ pc' = pc
          /\ \A u \in Requests \ {q} : race'[u] = race[u]
          /\ race[q].phase[i] # "ended"
        BY <1>4, RacersAlone DEF vars
    <2>2. pc[q] \notin AfterJoin /\ pc[q] # "record loser"
        BY <2>1 DEF Joined, AfterJoin
    <2> QED
        BY <2>1, <2>2 DEF Joined
<1>5. CASE EnvironmentStep
    BY <1>5
    DEF EnvironmentStep, ClientCancels, RoutabilityChanges, CooldownElapses,
        AllReturned, vars, Joined
<1>6. CASE UNCHANGED hedgeVars
    BY <1>6 DEF hedgeVars, vars, Joined
<1> QED
    BY <1>2, <1>3, <1>4, <1>5, <1>6 DEF HedgeNext, HandlerStep

-----------------------------------------------------------------------------
(* The calls of the racers and of Infer, as BreakerManager has them        *)

RaceCalls == [x \in Requests \X Racers |-> CallOf(x[1], x[2])]

\* The instance's breaker is this module's breaker.
LEMMA SameBreaker ==
    /\ RaceBreakers!NewBreaker = NewBreaker
    /\ \A b : /\ RaceBreakers!Allows(b) <=> Allows(b)
              /\ RaceBreakers!AfterAllowRequest(b) = AfterAllowRequest(b)
              /\ RaceBreakers!AfterRecordSuccess(b) = AfterRecordSuccess(b)
              /\ RaceBreakers!AfterRecordFailure(b) = AfterRecordFailure(b)
              /\ RaceBreakers!AfterCooldown(b) = AfterCooldown(b)
BY Zenon
DEF NewBreaker, RaceBreakers!NewBreaker, Allows, RaceBreakers!Allows,
    AfterAllowRequest, RaceBreakers!AfterAllowRequest,
    AfterRecordSuccess, RaceBreakers!AfterRecordSuccess,
    AfterRecordFailure, RaceBreakers!AfterRecordFailure,
    AfterCooldown, RaceBreakers!AfterCooldown, Recorded, RaceBreakers!Recorded,
    EvaluateState, RaceBreakers!EvaluateState, Open, RaceBreakers!Open,
    Slide, RaceBreakers!Slide, Failing, RaceBreakers!Failing,
    Failures, RaceBreakers!Failures, Cardinality, RaceBreakers!Cardinality

\* The history variable of the instance says which breakers are rested.
LEMMA CooledIsRested ==
    /\ Cooled = [r \in Replicas |-> Rested(breaker[r])]
    /\ Cooled' = [r \in Replicas |-> Rested(breaker'[r])]
BY DEF Cooled, Rested

LEMMA SameCall ==
    ASSUME NEW u, pc'[u] = pc[u], local'[u] = local[u], race'[u] = race[u], NEW j
    PROVE  CallOf(u, j)' = CallOf(u, j)
<1>1. Holds(u)' <=> Holds(u)
    BY DEF Holds
<1>2. StreamOf(u)' = StreamOf(u)
    BY <1>1 DEF StreamOf
<1>3. Racing(u, j)' <=> Racing(u, j)
    BY DEF Racing
<1> QED
    BY <1>1, <1>2, <1>3 DEF CallOf

LEMMA SameCooled == UNCHANGED breaker => UNCHANGED Cooled
BY DEF Cooled

\* A request's step changes its own two calls.
LEMMA TwoCalls ==
    ASSUME NEW q \in Requests, Alone(q),
           CallOf(q, 1)' = CallOf(q, 1), CallOf(q, 2)' = CallOf(q, 2)
    PROVE  RaceCalls' = RaceCalls
<1>1. \A u \in Requests \ {q}, j \in Racers : CallOf(u, j)' = CallOf(u, j)
    BY SameCall DEF Alone
<1>2. \A u \in Requests, j \in Racers : CallOf(u, j)' = CallOf(u, j)
    BY <1>1 DEF Racers
<1>3. \A x \in Requests \X Racers : CallOf(x[1], x[2])' = CallOf(x[1], x[2])
    BY <1>2
<1> QED
    BY <1>3 DEF RaceCalls

LEMMA OneCall ==
    ASSUME NEW q \in Requests, Alone(q), NEW i \in Racers,
           CallOf(q, Other(i))' = CallOf(q, Other(i))
    PROVE  RaceCalls' = [RaceCalls EXCEPT ![<<q, i>>] = CallOf(q, i)']
<1>1. \A u \in Requests \ {q}, j \in Racers : CallOf(u, j)' = CallOf(u, j)
    BY SameCall DEF Alone
<1>2. \A j \in Racers : j # i => j = Other(i)
    BY DEF Racers, Other
<1>3. \A u \in Requests, j \in Racers :
        <<u, j>> # <<q, i>> => CallOf(u, j)' = CallOf(u, j)
    BY <1>1, <1>2
<1> DEFINE C == [RaceCalls EXCEPT ![<<q, i>>] = CallOf(q, i)']
<1>4. ASSUME NEW x \in Requests \X Racers PROVE CallOf(x[1], x[2])' = C[x]
    <2>1. x = <<x[1], x[2]>> /\ x[1] \in Requests /\ x[2] \in Racers
        OBVIOUS
    <2>2. CASE x = <<q, i>>
        BY <2>2 DEF RaceCalls
    <2>3. CASE x # <<q, i>>
        BY <1>3, <2>1, <2>3 DEF RaceCalls
    <2> QED
        BY <2>2, <2>3
<1> QED
    BY <1>4 DEF RaceCalls

LEMMA TheCall ==
    ASSUME NEW q \in Requests, NEW i \in Racers
    PROVE  <<q, i>> \in Requests \X Racers /\ RaceCalls[<<q, i>>] = CallOf(q, i)
<1>1. <<q, i>> \in Requests \X Racers
    OBVIOUS
<1> QED
    BY <1>1 DEF RaceCalls

\* Nobody's call and no breaker: a step outside the protocol.
LEMMA NothingAsked ==
    ASSUME UNCHANGED breaker, RaceCalls' = RaceCalls
    PROVE  UNCHANGED RaceBreakers!managerVars
BY SameCooled DEF RaceBreakers!managerVars, RaceCalls

\* The four kinds of steps in the protocol, from what they do to a call.
LEMMA DispatchCall ==
    ASSUME NEW q \in Requests, NEW i \in Racers, NEW r \in Replicas, Alone(q),
           UNCHANGED breaker,
           CallOf(q, Other(i))' = CallOf(q, Other(i)),
           CallOf(q, i) = RaceBreakers!Idle,
           CallOf(q, i)' = [kind |-> "hedged", replica |-> r]
    PROVE  RaceBreakers!ManagerNext
<1>1. /\ RaceCalls[<<q, i>>] = RaceBreakers!Idle
      /\ RaceCalls' = [RaceCalls EXCEPT ![<<q, i>>] = [kind |-> "hedged", replica |-> r]]
    BY OneCall, TheCall
<1>2. RaceBreakers!DispatchHedged(<<q, i>>, r)
    BY <1>1, SameCooled DEF RaceBreakers!DispatchHedged, RaceCalls
<1> QED
    BY <1>2, TheCall DEF RaceBreakers!ManagerNext

LEMMA ForgetCall ==
    ASSUME NEW q \in Requests, NEW i \in Racers, NEW r, Alone(q),
           UNCHANGED breaker,
           CallOf(q, Other(i))' = CallOf(q, Other(i)),
           CallOf(q, i) = [kind |-> "hedged", replica |-> r],
           CallOf(q, i)' = RaceBreakers!Idle
    PROVE  RaceBreakers!ManagerNext
<1>1. CallOf(q, i) # RaceBreakers!Idle
    BY DEF RaceBreakers!Idle
<1>2. /\ RaceCalls[<<q, i>>] = [kind |-> "hedged", replica |-> r]
      /\ RaceCalls' = [RaceCalls EXCEPT ![<<q, i>>] = RaceBreakers!Idle]
    BY OneCall, TheCall
<1>3. RaceBreakers!ForgetHedged(<<q, i>>)
    BY <1>1, <1>2, SameCooled DEF RaceBreakers!ForgetHedged, RaceCalls
<1> QED
    BY <1>3, TheCall DEF RaceBreakers!ManagerNext

LEMMA RecordCall ==
    ASSUME HedgeInv, NEW q \in Requests, NEW i \in Racers, NEW r \in Replicas, NEW kind,
           Alone(q),
           CallOf(q, Other(i))' = CallOf(q, Other(i)),
           CallOf(q, i) = [kind |-> kind, replica |-> r],
           kind # "none",
           CallOf(q, i)' = RaceBreakers!Idle,
           \/ breaker' = [breaker EXCEPT ![r] = AfterRecordFailure(breaker[r])]
           \/ breaker' = [breaker EXCEPT ![r] = AfterRecordSuccess(breaker[r])]
    PROVE  RaceBreakers!ManagerNext
<1>1. CallOf(q, i) # RaceBreakers!Idle /\ CallOf(q, i).replica = r
    BY DEF RaceBreakers!Idle
<1>2. Sound(breaker[r]) /\ breaker \in [Replicas -> Breaker]
    BY DEF HedgeInv, BreakersSound
<1>3. Cooled' = Cooled
    <2>1. \A s \in Replicas \ {r} : breaker'[s] = breaker[s]
        BY <1>2
    <2>2. Rested(breaker'[r]) <=> Rested(breaker[r])
        BY <1>2, RecordKeepsRest
    <2>3. \A s \in Replicas : Rested(breaker'[s]) = Rested(breaker[s])
        BY <2>1, <2>2 DEF Rested
    <2> QED
        BY <2>3, CooledIsRested
<1>4. /\ RaceCalls[<<q, i>>] = CallOf(q, i)
      /\ RaceCalls' = [RaceCalls EXCEPT ![<<q, i>>] = RaceBreakers!Idle]
    BY OneCall, TheCall
<1>5. RaceBreakers!RecordFailure(<<q, i>>) \/ RaceBreakers!RecordSuccess(<<q, i>>)
    BY <1>1, <1>3, <1>4, SameBreaker
    DEF RaceBreakers!RecordFailure, RaceBreakers!RecordSuccess, RaceCalls
<1> QED
    BY <1>5, TheCall DEF RaceBreakers!ManagerNext

-----------------------------------------------------------------------------
(* Every step is a step of the breakers' protocol, or none                 *)

RacingPlaces == {"count second", "race", "join", "drop first", "drop second",
                 "drop loser", "notify loser", "record winner", "record loser"}

\* Where a request has no call.
Outside(p, w) == p \notin RacingPlaces /\ (p \notin Held \/ w.path = "race")

LEMMA OutsideIsIdle ==
    ASSUME NEW q, Outside(pc[q], race[q]), NEW j
    PROVE  CallOf(q, j) = RaceBreakers!Idle
<1>1. ~Racing(q, j)
    BY DEF Racing, Outside, RacingPlaces
<1> QED
    BY <1>1 DEF CallOf, Outside, Holds, RaceBreakers!Idle

LEMMA OutsideIsIdleThen ==
    ASSUME NEW q, Outside(pc'[q], race'[q]), NEW j
    PROVE  CallOf(q, j)' = RaceBreakers!Idle
<1>1. ~Racing(q, j)'
    BY DEF Racing, Outside, RacingPlaces
<1> QED
    BY <1>1 DEF CallOf, Outside, Holds, RaceBreakers!Idle

\* A step from outside to outside.
LEMMA StaysOutside ==
    ASSUME NEW q \in Requests, Alone(q), UNCHANGED breaker,
           Outside(pc[q], race[q]), Outside(pc'[q], race'[q])
    PROVE  UNCHANGED RaceBreakers!managerVars
<1>1. \A j : CallOf(q, j)' = CallOf(q, j)
    BY OutsideIsIdle, OutsideIsIdleThen
<1> QED
    BY <1>1, TwoCalls, NothingAsked

\* A step within a stream.
LEMMA StreamGoesOn ==
    ASSUME HedgeInv, NEW q \in Requests, UNCHANGED race, HandlerStep(q),
           \/ Dispatch(q) \/ ForwardToken(q) \/ StreamEnds(q) \/ StreamFails(q)
           \/ Release(q) \/ Notify(q)
    PROVE  UNCHANGED RaceBreakers!managerVars
<1>1. pc \in [Requests -> AllPlaces] /\ local \in [Requests -> Locals] /\ local[q] \in Locals
    BY DEF HedgeInv, ThreadsTyped
<1>2. /\ pc[q] \in Held /\ pc'[q] \in Held /\ breaker' = breaker
      /\ local'[q].probe = local[q].probe /\ local'[q].selection = local[q].selection
    <2>1. CASE ForwardToken(q) \/ StreamFails(q)
        BY <1>1, <2>1 DEF ForwardToken, StreamFails, GoTo, Held, Locals
    <2>2. CASE Dispatch(q) \/ StreamEnds(q) \/ Release(q) \/ Notify(q)
        BY <1>1, <2>2 DEF Dispatch, StreamEnds, Release, Notify, GoTo, Held
    <2> QED
        BY <2>1, <2>2
<1>3. \A j : ~Racing(q, j) /\ ~Racing(q, j)'
    BY <1>2 DEF Racing, Held
<1>4. \A j : CallOf(q, j)' = CallOf(q, j)
    BY <1>2, <1>3 DEF CallOf, Holds, StreamOf
<1> QED
    BY <1>2, <1>4, HandlersAlone, TwoCalls, NothingAsked

\* A request that Infer is let through with is the instance's AllowRequest.
LEMMA AdmitIsAllow ==
    ASSUME HedgeInv, NEW q \in Requests, HandlerStep(q), UNCHANGED race,
           Admit(q), Allows(breaker[local[q].selection])
    PROVE  RaceBreakers!ManagerNext
<1> DEFINE r == local[q].selection
           kind == IF breaker[r].state = "CLOSED" THEN "normal" ELSE "probe"
<1>1. /\ pc \in [Requests -> AllPlaces] /\ local \in [Requests -> Locals]
      /\ local[q] \in Locals /\ race[q] \in Races
    BY DEF HedgeInv, ThreadsTyped
<1>2. /\ pc[q] = "admit" /\ pc'[q] = "dispatch"
      /\ local'[q].probe = (breaker[r].state # "CLOSED")
      /\ local'[q].selection = r
      /\ breaker' = [breaker EXCEPT ![r] = AfterAllowRequest(breaker[r])]
    BY <1>1 DEF Admit, GoTo, Locals
<1>3. r \in Replicas /\ race[q].path \in {"infer", "fallback"}
    BY <1>2, Before DEF LocalOK, PathOK, Asking
<1>4. Sound(breaker[r]) /\ breaker \in [Replicas -> Breaker]
    BY <1>3 DEF HedgeInv, BreakersSound
<1>5. Outside(pc[q], race[q])
    BY <1>2 DEF Outside, RacingPlaces, Held
<1>6. 1 \in Racers /\ Other(1) = 2
    BY DEF Racers, Other
<1>7. \A j : ~Racing(q, j)'
    BY <1>2 DEF Racing
<1>8. CallOf(q, 2)' = RaceBreakers!Idle
    BY <1>7 DEF CallOf, RaceBreakers!Idle
<1>9. CallOf(q, 1)' = [kind |-> kind, replica |-> r]
    <2>1. race'[q].path \notin {"single", "race"} /\ Holds(q)'
        BY <1>2, <1>3 DEF Holds, Held
    <2>2. StreamOf(q)' = [kind |-> kind, replica |-> r]
        BY <1>2, <2>1 DEF StreamOf
    <2>3. CallOf(q, 1)' = StreamOf(q)'
        BY <1>7, <2>1 DEF CallOf
    <2> QED
        BY <2>2, <2>3
<1>10. /\ RaceCalls[<<q, 1>>] = RaceBreakers!Idle
       /\ RaceCalls' = [RaceCalls EXCEPT ![<<q, 1>>] = [kind |-> kind, replica |-> r]]
    <2>1. CallOf(q, 1) = RaceBreakers!Idle /\ CallOf(q, 2) = RaceBreakers!Idle
        BY <1>5, OutsideIsIdle
    <2> QED
        BY <1>6, <1>8, <1>9, <2>1, HandlersAlone, OneCall, TheCall
<1>11. Cooled' = [Cooled EXCEPT ![r] = (kind = "normal") /\ Cooled[r]]
    <2>1. ASSUME NEW s \in Replicas
          PROVE  Cooled'[s] = IF s = r THEN (kind = "normal") /\ Cooled[r] ELSE Cooled[s]
        <3>1. CASE s = r
            <4>1. breaker'[r] = AfterAllowRequest(breaker[r])
                BY <1>2, <1>3, <1>4
            <4>2. ~Rested(breaker'[r])
                BY <1>4, <4>1, AllowUnrests
            <4>3. breaker[r].state = "CLOSED" => ~Rested(breaker[r])
                BY DEF Rested
            <4>4. Cooled'[r] = Rested(breaker'[r]) /\ Cooled[r] = Rested(breaker[r])
                BY <1>3, CooledIsRested
            <4>5. Cooled'[r] = FALSE /\ ((kind = "normal") /\ Cooled[r]) = FALSE
                BY <4>2, <4>3, <4>4 DEF Rested
            <4> QED
                BY <3>1, <4>5
        <3>2. CASE s # r
            <4>1. breaker'[s] = breaker[s]
                BY <1>2, <1>4, <3>2
            <4> QED
                BY <3>2, <4>1 DEF Cooled
        <3> QED
            BY <3>1, <3>2
    <2> QED
        BY <2>1 DEF Cooled
<1>12. RaceBreakers!AllowRequest(<<q, 1>>, r)
    BY <1>2, <1>10, <1>11, SameBreaker DEF RaceBreakers!AllowRequest, RaceCalls, Admit
<1> QED
    BY <1>3, <1>6, <1>12, TheCall DEF RaceBreakers!ManagerNext

\* The outcome that Infer records is the instance's, for the replica it asked.
LEMMA RecordIsRecord ==
    ASSUME HedgeInv, NEW q \in Requests, HandlerStep(q), RunsInfer(q), UNCHANGED race,
           RecordFailedStream(q) \/ RecordEndedStream(q)
    PROVE  RaceBreakers!ManagerNext
<1> DEFINE r == local[q].selection
           kind == IF local[q].probe THEN "probe" ELSE "normal"
<1>1. pc \in [Requests -> AllPlaces] /\ race[q] \in Races
    BY DEF HedgeInv, ThreadsTyped
<1>2. /\ pc[q] = "record" /\ pc'[q] \in {"loop", "done"}
      /\ \/ breaker' = [breaker EXCEPT ![r] = AfterRecordFailure(breaker[r])]
         \/ breaker' = [breaker EXCEPT ![r] = AfterRecordSuccess(breaker[r])]
    BY <1>1 DEF RecordFailedStream, RecordEndedStream, NextAttempt, Return, GoTo
<1>3. r \in Replicas
    BY <1>2, Before DEF LocalOK, Held
<1>4. race[q].path \notin {"single", "race"}
    BY <1>2 DEF RunsInfer
<1>5. Outside(pc'[q], race'[q])
    BY <1>2 DEF Outside, RacingPlaces, Held
<1>6. \A j : ~Racing(q, j)
    BY <1>2 DEF Racing
<1>7. CallOf(q, 2) = RaceBreakers!Idle
    BY <1>6 DEF CallOf, RaceBreakers!Idle
<1>8. CallOf(q, 1) = [kind |-> kind, replica |-> r]
    BY <1>2, <1>4, <1>6 DEF CallOf, StreamOf, Holds, Held
<1>9. CallOf(q, 1)' = RaceBreakers!Idle /\ CallOf(q, 2)' = RaceBreakers!Idle
    BY <1>5, OutsideIsIdleThen
<1>10. 1 \in Racers /\ Other(1) = 2 /\ kind # "none"
    BY DEF Racers, Other
<1> HIDE DEF r, kind
<1> QED
    BY <1>2, <1>3, <1>7, <1>8, <1>9, <1>10, HandlersAlone, RecordCall

\* Infer, as long as no race is on.
LEMMA InferIsProtocol ==
    ASSUME HedgeInv, NEW q \in Requests, RunsInfer(q), Infer(q), UNCHANGED race
    PROVE  [RaceBreakers!ManagerNext]_(RaceBreakers!managerVars)
<1>0. HandlerStep(q)
    BY DEF HandlerStep
<1>1. pc \in [Requests -> AllPlaces]
    BY DEF HedgeInv, ThreadsTyped
<1>2. CASE RecordFailedStream(q) \/ RecordEndedStream(q)
    BY <1>0, <1>2, RecordIsRecord
<1>3. CASE Admit(q) /\ Allows(breaker[local[q].selection])
    BY <1>0, <1>3, AdmitIsAllow
<1>4. CASE \/ Dispatch(q) \/ ForwardToken(q) \/ StreamEnds(q) \/ StreamFails(q)
           \/ Release(q) \/ Notify(q)
    BY <1>0, <1>4, StreamGoesOn
<1>5. CASE \/ ReturnCancelled(q) \/ Select(q) \/ WaitInQueue(q) \/ LeaveQueue(q)
           \/ Reselect(q) \/ ReturnAfterLoop(q)
           \/ Admit(q) /\ ~Allows(breaker[local[q].selection])
    <2>1. /\ breaker' = breaker
          /\ pc[q] \in Asking /\ pc'[q] \in Asking \cup {"done"}
        BY <1>1, <1>5
        DEF ReturnCancelled, Select, WaitInQueue, LeaveQueue, Reselect, Admit,
            ReturnAfterLoop, SelectOne, Return, NextAttempt, GoTo, Asking
    <2>2. Outside(pc[q], race[q]) /\ Outside(pc'[q], race'[q])
        BY <2>1 DEF Outside, Asking, RacingPlaces, Held
    <2> QED
        BY <1>0, <2>1, <2>2, HandlersAlone, StaysOutside
<1> QED
    BY <1>2, <1>3, <1>4, <1>5 DEF Infer

\* A step of the race that leaves both racers' calls where they are.
LEMMA RaceGoesOn ==
    ASSUME HedgeInv, NEW q \in Requests, InferHedged(q), HandlerStep(q),
           \/ WaitForWinner(q) \/ JoinRacers(q) \/ NotifyLoser(q)
    PROVE  UNCHANGED RaceBreakers!managerVars
<1>1. /\ pc \in [Requests -> AllPlaces] /\ race \in [Requests -> Races]
      /\ race[q] \in Races
    BY DEF HedgeInv, ThreadsTyped
<1>2. /\ breaker' = breaker
      /\ race'[q].path = race[q].path /\ race'[q].sel = race[q].sel
      /\ race'[q].success = race[q].success
    <2>1. CASE WaitForWinner(q)
        BY <1>1, <2>1 DEF WaitForWinner, Races
    <2>2. CASE JoinRacers(q) \/ NotifyLoser(q)
        BY <2>2 DEF JoinRacers, NotifyLoser, NotifyFor
    <2> QED
        BY <2>1, <2>2
<1>3. ASSUME NEW j \in Racers, Racing(q, j)' <=> Racing(q, j) PROVE CallOf(q, j)' = CallOf(q, j)
    <2>1. pc[q] \notin Held /\ pc'[q] \notin Held
        BY <1>1 DEF WaitForWinner, JoinRacers, NotifyLoser, NotifyFor, GoTo, Held
    <2> QED
        BY <1>2, <1>3, <2>1 DEF CallOf, Holds
<1>4. \A j \in Racers : Racing(q, j)' <=> Racing(q, j)
    <2>1. CASE WaitForWinner(q)
        <3>1. pc[q] = "race" /\ pc'[q] = "join"
            BY <1>1, <2>1 DEF WaitForWinner, GoTo
        <3> QED
            BY <3>1 DEF Racing
    <2>2. CASE JoinRacers(q)
        <3>1. pc[q] = "join" /\ pc'[q] \in {"drop first", "drop loser"}
            BY <1>1, <2>2 DEF JoinRacers, GoTo
        <3> QED
            BY <3>1 DEF Racing, Racers
    <2>3. CASE NotifyLoser(q)
        <3>1. /\ pc[q] = "notify loser" /\ pc'[q] \in {"notify loser", "record winner"}
              /\ race' = race
            BY <1>1, <2>3 DEF NotifyLoser, NotifyFor, GoTo
        <3> QED
            BY <3>1 DEF Racing
    <2> QED
        BY <2>1, <2>2, <2>3
<1>5. CallOf(q, 1)' = CallOf(q, 1) /\ CallOf(q, 2)' = CallOf(q, 2)
    BY <1>3, <1>4 DEF Racers
<1> QED
    BY <1>2, <1>5, HandlersAlone, TwoCalls, NothingAsked

\* A racer's call, where there is one and where there is none.
LEMMA RacersCall ==
    ASSUME NEW q, NEW i
    PROVE  /\ Racing(q, i) => CallOf(q, i) = [kind |-> "hedged", replica |-> race[q].sel[i]]
           /\ ~Racing(q, i) /\ pc[q] \notin Held => CallOf(q, i) = RaceBreakers!Idle
           /\ Racing(q, i)' =>
                CallOf(q, i)' = [kind |-> "hedged", replica |-> race'[q].sel[i]]
           /\ ~Racing(q, i)' /\ pc'[q] \notin Held => CallOf(q, i)' = RaceBreakers!Idle
BY DEF CallOf, Holds, RaceBreakers!Idle

\* Both replicas are dispatched to without asking their breakers.
LEMMA CountIsDispatch ==
    ASSUME HedgeInv, NEW q \in Requests, HandlerStep(q), CountFirst(q) \/ CountSecond(q)
    PROVE  RaceBreakers!ManagerNext
<1>0. 1 \in Racers /\ 2 \in Racers /\ Other(1) = 2 /\ Other(2) = 1 /\ 1 # 2
    BY DEF Racers, Other
<1>1. /\ pc \in [Requests -> AllPlaces] /\ race \in [Requests -> Races]
      /\ race[q] \in Races
    BY DEF HedgeInv, ThreadsTyped
<1>2. CASE CountFirst(q)
    <2>1. /\ pc[q] = "count first" /\ pc'[q] = "count second"
          /\ race' = race /\ breaker' = breaker
        BY <1>1, <1>2 DEF CountFirst, Count, GoTo
    <2>2. PICK r \in Replicas : r = race[q].sel[1]
        BY <2>1, OnTheWay DEF Chosen, RacePlaces
    <2>3. /\ ~Racing(q, 1) /\ ~Racing(q, 2) /\ Racing(q, 1)' /\ ~Racing(q, 2)'
          /\ pc[q] \notin Held /\ pc'[q] \notin Held
        BY <1>0, <2>1 DEF Racing, Held
    <2>4. /\ CallOf(q, 1) = RaceBreakers!Idle
          /\ CallOf(q, 1)' = [kind |-> "hedged", replica |-> r]
          /\ CallOf(q, 2)' = CallOf(q, 2)
        BY <2>1, <2>2, <2>3, RacersCall
    <2> QED
        BY <1>0, <2>1, <2>4, HandlersAlone, DispatchCall
<1>3. CASE CountSecond(q)
    <2>1. /\ pc[q] = "count second" /\ pc'[q] = "race"
          /\ race'[q].sel = race[q].sel /\ breaker' = breaker
        BY <1>1, <1>3 DEF CountSecond, Count, GoTo, Races
    <2>2. PICK r \in Replicas : r = race[q].sel[2]
        BY <2>1, OnTheWay DEF Chosen, RacePlaces
    <2>3. /\ Racing(q, 1) /\ ~Racing(q, 2) /\ Racing(q, 1)' /\ Racing(q, 2)'
          /\ pc[q] \notin Held /\ pc'[q] \notin Held
        BY <1>0, <2>1 DEF Racing, Held
    <2>4. /\ CallOf(q, 2) = RaceBreakers!Idle
          /\ CallOf(q, 2)' = [kind |-> "hedged", replica |-> r]
          /\ CallOf(q, 1)' = CallOf(q, 1)
        BY <2>1, <2>2, <2>3, RacersCall
    <2> QED
        BY <1>0, <2>1, <2>4, HandlersAlone, DispatchCall
<1> QED
    BY <1>2, <1>3

\* Without a second replica, too; only then Infer's places are used.
LEMMA SelectSecondIsProtocol ==
    ASSUME HedgeInv, NEW q \in Requests, HandlerStep(q), SelectSecond(q)
    PROVE  [RaceBreakers!ManagerNext]_(RaceBreakers!managerVars)
<1>0. 1 \in Racers /\ Other(1) = 2
    BY DEF Racers, Other
<1>1. /\ pc \in [Requests -> AllPlaces] /\ race \in [Requests -> Races]
      /\ local \in [Requests -> Locals] /\ race[q] \in Races /\ local[q] \in Locals
    BY DEF HedgeInv, ThreadsTyped
<1>2. pc[q] = "second choice" /\ breaker' = breaker
    BY DEF SelectSecond
<1>3. Outside(pc[q], race[q]) /\ race[q].sel[1] \in Replicas
    BY <1>2, Before DEF Outside, RacingPlaces, Held, PathOK
<1>4. CASE pc'[q] = "count first"
    <2>1. Outside(pc'[q], race'[q])
        BY <1>4 DEF Outside, RacingPlaces, Held
    <2> QED
        BY <1>2, <1>3, <2>1, HandlersAlone, StaysOutside
<1>5. CASE /\ race' = [race EXCEPT ![q].path = "single"]
           /\ local' = [local EXCEPT ![q].selection = race[q].sel[1]]
           /\ pc'[q] = "dispatch"
    <2>1. race'[q].path = "single" /\ local'[q].selection = race[q].sel[1]
        BY <1>1, <1>5 DEF Races, Locals
    <2>2. \A j : ~Racing(q, j)'
        BY <1>5 DEF Racing
    <2>3. /\ CallOf(q, 1)' = [kind |-> "hedged", replica |-> race[q].sel[1]]
          /\ CallOf(q, 2)' = RaceBreakers!Idle
        BY <1>5, <2>1, <2>2 DEF CallOf, Holds, Held, RaceBreakers!Idle
    <2>4. CallOf(q, 1) = RaceBreakers!Idle /\ CallOf(q, 2) = RaceBreakers!Idle
        BY <1>3, OutsideIsIdle
    <2> QED
        BY <1>0, <1>2, <1>3, <2>3, <2>4, HandlersAlone, DispatchCall
<1> QED
    BY <1>1, <1>2, <1>4, <1>5 DEF SelectSecond, GoTo

\* Slots that are given up without an outcome.
LEMMA DropIsForget ==
    ASSUME HedgeInv, NEW q \in Requests, HandlerStep(q),
           DropFirst(q) \/ DropSecond(q) \/ DropLoser(q)
    PROVE  [RaceBreakers!ManagerNext]_(RaceBreakers!managerVars)
<1>0. /\ 1 \in Racers /\ 2 \in Racers /\ Other(1) = 2 /\ Other(2) = 1 /\ 1 # 2
      /\ \A i \in Racers : Other(i) \in Racers /\ Other(i) # i /\ Other(Other(i)) = i
    BY DEF Racers, Other
<1>1. /\ pc \in [Requests -> AllPlaces] /\ race \in [Requests -> Races]
      /\ race[q] \in Races
    BY DEF HedgeInv, ThreadsTyped
<1>2. race' = race /\ breaker' = breaker
    BY DEF DropFirst, DropSecond, DropLoser, Uncount
<1>3. CASE DropFirst(q)
    <2>1. pc[q] = "drop first" /\ pc'[q] = "drop second"
        BY <1>1, <1>3 DEF DropFirst, Uncount, GoTo
    <2>2. /\ Racing(q, 1) /\ Racing(q, 2) /\ ~Racing(q, 1)' /\ Racing(q, 2)'
          /\ pc[q] \notin Held /\ pc'[q] \notin Held
        BY <1>0, <2>1 DEF Racing, Held
    <2> QED
        BY <1>0, <1>2, <2>2, RacersCall, HandlersAlone, ForgetCall
<1>4. CASE DropSecond(q)
    <2>1. pc[q] = "drop second" /\ pc'[q] = "notify twice"
        BY <1>1, <1>4 DEF DropSecond, Uncount, GoTo
    <2>2. /\ ~Racing(q, 1) /\ Racing(q, 2) /\ ~Racing(q, 1)' /\ ~Racing(q, 2)'
          /\ pc[q] \notin Held /\ pc'[q] \notin Held
        BY <1>0, <2>1 DEF Racing, Held
    <2> QED
        BY <1>0, <1>2, <2>2, RacersCall, HandlersAlone, ForgetCall
<1>5. CASE DropLoser(q)
    <2>1. pc[q] = "drop loser" /\ pc'[q] = "notify loser"
        BY <1>1, <1>5 DEF DropLoser, Uncount, GoTo
    <2>2. PICK w \in Racers : w = race[q].winner_id
        BY <2>1, OnTheWay DEF Chosen, RacePlaces, HasWinner
    <2>3. PICK l \in Racers : l = Other(w) /\ w = Other(l) /\ l # w
        BY <1>0, <2>2
    <2>4. /\ Racing(q, w) /\ Racing(q, l) /\ Racing(q, w)'
          /\ pc[q] \notin Held /\ pc'[q] \notin Held
        BY <1>2, <2>1, <2>2 DEF Racing, Held
    <2>5. Racing(q, l)' <=> race[q].success[l]
        BY <1>2, <2>1, <2>2, <2>3 DEF Racing
    <2>6. CallOf(q, w)' = CallOf(q, w)
        BY <1>2, <2>4, RacersCall
    <2>7. CASE race[q].success[l]
        <3>1. CallOf(q, l)' = CallOf(q, l)
            BY <1>2, <2>4, <2>5, <2>7, RacersCall
        <3>2. (w = 1 /\ l = 2) \/ (w = 2 /\ l = 1)
            BY <2>3 DEF Racers
        <3>3. CallOf(q, 1)' = CallOf(q, 1) /\ CallOf(q, 2)' = CallOf(q, 2)
            BY <2>6, <3>1, <3>2
        <3> QED
            BY <1>2, <3>3, HandlersAlone, TwoCalls, NothingAsked
    <2>8. CASE ~race[q].success[l]
        <3>1. /\ CallOf(q, l) = [kind |-> "hedged", replica |-> race[q].sel[l]]
              /\ CallOf(q, l)' = RaceBreakers!Idle
            BY <1>2, <2>4, <2>5, <2>8, RacersCall
        <3> QED
            BY <1>2, <2>3, <2>6, <3>1, HandlersAlone, ForgetCall
    <2> QED
        BY <2>7, <2>8
<1> QED
    BY <1>3, <1>4, <1>5

\* The racers' successes, each for the replica the racer was sent to.
LEMMA SuccessIsRecord ==
    ASSUME HedgeInv, Joined, NEW q \in Requests, HandlerStep(q),
           RecordWinner(q) \/ RecordLoser(q)
    PROVE  RaceBreakers!ManagerNext
<1>1. /\ pc \in [Requests -> AllPlaces] /\ race \in [Requests -> Races]
      /\ race[q] \in Races
    BY DEF HedgeInv, ThreadsTyped
<1>2. race' = race /\ pc[q] \in {"record winner", "record loser"}
    BY DEF RecordWinner, RecordLoser, Success
<1>3. pc[q] \in Chosen /\ pc[q] \in HasWinner
    BY <1>2 DEF Chosen, RacePlaces, HasWinner, WinnerCounted
<1>4. PICK w \in Racers : w = race[q].winner_id
    BY <1>3, OnTheWay
<1>5. PICK l \in Racers : l = Other(w) /\ w = Other(l) /\ l # w
    BY DEF Racers, Other
<1>6. \A j \in Racers : race[q].sel[j] \in Replicas
    BY <1>3, OnTheWay DEF Racers
<1>7. pc[q] \notin Held /\ "hedged" # "none" /\ Alone(q)
    BY <1>2, HandlersAlone DEF Held
<1>8. CASE RecordWinner(q)
    <2>1. PICK r \in Replicas : r = race[q].sel[w]
        BY <1>6
    <2>2. /\ pc[q] = "record winner"
          /\ pc'[q] = IF race[q].success[l] THEN "record loser" ELSE "first token"
          /\ breaker' = [breaker EXCEPT ![r] = AfterRecordSuccess(breaker[r])]
        BY <1>1, <1>4, <1>5, <1>8, <2>1 DEF RecordWinner, Success, Winner, GoTo
    <2>3. Racing(q, w) /\ ~Racing(q, w)' /\ pc'[q] \notin Held
        BY <1>2, <1>4, <2>2 DEF Racing, Held
    <2>4. Racing(q, l)' <=> Racing(q, l)
        BY <1>2, <1>4, <1>5, <2>2 DEF Racing
    <2>5. /\ CallOf(q, w) = [kind |-> "hedged", replica |-> r]
          /\ CallOf(q, w)' = RaceBreakers!Idle
          /\ CallOf(q, l)' = CallOf(q, l)
        BY <1>2, <1>7, <2>1, <2>3, <2>4, RacersCall
    <2> QED
        BY <1>5, <1>7, <2>2, <2>5, RecordCall
<1>9. CASE RecordLoser(q)
    <2>1. PICK r \in Replicas : r = race[q].sel[l]
        BY <1>6
    <2>2. /\ pc[q] = "record loser" /\ pc'[q] = "first token"
          /\ breaker' = [breaker EXCEPT ![r] = AfterRecordSuccess(breaker[r])]
        BY <1>1, <1>4, <1>5, <1>9, <2>1 DEF RecordLoser, Success, Loser, GoTo
    <2>3. race[q].success[l]
        BY <1>4, <1>5, <2>2 DEF Joined
    <2>4. /\ Racing(q, l) /\ ~Racing(q, w)
          /\ ~Racing(q, w)' /\ ~Racing(q, l)' /\ pc'[q] \notin Held
        BY <1>2, <1>4, <1>5, <2>2, <2>3 DEF Racing, Held
    <2>5. /\ CallOf(q, l) = [kind |-> "hedged", replica |-> r]
          /\ CallOf(q, l)' = RaceBreakers!Idle
          /\ CallOf(q, w)' = CallOf(q, w)
        BY <1>2, <1>7, <2>1, <2>4, RacersCall
    <2> QED
        BY <1>5, <1>7, <2>2, <2>5, RecordCall
<1> QED
    BY <1>8, <1>9

\* With one replica the outcome is recorded as Infer's is.
LEMMA ReturnSingleIsRecord ==
    ASSUME HedgeInv, NEW q \in Requests, HandlerStep(q), ReturnSingle(q)
    PROVE  RaceBreakers!ManagerNext
<1> DEFINE r == local[q].selection
<1>0. 1 \in Racers /\ Other(1) = 2 /\ "hedged" # "none"
    BY DEF Racers, Other
<1>1. pc \in [Requests -> AllPlaces] /\ race[q] \in Races
    BY DEF HedgeInv, ThreadsTyped
<1>2. /\ pc[q] = "record" /\ pc'[q] = "done" /\ race[q].path = "single"
      /\ \/ breaker' = [breaker EXCEPT ![r] = AfterRecordFailure(breaker[r])]
         \/ breaker' = [breaker EXCEPT ![r] = AfterRecordSuccess(breaker[r])]
    BY <1>1 DEF ReturnSingle, Return, GoTo
<1>3. r \in Replicas
    BY <1>2, Before DEF LocalOK, Held
<1>4. Outside(pc'[q], race'[q])
    BY <1>2 DEF Outside, RacingPlaces, Held
<1>5. \A j : ~Racing(q, j)
    BY <1>2 DEF Racing
<1>6. /\ CallOf(q, 1) = [kind |-> "hedged", replica |-> r]
      /\ CallOf(q, 2) = RaceBreakers!Idle
    BY <1>2, <1>5 DEF CallOf, Holds, Held, RaceBreakers!Idle
<1>7. CallOf(q, 1)' = RaceBreakers!Idle /\ CallOf(q, 2)' = RaceBreakers!Idle
    BY <1>4, OutsideIsIdleThen
<1> HIDE DEF r
<1> QED
    BY <1>0, <1>2, <1>3, <1>6, <1>7, HandlersAlone, RecordCall

\* InferHedged's steps.
LEMMA HedgedIsProtocol ==
    ASSUME HedgeInv, Joined, NEW q \in Requests, InferHedged(q)
    PROVE  [RaceBreakers!ManagerNext]_(RaceBreakers!managerVars)
<1>0. HandlerStep(q) /\ Alone(q)
    BY HandlersAlone DEF HandlerStep
<1>1. /\ pc \in [Requests -> AllPlaces] /\ race \in [Requests -> Races]
      /\ race[q] \in Races
    BY DEF HedgeInv, ThreadsTyped
<1>2. CASE \/ WaitForWinner(q) \/ JoinRacers(q) \/ NotifyLoser(q)
    BY <1>0, <1>2, RaceGoesOn
<1>3. CASE CountFirst(q) \/ CountSecond(q)
    BY <1>0, <1>3, CountIsDispatch
<1>4. CASE SelectSecond(q)
    BY <1>0, <1>4, SelectSecondIsProtocol
<1>5. CASE DropFirst(q) \/ DropSecond(q) \/ DropLoser(q)
    BY <1>0, <1>5, DropIsForget
<1>6. CASE RecordWinner(q) \/ RecordLoser(q)
    BY <1>0, <1>6, SuccessIsRecord
<1>7. CASE ReturnSingle(q)
    BY <1>0, <1>7, ReturnSingleIsRecord
<1>8. CASE EnterHedged(q) \/ SelectFirst(q) \/ NotifyBoth(q) \/ ReturnLost(q)
    <2>1. /\ breaker' = breaker
          /\ pc[q] \in {"loop", "first choice", "notify twice", "notify again", "lost"}
          /\ pc'[q] \in {"loop", "first choice", "second choice", "notify twice",
                         "notify again", "lost", "done"}
        <3>1. CASE EnterHedged(q)
            BY <1>1, <3>1 DEF EnterHedged, AtEntry, GoTo
        <3>2. CASE SelectFirst(q)
            BY <1>1, <3>2 DEF SelectFirst, Return, GoTo
        <3>3. CASE NotifyBoth(q)
            BY <1>1, <3>3 DEF NotifyBoth, NotifyFor, GoTo
        <3>4. CASE ReturnLost(q)
            BY <1>1, <3>4 DEF ReturnLost, Return, GoTo
        <3> QED
            BY <1>8, <3>1, <3>2, <3>3, <3>4
    <2>2. Outside(pc[q], race[q]) /\ Outside(pc'[q], race'[q])
        BY <2>1 DEF Outside, RacingPlaces, Held
    <2> QED
        BY <1>0, <2>1, <2>2, StaysOutside
<1>9. CASE WriteFirst(q) \/ ReturnWon(q)
    <2>1. /\ breaker' = breaker /\ race' = race
          /\ pc[q] \in {"first token", "record"} /\ pc'[q] \in {"stream", "done"}
        BY <1>1, <1>9 DEF WriteFirst, ReturnWon, Return, GoTo
    <2>2. race[q].path = "race"
        BY <1>9, OnTheWay DEF WriteFirst, ReturnWon, Chosen, RacePlaces
    <2>3. Outside(pc[q], race[q]) /\ Outside(pc'[q], race'[q])
        BY <2>1, <2>2 DEF Outside, RacingPlaces
    <2> QED
        BY <1>0, <2>1, <2>3, StaysOutside
<1> QED
    BY <1>2, <1>3, <1>4, <1>5, <1>6, <1>7, <1>8, <1>9 DEF InferHedged

\* A racer's token decides nothing about its call until the racers are joined.
LEMMA RacerAsksNothing ==
    ASSUME HedgeInv, Joined, NEW q \in Requests, NEW i \in Racers,
           Reads(q, i) \/ Signals(q, i)
    PROVE  UNCHANGED RaceBreakers!managerVars
<1>1. /\ pc' = pc /\ local' = local /\ breaker' = breaker
      /\ \A u \in Requests \ {q} : race'[u] = race[u]
      /\ race'[q].path = race[q].path /\ race'[q].sel = race[q].sel
      /\ race[q].phase[i] # "ended"
    BY RacersAlone DEF vars
<1>2. pc[q] \notin AfterJoin
    BY <1>1 DEF Joined
<1>3. \A j : Racing(q, j)' <=> Racing(q, j)
    BY <1>1, <1>2 DEF Racing, AfterJoin
<1>4. \A j : CallOf(q, j)' = CallOf(q, j)
    BY <1>1, <1>3 DEF CallOf, Holds, StreamOf
<1>5. Alone(q)
    BY <1>1 DEF Alone
<1> QED
    BY <1>1, <1>4, <1>5, TwoCalls, NothingAsked

\* The clients, the replicas' routability and the breakers' clock.
LEMMA EnvironmentIsProtocol ==
    ASSUME HedgeInv, EnvironmentStep
    PROVE  [RaceBreakers!ManagerNext]_(RaceBreakers!managerVars)
<1>1. pc' = pc /\ local' = local /\ race' = race
    BY DEF EnvironmentStep, ClientCancels, RoutabilityChanges, CooldownElapses, AllReturned, vars
<1>2. RaceCalls' = RaceCalls
    <2>1. \A u, j : CallOf(u, j)' = CallOf(u, j)
        BY <1>1, SameCall
    <2> QED
        BY <2>1 DEF RaceCalls
<1>3. ASSUME NEW r \in Replicas, CooldownElapses(r)
      PROVE  RaceBreakers!ManagerNext
    <2>1. /\ breaker[r].state = "OPEN" /\ ~breaker[r].cooled
          /\ breaker' = [breaker EXCEPT ![r] = AfterCooldown(breaker[r])]
          /\ breaker \in [Replicas -> Breaker]
        BY <1>3 DEF CooldownElapses, HedgeInv, BreakersSound
    <2>2. breaker'[r].state = "OPEN" /\ breaker'[r].cooled = TRUE
        BY <2>1 DEF AfterCooldown, Breaker
    <2>3. \A s \in Replicas \ {r} : breaker'[s] = breaker[s]
        BY <2>1
    <2>4. Cooled' = [Cooled EXCEPT ![r] = TRUE]
        BY <2>2, <2>3 DEF Cooled
    <2>5. RaceBreakers!CooldownElapses(r)
        BY <1>2, <2>1, <2>4, SameBreaker DEF RaceBreakers!CooldownElapses, RaceCalls
    <2> QED
        BY <2>5 DEF RaceBreakers!ManagerNext
<1>4. CASE \/ \E q \in Requests : ClientCancels(q)
           \/ \E r \in Replicas : RoutabilityChanges(r)
           \/ AllReturned
    <2>1. breaker' = breaker
        BY <1>4 DEF ClientCancels, RoutabilityChanges, AllReturned, vars
    <2> QED
        BY <1>2, <2>1, NothingAsked
<1> QED
    BY <1>3, <1>4 DEF EnvironmentStep

LEMMA StepIsProtocolStep ==
    HedgeInv /\ Joined /\ [HedgeNext]_hedgeVars
        => [RaceBreakers!ManagerNext]_(RaceBreakers!managerVars)
<1> SUFFICES ASSUME HedgeInv, Joined, [HedgeNext]_hedgeVars
             PROVE  [RaceBreakers!ManagerNext]_(RaceBreakers!managerVars)
    OBVIOUS
<1>1. CASE UNCHANGED hedgeVars
    <2>1. pc' = pc /\ local' = local /\ race' = race /\ breaker' = breaker
        BY <1>1 DEF hedgeVars, vars
    <2>2. \A u, j : CallOf(u, j)' = CallOf(u, j)
        BY <2>1, SameCall
    <2>3. RaceCalls' = RaceCalls
        BY <2>2 DEF RaceCalls
    <2> QED
        BY <2>1, <2>3, NothingAsked
<1>2. ASSUME NEW q \in Requests, HandlerStep(q)
      PROVE  [RaceBreakers!ManagerNext]_(RaceBreakers!managerVars)
    BY <1>2, HedgedIsProtocol, InferIsProtocol DEF HandlerStep
<1>3. ASSUME NEW q \in Requests, NEW i \in Racers, Reads(q, i) \/ Signals(q, i)
      PROVE  [RaceBreakers!ManagerNext]_(RaceBreakers!managerVars)
    BY <1>3, RacerAsksNothing
<1> QED
    BY <1>1, <1>2, <1>3, EnvironmentIsProtocol DEF HedgeNext

\* With hedging, too, BreakerManager's protocol is kept: whatever the racers and
\* the other requests do in between, a racer's outcome is recorded at most once,
\* as a success and for the replica that the racer was sent to, and every call
\* that Infer was let through with has exactly one outcome.
THEOREM HedgingKeepsBreakerProtocol == HedgeSpec => RaceKeepsBreakerProtocol
<1>1. ASSUME HedgeInit PROVE RaceBreakers!ManagerInit
    <2>1. \A q \in Requests : pc[q] = "loop" /\ breaker = [r \in Replicas |-> NewBreaker]
        BY <1>1 DEF HedgeInit, Init
    <2>2. \A q \in Requests : \A j : CallOf(q, j) = RaceBreakers!Idle
        <3>1. \A q \in Requests : Outside(pc[q], race[q])
            BY <2>1 DEF Outside, RacingPlaces, Held
        <3> QED
            BY <3>1, OutsideIsIdle
    <2>3. breaker = [r \in Replicas |-> NewBreaker] /\ NewBreaker.state # "OPEN"
        BY <1>1 DEF HedgeInit, Init, NewBreaker
    <2>4. Cooled = [r \in Replicas |-> FALSE]
        BY <2>3 DEF Cooled
    <2>5. breaker = [r \in Replicas |-> RaceBreakers!NewBreaker]
        BY <2>3, SameBreaker
    <2>6. \A x \in Requests \X Racers : CallOf(x[1], x[2]) = RaceBreakers!Idle
        BY <2>2
    <2> QED
        BY <2>4, <2>5, <2>6 DEF RaceBreakers!ManagerInit
<1>2. HedgeInit => Joined
    BY DEF HedgeInit, Init, Joined, AfterJoin
<1>3. HedgeInv /\ Joined /\ [HedgeNext]_hedgeVars => Joined'
    BY JoinedKept
<1> QED
    BY <1>1, <1>2, <1>3, StepIsProtocolStep, Invariance, PTL
    DEF HedgeSpec, RaceKeepsBreakerProtocol, RaceBreakers!ManagerSafety

RaceTheorems == INSTANCE BreakerManagerProofs WITH
                     Callers <- Requests \X Racers,
                     call    <- [x \in Requests \X Racers |-> CallOf(x[1], x[2])],
                     waited  <- Cooled

\* The manager's theorems hold of the breakers of the gateway with hedging, whose instance in the
\* model is the same as the one that has the theorems.
LEMMA SameManager ==
    RaceKeepsBreakerProtocol => RaceTheorems!ManagerSafety
<1>1. RaceBreakers!ManagerInit => RaceTheorems!ManagerInit
    BY DEF RaceBreakers!ManagerInit, RaceTheorems!ManagerInit, RaceBreakers!Idle, RaceTheorems!Idle,
           RaceBreakers!NewBreaker, RaceTheorems!NewBreaker
<1>2. [RaceBreakers!ManagerNext]_(RaceBreakers!managerVars)
        => [RaceTheorems!ManagerNext]_(RaceTheorems!managerVars)
    BY Zenon
    DEF RaceBreakers!managerVars, RaceTheorems!managerVars,
        RaceBreakers!ManagerNext, RaceTheorems!ManagerNext,
        RaceBreakers!AllowRequest, RaceTheorems!AllowRequest,
        RaceBreakers!DispatchHedged, RaceTheorems!DispatchHedged,
        RaceBreakers!RecordSuccess, RaceTheorems!RecordSuccess,
        RaceBreakers!RecordFailure, RaceTheorems!RecordFailure,
        RaceBreakers!ForgetHedged, RaceTheorems!ForgetHedged,
        RaceBreakers!CooldownElapses, RaceTheorems!CooldownElapses,
        RaceBreakers!Idle, RaceTheorems!Idle,
        RaceBreakers!NewBreaker, RaceTheorems!NewBreaker,
        RaceBreakers!Allows, RaceTheorems!Allows,
        RaceBreakers!AfterAllowRequest, RaceTheorems!AfterAllowRequest,
        RaceBreakers!AfterRecordSuccess, RaceTheorems!AfterRecordSuccess,
        RaceBreakers!AfterRecordFailure, RaceTheorems!AfterRecordFailure,
        RaceBreakers!AfterCooldown, RaceTheorems!AfterCooldown,
        RaceBreakers!Recorded, RaceTheorems!Recorded,
        RaceBreakers!EvaluateState, RaceTheorems!EvaluateState,
        RaceBreakers!Open, RaceTheorems!Open,
        RaceBreakers!Slide, RaceTheorems!Slide,
        RaceBreakers!Failing, RaceTheorems!Failing,
        RaceBreakers!Failures, RaceTheorems!Failures,
        RaceBreakers!Cardinality, RaceTheorems!Cardinality
<1> QED
    BY <1>1, <1>2, PTL DEF RaceKeepsBreakerProtocol, RaceBreakers!ManagerSafety,
       RaceTheorems!ManagerSafety

\* With hedging, too, a degraded replica gets at most one probe per cooldown: the
\* successes that races record for streams nobody admitted reopen nothing.
THEOREM HedgingProbesOncePerCooldown == HedgeSpec => RaceBreakers!ProbePerCooldown
<1>1. RaceTheorems!BreakerAssumption
    BY BreakerAssumption DEF BreakerAssumption, RaceTheorems!BreakerAssumption
<1>2. RaceTheorems!ProbePerCooldown => RaceBreakers!ProbePerCooldown
    <2>1. [\A r \in Replicas :
             (\E c \in Requests \X Racers : RaceTheorems!AllowRequest(c, r))
             /\ breaker[r].state # "CLOSED" => Cooled[r]]_(RaceTheorems!managerVars)
          => [\A r \in Replicas :
                (\E c \in Requests \X Racers : RaceBreakers!AllowRequest(c, r))
                /\ breaker[r].state # "CLOSED" => Cooled[r]]_(RaceBreakers!managerVars)
        BY Zenon
        DEF RaceBreakers!managerVars, RaceTheorems!managerVars,
            RaceBreakers!AllowRequest, RaceTheorems!AllowRequest,
            RaceBreakers!Idle, RaceTheorems!Idle,
            RaceBreakers!Allows, RaceTheorems!Allows,
            RaceBreakers!AfterAllowRequest, RaceTheorems!AfterAllowRequest
    <2> QED
        BY <2>1, PTL DEF RaceBreakers!ProbePerCooldown, RaceTheorems!ProbePerCooldown
<1> QED
    BY <1>1, <1>2, SameManager, HedgingKeepsBreakerProtocol,
       RaceTheorems!SafetyProbesOnce, PTL

\* A breaker that is half-open has a call in flight that it let through as a
\* probe, and a closed one no failing window, although races record successes of
\* streams that no breaker was asked about.
THEOREM HedgingResolvesProbes ==
    HedgeSpec => [](RaceBreakers!ProbeOwned /\ RaceBreakers!ClosedIsHealthy)
<1>1. RaceTheorems!BreakerAssumption
    BY BreakerAssumption DEF BreakerAssumption, RaceTheorems!BreakerAssumption
<1>2. RaceTheorems!ProbeOwned => RaceBreakers!ProbeOwned
    BY DEF RaceTheorems!ProbeOwned, RaceBreakers!ProbeOwned,
           RaceTheorems!InFlight, RaceBreakers!InFlight
<1>3. RaceTheorems!ClosedIsHealthy => RaceBreakers!ClosedIsHealthy
    BY Zenon
    DEF RaceTheorems!ClosedIsHealthy, RaceBreakers!ClosedIsHealthy,
        RaceTheorems!Failing, RaceBreakers!Failing,
        RaceTheorems!Failures, RaceBreakers!Failures,
        RaceTheorems!Cardinality, RaceBreakers!Cardinality
<1>4. RaceTheorems!ManagerInv => RaceTheorems!ProbeOwned /\ RaceTheorems!ClosedIsHealthy
    BY DEF RaceTheorems!ManagerInv
<1> QED
    BY <1>1, <1>2, <1>3, <1>4, SameManager, HedgingKeepsBreakerProtocol,
       RaceTheorems!ManagerInvariant, PTL

-----------------------------------------------------------------------------
(* With hedging, too, the queue is an admission gate for slots             *)

QueueTheorems == INSTANCE RequestQueueProofs WITH
                     Threads   <- Requests,
                     MaxCalls  <- Cardinality(Requests) * max_retries,
                     MaxNotify <- Cardinality(Requests) * (max_retries + 2)

\* The queue's theorems hold of the gateway's queue.
LEMMA QueueTheoremsApply == QueueTheorems!QueueAssumption
<1>1. IsFiniteSet(Requests) /\ max_retries \in Nat /\ max_size \in Nat
    BY GatewayAssumption DEF GatewayAssumption
<1>2. Cardinality(Requests) \in Nat
    BY <1>1, FS_CardinalityType
<1>3. Cardinality(Requests) * max_retries \in Nat
    BY <1>1, <1>2
<1>4. Cardinality(Requests) * (max_retries + 2) \in Nat
    BY <1>1, <1>2
<1> QED
    BY <1>1, <1>3, <1>4
    DEF QueueTheorems!QueueAssumption, QueueTheorems!IsFiniteSet, IsFiniteSet

\* Infer and InferHedged step in the queue only by its own operations.
LEMMA StepIsQueueStep ==
    [HedgeNext]_hedgeVars => [Queue!QueueNext]_(Queue!queueVars)
<1> SUFFICES ASSUME [HedgeNext]_hedgeVars PROVE [Queue!QueueNext]_(Queue!queueVars)
    OBVIOUS
<1>1. ASSUME NEW q \in Requests, Queue!QueueStep(q) PROVE Queue!QueueNext
    BY <1>1 DEF Queue!QueueNext
<1>2. UNCHANGED queue => UNCHANGED Queue!queueVars
    BY DEF queue, Queue!queueVars
<1>3. ASSUME NEW q \in Requests, WaitInQueue(q) \/ LeaveQueue(q) \/ Notify(q)
      PROVE  Queue!QueueStep(q)
    BY <1>3 DEF WaitInQueue, LeaveQueue, Notify, Queue!QueueStep
<1>4. ASSUME NEW q \in Requests, Infer(q), ~(WaitInQueue(q) \/ LeaveQueue(q) \/ Notify(q))
      PROVE  UNCHANGED queue
    BY <1>4
    DEF Infer, ReturnCancelled, Select, Reselect, Admit, Dispatch, ForwardToken,
        StreamEnds, StreamFails, Release, RecordFailedStream, RecordEndedStream,
        ReturnAfterLoop
<1>5. ASSUME NEW q \in Requests, NotifyBoth(q) \/ NotifyLoser(q)
      PROVE  Queue!QueueStep(q)
    BY <1>5 DEF NotifyBoth, NotifyLoser, NotifyFor, Queue!QueueStep
<1>6. ASSUME NEW q \in Requests, InferHedged(q), ~(NotifyBoth(q) \/ NotifyLoser(q))
      PROVE  UNCHANGED queue
    BY <1>6
    DEF InferHedged, EnterHedged, SelectFirst, SelectSecond, CountFirst, CountSecond,
        Count, WaitForWinner, JoinRacers, DropFirst, DropSecond, ReturnLost, DropLoser,
        Uncount, RecordWinner, RecordLoser, Success, WriteFirst, ReturnWon, ReturnSingle
<1>7. ASSUME NEW q \in Requests, NEW i \in Racers, Reads(q, i) \/ Signals(q, i)
      PROVE  UNCHANGED queue
    BY <1>7 DEF Reads, Signals, ReadToken, ReadFails, Exchange, SetPromise, vars
<1>8. CASE EnvironmentStep
    BY <1>2, <1>8
    DEF EnvironmentStep, ClientCancels, RoutabilityChanges, CooldownElapses,
        AllReturned, vars
<1>9. CASE UNCHANGED hedgeVars
    BY <1>2, <1>9 DEF hedgeVars, vars
<1> QED
    BY <1>1, <1>2, <1>3, <1>4, <1>5, <1>6, <1>7, <1>8, <1>9 DEF HedgeNext, HandlerStep

\* The two instances of the queue, the one that the model runs and the one that
\* has the theorems, are the same.
LEMMA SameQueue ==
    /\ Queue!QueueInit => QueueTheorems!QueueInit
    /\ [Queue!QueueNext]_(Queue!queueVars)
          => [QueueTheorems!QueueNext]_(QueueTheorems!queueVars)
<1>1. Queue!QueueInit => QueueTheorems!QueueInit
    BY DEF Queue!QueueInit, QueueTheorems!QueueInit
<1>2. [Queue!QueueNext]_(Queue!queueVars)
        => [QueueTheorems!QueueNext]_(QueueTheorems!queueVars)
    BY Zenon
    DEF Queue!queueVars, QueueTheorems!queueVars,
        Queue!QueueNext, QueueTheorems!QueueNext,
        Queue!QueueStep, QueueTheorems!QueueStep,
        Queue!Quiesced, QueueTheorems!Quiesced,
        Queue!WaitForCapacity, QueueTheorems!WaitForCapacity,
        Queue!RejectFull, QueueTheorems!RejectFull,
        Queue!PassAtOnce, QueueTheorems!PassAtOnce,
        Queue!GoToSleep, QueueTheorems!GoToSleep,
        Queue!TakeTicket, QueueTheorems!TakeTicket,
        Queue!IsFull, QueueTheorems!IsFull,
        Queue!ServedTicket, QueueTheorems!ServedTicket,
        Queue!Move, QueueTheorems!Move, Queue!Resume, QueueTheorems!Resume,
        Queue!ReturnServed, QueueTheorems!ReturnServed,
        Queue!ReturnUnserved, QueueTheorems!ReturnUnserved,
        Queue!DeadlinePasses, QueueTheorems!DeadlinePasses,
        Queue!ReturnAtDeadline, QueueTheorems!ReturnAtDeadline,
        Queue!SpuriousWake, QueueTheorems!SpuriousWake,
        Queue!NotifyServe, QueueTheorems!NotifyServe,
        Queue!NotifyAll, QueueTheorems!NotifyAll,
        Queue!WakeAll, QueueTheorems!WakeAll,
        Queue!TakeResult, QueueTheorems!TakeResult,
        Queue!Returned, QueueTheorems!Returned
<1> QED
    BY <1>1, <1>2

LEMMA SameGate ==
    /\ QueueTheorems!Gate!GateInit => Queue!Gate!GateInit
    /\ [QueueTheorems!Gate!GateNext]_(QueueTheorems!Gate!gateVars)
          => [Queue!Gate!GateNext]_(Queue!Gate!gateVars)
<1> USE DEF Queue!Waiters, QueueTheorems!Waiters, Queue!Waiting, QueueTheorems!Waiting,
            Cardinality, Queue!Cardinality, QueueTheorems!Cardinality
<1>1. QueueTheorems!Gate!GateInit => Queue!Gate!GateInit
    BY DEF Queue!Gate!GateInit, QueueTheorems!Gate!GateInit
<1>2. [QueueTheorems!Gate!GateNext]_(QueueTheorems!Gate!gateVars)
        => [Queue!Gate!GateNext]_(Queue!Gate!gateVars)
    BY Zenon
    DEF Queue!Gate!GateNext, QueueTheorems!Gate!GateNext,
        Queue!Gate!gateVars, QueueTheorems!Gate!gateVars,
        Queue!Gate!PassThrough, QueueTheorems!Gate!PassThrough,
        Queue!Gate!Release, QueueTheorems!Gate!Release,
        Queue!Gate!Admit, QueueTheorems!Gate!Admit,
        Queue!Gate!Grant, QueueTheorems!Gate!Grant,
        Queue!Gate!Abandon, QueueTheorems!Gate!Abandon,
        Queue!Gate!HasRoom, QueueTheorems!Gate!HasRoom,
        Queue!Gate!PermitLeft, QueueTheorems!Gate!PermitLeft,
        Queue!Gate!Cardinality, QueueTheorems!Gate!Cardinality
<1> QED
    BY <1>1, <1>2

LEMMA UsesQueue == HedgeSpec => QueueTheorems!QueueSafety
<1>1. HedgeInit => Queue!QueueInit
    BY DEF HedgeInit, Init
<1> QED
    BY <1>1, StepIsQueueStep, SameQueue, PTL DEF HedgeSpec, QueueTheorems!QueueSafety

\* The threads of Infer and InferHedged together implement AdmissionGate, although
\* a race gives two slots back and nobody asks the queue for the slots it takes.
THEOREM HedgingKeepsGate == HedgeSpec => KeepsGate
BY UsesQueue, QueueTheorems!SafetyImplementsGate, QueueTheoremsApply, SameGate, PTL
DEF QueueTheorems!ImplementsGate, QueueTheorems!Gate!GateSpec, KeepsGate,
    Queue!Gate!GateSpec

\* No thread sleeps in the queue through its own notification.
THEOREM HedgingForgetsNoSleeper == HedgeSpec => []Queue!NoSleeperForgotten
<1>1. QueueTheorems!NoSleeperForgotten => Queue!NoSleeperForgotten
    BY DEF QueueTheorems!NoSleeperForgotten, Queue!NoSleeperForgotten,
           QueueTheorems!ServedTicket, Queue!ServedTicket
<1> QED
    BY <1>1, UsesQueue, QueueTheorems!SafetyForgetsNoSleeper, QueueTheoremsApply, PTL

\* All variables have their types, the queue's too, and no counter of the registry
\* is ever negative: a race does not give back more slots than it has taken.
THEOREM HedgeTypeCorrect == HedgeSpec => []HedgeTypeOK
<1>1. HedgeInv /\ QueueTheorems!QueueTypeOK => HedgeTypeOK
    <2> SUFFICES ASSUME HedgeInv, QueueTheorems!QueueTypeOK
                 PROVE  HedgeTypeOK
        OBVIOUS
    <2>1. \A r \in Replicas : active[r] \in Nat
        <3>1. \A r \in Replicas :
                Cardinality(OnReplica(r)) \in Nat /\ Cardinality(RacingOn(r)) \in Nat
            BY SlotsFinite, FS_CardinalityType
        <3> QED
            BY <3>1 DEF HedgeInv, RaceCountsExact
    <2>2. active \in [Replicas -> Nat]
        BY <2>1 DEF HedgeInv, RegistryTyped
    <2>3. Queue!QueueTypeOK
        BY DEF Queue!QueueTypeOK, QueueTheorems!QueueTypeOK,
               Queue!Places, QueueTheorems!Places,
               Queue!Waiting, QueueTheorems!Waiting,
               Queue!Returned, QueueTheorems!Returned
    <2> QED
        BY <2>2, <2>3 DEF HedgeInv, ThreadsTyped, RegistryTyped, BreakersSound,
           HedgeTypeOK, AllPlaces
<1>2. QueueTheorems!QueueInv => QueueTheorems!QueueTypeOK
    BY DEF QueueTheorems!QueueInv
<1> QED
    BY <1>1, <1>2, Invariance, UsesQueue, QueueTheorems!QueueInvariant,
       QueueTheoremsApply, PTL

\* Behind every request that the queue has let through there is a slot of its own
\* that was given back: the permits are notifications, each of which tells of one.
THEOREM GrantsAreBacked == HedgeSpec => []GrantsBackedBySlots
<1>1. HedgeInv /\ EverySlotTold /\ QueueTheorems!QueueInv => GrantsBackedBySlots
    <2> SUFFICES ASSUME EverySlotTold, QueueTheorems!QueueInv
                 PROVE  GrantsBackedBySlots
        OBVIOUS
    <2>1. QueueTheorems!Cardinality(granted) = Cardinality(granted)
        BY Zenon DEF QueueTheorems!Cardinality, Cardinality
    <2>2. Cardinality(granted) <= serving_ticket
        BY <2>1, QueueTheoremsApply, QueueTheorems!GrantsCounted
    <2>3. IsFiniteSet(Untold) /\ Cardinality(Untold) \in Nat
        <3>1. Untold \subseteq Requests \X Racers
            BY DEF Untold
        <3> QED
            BY <3>1, PairsFinite, FS_Subset, FS_CardinalityType
    <2>4. serving_ticket \in Nat /\ granted \subseteq 0 .. (serving_ticket - 1)
        BY DEF QueueTheorems!QueueInv, QueueTheorems!QueueTypeOK, QueueTheorems!GrantsBacked
    <2>5. Cardinality(granted) \in Nat
        <3>1. IsFiniteSet(0 .. (serving_ticket - 1))
            BY <2>4, FS_Interval
        <3> QED
            BY <2>4, <3>1, FS_Subset, FS_CardinalityType
    <2> QED
        BY <2>2, <2>3, <2>4, <2>5 DEF EverySlotTold, GrantsBackedBySlots
<1> QED
    BY <1>1, Invariance, EverySlotToldHolds, UsesQueue, QueueTheorems!QueueInvariant,
       QueueTheoremsApply, PTL
=============================================================================
