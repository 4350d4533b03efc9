-------------------------- MODULE LoadBalancerProofs --------------------------
(***************************************************************************)
(* Theorems about LoadBalancer for every hash function, number of virtual  *)
(* nodes, capacity, set of replicas and number of callers and rebuilders.  *)
(***************************************************************************)
EXTENDS LoadBalancer, FiniteSetTheorems, WellFoundedInduction, TLAPS

\* The callers that count themselves on r.
CountedOn(r) == {c \in Callers : pc[c] = "counted" /\ local[c].selection = r}

CountsExact == \A r \in Replicas : active[r] = Cardinality(CountedOn(r))

\* A walk is at a point of the ring, which does not change under it.
OnRing == \A c \in Callers : pc[c] = "walk" => local[c].it \in DOMAIN ring

TypeInv == TypeOK /\ CountsExact /\ OnRing

-----------------------------------------------------------------------------
(* Sets of callers                                                         *)

One(b) == IF b THEN 1 ELSE 0

\* Two sets that agree but on x.
LEMMA ToggleCardinality ==
    ASSUME NEW A, NEW B, IsFiniteSet(A), IsFiniteSet(B), NEW x,
           \A y : y # x => (y \in A <=> y \in B)
    PROVE  Cardinality(B) = Cardinality(A) - One(x \in A) + One(x \in B)
<1> DEFINE U == A \cup {x}
<1>1. U = B \cup {x}
    OBVIOUS
<1>2. Cardinality(A) \in Nat /\ Cardinality(B) \in Nat /\ Cardinality(U) \in Nat
    BY FS_AddElement, FS_CardinalityType
<1>3. Cardinality(U) = IF x \in A THEN Cardinality(A) ELSE Cardinality(A) + 1
    BY FS_AddElement
<1>4. Cardinality(U) = IF x \in B THEN Cardinality(B) ELSE Cardinality(B) + 1
    BY <1>1, FS_AddElement
<1> HIDE DEF U
<1> QED
    BY <1>2, <1>3, <1>4 DEF One

LEMMA CountedFinite == \A r : IsFiniteSet(CountedOn(r)) /\ IsFiniteSet(CountedOn(r)')
<1>1. \A r : CountedOn(r) \subseteq Callers /\ CountedOn(r)' \subseteq Callers
    BY DEF CountedOn
<1> QED
    BY <1>1, FS_Subset, BalancerAssumption

\* A step of c moves only c in and out of the sets of counted callers.
LEMMA CountsMove ==
    ASSUME CountsExact, NEW c \in Callers, active' \in [Replicas -> Int],
           \A d \in Callers \ {c} :
              /\ pc'[d] = "counted" <=> pc[d] = "counted"
              /\ local'[d].selection = local[d].selection,
           \A r \in Replicas :
              active'[r] = active[r] - One(c \in CountedOn(r)) + One(c \in CountedOn(r)')
    PROVE  CountsExact' /\ active' \in [Replicas -> Nat]
<1>1. ASSUME NEW r \in Replicas
      PROVE  active'[r] = Cardinality(CountedOn(r)')
    <2>1. \A d : d # c => (d \in CountedOn(r) <=> d \in CountedOn(r)')
        BY DEF CountedOn
    <2>2. Cardinality(CountedOn(r)') = Cardinality(CountedOn(r)) - One(c \in CountedOn(r))
                                          + One(c \in CountedOn(r)')
        BY <2>1, CountedFinite, ToggleCardinality
    <2> QED
        BY <2>2 DEF CountsExact
<1>2. \A r \in Replicas : Cardinality(CountedOn(r)') \in Nat
    BY CountedFinite, FS_CardinalityType
<1> QED
    BY <1>1, <1>2 DEF CountsExact

-----------------------------------------------------------------------------
(* Types                                                                   *)

LEMMA FreshTyped == Fresh \in Locals
BY BalancerAssumption DEF Fresh, Locals, NoCopies, Positions

\* Every nonempty set of natural numbers has a least element.
LEMMA Least ==
    ASSUME NEW S, S \subseteq Nat, S # {}
    PROVE  \E x \in S : \A y \in S : x <= y
<1> DEFINE R == {ss \in Nat \X Nat : ss[1] < ss[2]}
<1>1. IsWellFoundedOn(R, Nat)
    BY NatLessThanWellFounded DEF OpToRel
<1> HIDE DEF R
<1>2. \E x \in S : \A y \in S : <<y, x>> \notin R
    BY <1>1, WFMin, Zenon
<1>3. \A x, y \in S : <<y, x>> \notin R => x <= y
    BY DEF R
<1> QED
    BY <1>2, <1>3

LEMMA MinIsLeast ==
    ASSUME NEW S, S \subseteq Nat, S # {}
    PROVE  Min(S) \in S /\ \A y \in S : Min(S) <= y
BY Least DEF Min

\* The points that the walk starts at and moves on to are points of the ring.
LEMMA PointsOfRing ==
    ASSUME DOMAIN ring \subseteq Positions, DOMAIN ring # {}
    PROVE  /\ \A h : LowerBound(h) \in DOMAIN ring
           /\ \A p \in Positions : NextPoint(p) \in DOMAIN ring
<1>1. DOMAIN ring \subseteq Nat
    BY DEF Positions
<1>2. Min(DOMAIN ring) \in DOMAIN ring
    BY <1>1, MinIsLeast
<1>3. ASSUME NEW h
      PROVE  LowerBound(h) \in DOMAIN ring
    <2> DEFINE after == {p \in DOMAIN ring : p >= h}
    <2>1. CASE after = {}
        BY <1>2, <2>1 DEF LowerBound
    <2>2. CASE after # {}
        <3>1. after \subseteq Nat /\ after \subseteq DOMAIN ring
            BY <1>1
        <3> HIDE DEF after
        <3>2. Min(after) \in DOMAIN ring
            BY <2>2, <3>1, MinIsLeast
        <3> QED
            BY <2>2, <3>2 DEF LowerBound, after
    <2> QED
        BY <2>1, <2>2
<1>4. ASSUME NEW p \in Positions
      PROVE  NextPoint(p) \in DOMAIN ring
    <2> DEFINE after == {q \in DOMAIN ring : q > p}
    <2>1. CASE after = {} \/ IsLast(p)
        <3>1. CASE IsLast(p)
            BY <1>2, <3>1 DEF NextPoint
        <3>2. CASE ~IsLast(p) /\ after = {}
            BY <2>1, <3>2 DEF IsLast, Positions
        <3> QED
            BY <2>1, <3>1, <3>2
    <2>2. CASE after # {} /\ ~IsLast(p)
        <3>1. after \subseteq Nat /\ after \subseteq DOMAIN ring
            BY <1>1
        <3> HIDE DEF after
        <3>2. Min(after) \in DOMAIN ring
            BY <2>2, <3>1, MinIsLeast
        <3> QED
            BY <2>2, <3>2 DEF NextPoint, after
    <2> QED
        BY <2>1, <2>2
<1> QED
    BY <1>3, <1>4

\* What a step does to the threads that only look on.
LEMMA ObservedTyped == Observe => open' \in [Callers -> SUBSET Replicas]
<1>1. \A c : OpenTo(c)' \subseteq Replicas
    BY DEF OpenTo
<1> QED
    BY <1>1 DEF Observe

\* What c does with ring_mutex when it goes to p.
KeepsMutex(c, p) ==
    \/ ring_mutex' = ring_mutex /\ (p = "walk" <=> pc[c] = "walk")
    \/ ring_mutex = NoOne /\ ring_mutex' = c /\ p = "walk"
    \/ pc[c] = "walk" /\ ring_mutex' = NoOne /\ p # "walk"

LEMMA MutexHeld ==
    ASSUME TypeOK, NEW c \in Callers, NEW p, pc' = [pc EXCEPT ![c] = p], KeepsMutex(c, p)
    PROVE  /\ ring_mutex' \in Callers \cup {NoOne}
           /\ \A d \in Callers : pc'[d] = "walk" <=> ring_mutex' = d
BY BalancerAssumption DEF TypeOK, KeepsMutex

\* A step of c that neither counts nor uncounts.
LEMMA CallerTyped ==
    ASSUME TypeInv, NEW c \in Callers, NEW p \in Places, NEW l \in Locals,
           pc' = [pc EXCEPT ![c] = p], local' = [local EXCEPT ![c] = l],
           p = "selected" => l.selection \in Replicas, p # "counted", pc[c] # "counted",
           p = "walk" => l.it \in DOMAIN ring,
           KeepsMutex(c, p), UNCHANGED <<Hash, ring, registry, rebuilders>>, Observe
    PROVE  TypeInv'
<1>1. /\ pc' \in [Callers -> Places] /\ local' \in [Callers -> Locals]
      /\ \A d \in Callers :
            pc'[d] \in {"selected", "counted"} => local'[d].selection \in Replicas
    BY DEF TypeInv, TypeOK
<1>2. open' \in [Callers -> SUBSET Replicas]
    BY ObservedTyped
<1>3. \A r : CountedOn(r)' = CountedOn(r)
    BY DEF TypeInv, TypeOK, CountedOn
<1>4. CountsExact'
    BY <1>3 DEF TypeInv, CountsExact, registry
<1>5. TypeOK'
    BY <1>1, <1>2, MutexHeld DEF TypeInv, TypeOK, registry, rebuilders
<1>6. OnRing'
    BY DEF TypeInv, TypeOK, OnRing
<1> QED
    BY <1>4, <1>5, <1>6 DEF TypeInv

\* The locals of a caller, whatever its place.
LEMMA CallerAt ==
    ASSUME TypeInv, NEW c \in Callers
    PROVE  /\ pc[c] \in Places /\ local[c] \in Locals
           /\ pc[c] \in {"selected", "counted"} => local[c].selection \in Replicas
           /\ pc[c] = "walk" <=> ring_mutex = c
           /\ DOMAIN ring \subseteq Positions /\ ring \in [DOMAIN ring -> Replicas]
           /\ local \in [Callers -> Locals] /\ pc \in [Callers -> Places]
           /\ pc[c] = "walk" => local[c].it \in DOMAIN ring /\ local[c].it \in Positions
BY DEF TypeInv, TypeOK, OnRing

\* The values that SelectReplica gives to its variables.
LEMMA LocalsTyped ==
    /\ \A h \in Positions, x \in SUBSET Replicas :
            [Fresh EXCEPT !.h = h, !.excluded = x] \in Locals
    /\ \A x \in SUBSET Replicas : [Fresh EXCEPT !.excluded = x] \in Locals
    /\ \A r \in Replicas : [Fresh EXCEPT !.selection = r] \in Locals
    /\ \A r \in Replicas, o \in SUBSET Replicas :
            [Fresh EXCEPT !.selection = r, !.overtaken = o] \in Locals
BY FreshTyped DEF Locals

LEMMA CallTyped ==
    ASSUME TypeInv, NEW c \in Callers, Observe,
           Call(c) \/ BeginCopy(c) \/ (\E r \in Replicas : CopyOne(c, r)) \/ Score(c)
    PROVE  TypeInv'
<1> USE DEF balancer, callers, rebuilders, KeepsMutex, Places, Selecting
<1>1. CASE Call(c)
    <2>1. PICK h \in Prompts, x \in Exclusions :
            local' = [local EXCEPT ![c] = [Fresh EXCEPT !.h = h, !.excluded = x]]
        BY <1>1 DEF Call
    <2>2. [Fresh EXCEPT !.h = h, !.excluded = x] \in Locals
        BY LocalsTyped, BalancerAssumption
    <2> QED
        BY <1>1, <2>1, <2>2, CallerTyped DEF Call
<1>2. CASE BeginCopy(c)
    <2>1. [local[c] EXCEPT !.todo = alive] \in Locals
        <3>1. alive \in SUBSET Replicas /\ local[c] \in Locals
            BY CallerAt DEF TypeInv, TypeOK
        <3> QED
            BY <3>1 DEF Locals
    <2> QED
        BY <1>2, <2>1, CallerTyped DEF BeginCopy
<1>3. ASSUME NEW r \in Replicas, CopyOne(c, r)
      PROVE  TypeInv'
    <2> DEFINE l == [local[c] EXCEPT !.todo = @ \ {r}, !.copies[r] = active[r]]
    <2>1. active[r] \in Nat
        BY DEF TypeInv, TypeOK
    <2>2. l \in Locals
        BY <2>1, CallerAt DEF Locals
    <2>3. local' = [local EXCEPT ![c] = l] /\ pc' = [pc EXCEPT ![c] = "copy"]
        BY <1>3 DEF CopyOne, TypeInv, TypeOK
    <2> HIDE DEF l
    <2> QED
        BY <1>3, <2>2, <2>3, CallerTyped DEF CopyOne
<1>4. CASE Score(c)
    <2>1. local[c] \in Locals
        BY CallerAt
    <2>2. ASSUME NEW r \in Best(local[c]), pc' = [pc EXCEPT ![c] = "selected"],
                 local' = [local EXCEPT ![c] = [Fresh EXCEPT !.selection = r,
                                          !.overtaken = local[c].overtaken \cap {r}]]
          PROVE  TypeInv'
        <3>1. r \in Replicas
            BY DEF Best, Candidates, Copied
        <3> DEFINE l == [Fresh EXCEPT !.selection = r,
                                      !.overtaken = local[c].overtaken \cap {r}]
        <3>2. l \in Locals /\ l.selection = r
            BY <2>1, <3>1, LocalsTyped DEF Fresh, Locals
        <3> HIDE DEF l
        <3> QED
            BY <1>4, <2>2, <3>1, <3>2, CallerTyped DEF Score, l
    <2>3. ASSUME pc' = [pc EXCEPT ![c] = "none"],
                 local' = [local EXCEPT ![c] = [Fresh EXCEPT !.excluded = local[c].excluded]]
          PROVE  TypeInv'
        <3>1. [Fresh EXCEPT !.excluded = local[c].excluded] \in Locals
            BY <2>1, LocalsTyped DEF Locals
        <3> QED
            BY <1>4, <2>3, <3>1, CallerTyped DEF Score
    <2> QED
        BY <1>4, <2>2, <2>3 DEF Score
<1> QED
    BY <1>1, <1>2, <1>3, <1>4

LEMMA WalkTyped ==
    ASSUME TypeInv, NEW c \in Callers, Observe,
           TakeRing(c) \/ TakeCandidate(c) \/ PassCandidate(c)
    PROVE  TypeInv'
<1> USE DEF balancer, callers, rebuilders, KeepsMutex, Places, Selecting
<1>1. local[c] \in Locals
    BY CallerAt
<1>2. CASE TakeRing(c)
    <2>1. CASE DOMAIN ring = {}
        <3>1. [local[c] EXCEPT !.h = 0] \in Locals
            BY <1>1, BalancerAssumption DEF Locals, Positions
        <3> QED
            BY <1>2, <2>1, <3>1, CallerTyped DEF TakeRing
    <2>2. CASE DOMAIN ring # {}
        <3> DEFINE p == LowerBound(local[c].h)
                   l == [local[c] EXCEPT !.it = p, !.start = p]
        <3>1. p \in Positions
            BY <2>2, CallerAt, PointsOfRing
        <3> HIDE DEF p
        <3>2. l \in Locals /\ l.it = p
            BY <1>1, <3>1 DEF Locals
        <3>3. local' = [local EXCEPT ![c] = l]
            BY <1>2, <2>2, CallerAt DEF TakeRing, p
        <3>4. p \in DOMAIN ring
            BY <2>2, CallerAt, PointsOfRing DEF p
        <3> HIDE DEF l
        <3> QED
            BY <1>2, <2>2, <3>2, <3>3, <3>4, CallerTyped DEF TakeRing
    <2> QED
        BY <2>1, <2>2
<1>3. CASE TakeCandidate(c)
    <2> DEFINE r == ring[local[c].it]
               l == [Fresh EXCEPT !.selection = r]
    <2>1. r \in Replicas
        BY <1>3 DEF TakeCandidate, Eligible, TypeInv, TypeOK
    <2> HIDE DEF r
    <2>2. l \in Locals /\ l.selection = r
        BY <2>1, LocalsTyped DEF Fresh
    <2> HIDE DEF l
    <2> QED
        BY <1>3, <2>1, <2>2, CallerTyped DEF TakeCandidate, l, r
<1>4. CASE PassCandidate(c)
    <2>1. CASE LapEnds(c)
        <3>1. [Fresh EXCEPT !.excluded = local[c].excluded] \in Locals
            BY <1>1, LocalsTyped DEF Locals
        <3> QED
            BY <1>4, <2>1, <3>1, CallerTyped DEF PassCandidate
    <2>2. CASE ~LapEnds(c)
        <3> DEFINE p == NextPoint(local[c].it)
                   w == local[c].wrapped \/ IsLast(local[c].it)
                   l == [local[c] EXCEPT !.it = p, !.wrapped = w,
                                         !.passed = @ \cup {local[c].it}]
        <3>1. p \in Positions /\ p \in DOMAIN ring
            BY <1>4, CallerAt, PointsOfRing DEF PassCandidate
        <3>2. w \in BOOLEAN
            BY <1>1 DEF Locals
        <3>3. local' = [local EXCEPT ![c] = l]
            BY <1>4, <2>2 DEF PassCandidate
        <3>4. pc' = [pc EXCEPT ![c] = "walk"]
            BY <1>4, <2>2, CallerAt DEF PassCandidate
        <3> HIDE DEF p, w
        <3>5. l \in Locals /\ l.it = p
            BY <1>1, <3>1, <3>2, CallerAt DEF Locals
        <3> HIDE DEF l
        <3> QED
            BY <1>4, <2>2, <3>1, <3>3, <3>4, <3>5, CallerTyped DEF PassCandidate
    <2> QED
        BY <2>1, <2>2
<1> QED
    BY <1>2, <1>3, <1>4

LEMMA LeaveTyped ==
    ASSUME TypeInv, NEW c \in Callers, Observe, Refused(c) \/ NoSelection(c)
    PROVE  TypeInv'
BY FreshTyped, CallerTyped
DEF Refused, NoSelection, balancer, rebuilders, KeepsMutex, Places, Selecting

LEMMA CountTyped ==
    ASSUME TypeInv, NEW c \in Callers, Observe, IncrementActive(c) \/ DecrementActive(c)
    PROVE  TypeInv'
<1>1. pc \in [Callers -> Places] /\ local \in [Callers -> Locals]
    BY CallerAt DEF TypeInv, TypeOK
<1>2. open' \in [Callers -> SUBSET Replicas]
    BY ObservedTyped
<1>3. \A r \in Replicas : active[r] \in Nat
    BY DEF TypeInv, TypeOK
<1>4. active \in [Replicas -> Nat] /\ local[c].selection \in Replicas
    BY CallerAt DEF IncrementActive, DecrementActive, TypeInv, TypeOK
<1>5. CASE IncrementActive(c)
    <2> DEFINE r == local[c].selection
    <2>1. pc' = [pc EXCEPT ![c] = "counted"] /\ active' = [active EXCEPT ![r] = @ + 1]
          /\ pc[c] = "selected"
        BY <1>5 DEF IncrementActive
    <2>2. /\ local' \in [Callers -> Locals]
          /\ \A d \in Callers : local'[d].selection = local[d].selection
                              /\ local'[d].it = local[d].it
        <3>1. ASSUME NEW d \in Callers
              PROVE  /\ local'[d] \in Locals
                     /\ local'[d].selection = local[d].selection /\ local'[d].it = local[d].it
            <4>1. local'[d] \in {local[d], [local[d] EXCEPT !.overtaken = @ \cup {r}]}
                BY <1>5 DEF IncrementActive, Overtake
            <4>2. local[d] \in Locals /\ r \in Replicas
                BY <1>1, <1>4
            <4> HIDE DEF r
            <4> DEFINE o == local[d].overtaken \cup {r}
                       l == [local[d] EXCEPT !.overtaken = o]
            <4>3. o \in SUBSET Replicas
                BY <4>2 DEF Locals
            <4> HIDE DEF o
            <4>4. l \in Locals /\ l.selection = local[d].selection /\ l.it = local[d].it
                BY <4>2, <4>3 DEF Locals
            <4> QED
                BY <4>1, <4>2, <4>4 DEF o
        <3> QED
            BY <1>5, <3>1 DEF IncrementActive, Overtake
    <2>3. \A t \in Replicas :
             active'[t] = active[t] - One(c \in CountedOn(t)) + One(c \in CountedOn(t)')
        <3>1. \A t : c \notin CountedOn(t) /\ (c \in CountedOn(t)' <=> t = r)
            BY <1>1, <2>1, <2>2 DEF CountedOn
        <3> QED
            BY <1>3, <1>4, <2>1, <3>1 DEF One
    <2>4. CountsExact' /\ active' \in [Replicas -> Nat]
        <3>1. active' \in [Replicas -> Int]
            BY <1>4, <2>1
        <3>2. \A d \in Callers \ {c} : pc'[d] = "counted" <=> pc[d] = "counted"
            BY <1>1, <2>1
        <3> QED
            BY <2>2, <2>3, <3>1, <3>2, CountsMove DEF TypeInv
    <2>5. OnRing'
        BY <1>1, <1>5, <2>1, <2>2 DEF TypeInv, OnRing, IncrementActive, balancer
    <2>6. TypeOK'
        BY <1>1, <1>2, <1>4, <1>5, <2>1, <2>2, <2>4
        DEF TypeInv, TypeOK, IncrementActive, balancer, rebuilders, Places
    <2> QED
        BY <2>4, <2>5, <2>6 DEF TypeInv
<1>6. CASE DecrementActive(c)
    <2> DEFINE r == local[c].selection
    <2>1. pc' = [pc EXCEPT ![c] = "idle"] /\ active' = [active EXCEPT ![r] = @ - 1]
          /\ pc[c] = "counted" /\ local' = [local EXCEPT ![c] = Fresh]
        BY <1>6 DEF DecrementActive
    <2>2. \A t \in Replicas :
             active'[t] = active[t] - One(c \in CountedOn(t)) + One(c \in CountedOn(t)')
        <3>1. \A t : (c \in CountedOn(t) <=> t = r) /\ c \notin CountedOn(t)'
            BY <1>1, <2>1 DEF CountedOn
        <3> QED
            BY <1>3, <1>4, <2>1, <3>1 DEF One
    <2>3. CountsExact' /\ active' \in [Replicas -> Nat]
        <3>1. active' \in [Replicas -> Int]
            BY <1>4, <2>1
        <3>2. \A d \in Callers \ {c} : /\ pc'[d] = "counted" <=> pc[d] = "counted"
                                      /\ local'[d].selection = local[d].selection
            BY <1>1, <2>1
        <3> QED
            BY <2>2, <3>1, <3>2, CountsMove DEF TypeInv
    <2>4. OnRing'
        BY <1>1, <1>6, <2>1 DEF TypeInv, OnRing, DecrementActive, balancer
    <2>5. TypeOK'
        BY <1>1, <1>2, <1>4, <1>6, <2>1, <2>3, FreshTyped
        DEF TypeInv, TypeOK, DecrementActive, balancer, rebuilders, Places
    <2> QED
        BY <2>3, <2>4, <2>5 DEF TypeInv
<1> QED
    BY <1>5, <1>6

\* The points of a ring built from any snapshot.
LEMMA RingTyped ==
    ASSUME Hash \in HashFunctions, NEW S \in SUBSET Replicas, NEW f \in RingsOf(S)
    PROVE  DOMAIN f \subseteq Positions /\ f \in [DOMAIN f -> Replicas]
<1>1. \A r \in Replicas : Points(r) \subseteq Positions
    <2>1. Hash \in [Keys -> Positions]
        BY BalancerAssumption
    <2>2. \A r \in Replicas, i \in 0 .. virtual_nodes - 1 : <<r, i>> \in Keys
        BY DEF Keys
    <2>3. \A k \in Keys : Hash[k] \in Positions
        BY <2>1
    <2> QED
        BY <2>2, <2>3 DEF Points
<1> QED
    BY <1>1 DEF RingsOf

LEMMA RebuilderTyped ==
    ASSUME TypeInv, NEW b \in Rebuilders, Observe,
           RebuildRing(b) \/ \E r \in Replicas : ChangeRouting(b, r)
    PROVE  TypeInv'
<1>1. open' \in [Callers -> SUBSET Replicas]
    BY ObservedTyped
<1>2. pc' = pc /\ local' = local /\ active' = active /\ Hash' = Hash /\ ring_mutex' = ring_mutex
    BY DEF RebuildRing, SnapshotAlive, SwapRing, ChangeRouting, balancer, registry,
       callers
<1>3. CountsExact'
    BY <1>2 DEF TypeInv, CountsExact, CountedOn
<1>4. alive' \subseteq Replicas
    BY DEF RebuildRing, SnapshotAlive, SwapRing, ChangeRouting, registry, TypeInv,
       TypeOK
<1>5. /\ bpc' \in [Rebuilders -> {"idle", "changed", "snapshot"}]
      /\ snapshot' \in [Rebuilders -> SUBSET Replicas]
    BY DEF RebuildRing, SnapshotAlive, SwapRing, ChangeRouting, registry, TypeInv,
       TypeOK
<1>6. DOMAIN ring' \subseteq Positions /\ ring' \in [DOMAIN ring' -> Replicas] /\ OnRing'
    <2>1. CASE ring' = ring
        BY <1>2, <2>1 DEF TypeInv, TypeOK, OnRing
    <2>2. CASE ring' # ring
        <3>1. ring' \in RingsOf(snapshot[b]) /\ ring_mutex = NoOne
            BY <2>2 DEF RebuildRing, SnapshotAlive, SwapRing, ChangeRouting, balancer
        <3>2. DOMAIN ring' \subseteq Positions /\ ring' \in [DOMAIN ring' -> Replicas]
            BY <3>1, RingTyped DEF TypeInv, TypeOK
        <3>3. \A c \in Callers : pc[c] # "walk"
            BY <3>1, BalancerAssumption DEF TypeInv, TypeOK
        <3> QED
            BY <1>2, <3>2, <3>3 DEF OnRing
    <2> QED
        BY <2>1, <2>2
<1>7. TypeOK'
    BY <1>1, <1>2, <1>4, <1>5, <1>6 DEF TypeInv, TypeOK
<1> QED
    BY <1>3, <1>6, <1>7 DEF TypeInv

LEMMA TypeStep == TypeInv /\ [Next]_vars => TypeInv'
<1> SUFFICES ASSUME TypeInv, [Next]_vars
             PROVE  TypeInv'
    OBVIOUS
<1>1. CASE Next
    <2>1. ASSUME NEW c \in Callers, Infer(c), Observe
          PROVE  TypeInv'
        BY <2>1, CallTyped, WalkTyped, LeaveTyped, CountTyped DEF Infer, SelectReplica
    <2>2. ASSUME NEW b \in Rebuilders, Observe,
                 RebuildRing(b) \/ \E r \in Replicas : ChangeRouting(b, r)
          PROVE  TypeInv'
        BY <2>2, RebuilderTyped
    <2> QED
        BY <1>1, <2>1, <2>2 DEF Next, Steps
<1>2. CASE UNCHANGED vars
    BY <1>2 DEF vars, balancer, registry, callers, rebuilders, TypeInv, TypeOK,
       CountsExact,
                CountedOn, OnRing
<1> QED
    BY <1>1, <1>2

LEMMA TypeInit == Init => TypeInv
<1> SUFFICES ASSUME Init
             PROVE  TypeInv
    OBVIOUS
<1>1. TypeOK
    BY FreshTyped, BalancerAssumption DEF Init, TypeOK, EmptyRing, Places, Selecting
<1>2. \A r : CountedOn(r) = {}
    BY DEF Init, CountedOn
<1>3. CountsExact
    BY <1>2, FS_EmptySet DEF Init, CountsExact
<1> QED
    BY <1>1, <1>3 DEF TypeInv, OnRing, Init

LEMMA Typed == Spec => []TypeInv
BY TypeInit, TypeStep, PTL DEF Spec

\* Every variable has its type, and no counter of the registry goes below zero.
THEOREM BalancerTypeCorrect == Spec => []TypeOK
<1>1. TypeInv => TypeOK
    BY DEF TypeInv
<1> QED
    BY <1>1, Typed, PTL

-----------------------------------------------------------------------------
(* Overbooking                                                             *)

\* What a caller at p with locals l knows of the counters a, unless it has been
\* overtaken: they have not grown since it read them.
BeforeCopy == {"tier1", "walk", "tier2"}

KnowsCounters(p, l, a) ==
    /\ p \in BeforeCopy => l.copies = NoCopies
    /\ p = "copy" =>
          \A r \in Replicas : r \in Copied(l) \ l.overtaken => a[r] <= l.copies[r]
    /\ p = "selected" /\ l.selection \notin l.overtaken => HasSlot(l.selection, a[l.selection])

RaceInv ==
    /\ \A c \in Callers : KnowsCounters(pc[c], local[c], active)
    /\ OverbookedByRace

LEMMA OverbookingFinite == \A r : IsFiniteSet(Overbooking(r)) /\ IsFiniteSet(Overbooking(r)')
<1>1. \A r : Overbooking(r) \subseteq Callers /\ Overbooking(r)' \subseteq Callers
    BY DEF Overbooking
<1> QED
    BY <1>1, FS_Subset, BalancerAssumption

\* A step of c that neither counts nor uncounts.
LEMMA RaceCaller ==
    ASSUME TypeInv, RaceInv, NEW c \in Callers, NEW p, NEW l,
           pc' = [pc EXCEPT ![c] = p], local' = [local EXCEPT ![c] = l],
           p # "counted", pc[c] # "counted", UNCHANGED active,
           KnowsCounters(p, l, active)
    PROVE  RaceInv'
<1>1. pc \in [Callers -> Places] /\ local \in [Callers -> Locals]
    BY CallerAt
<1>2. \A d \in Callers : KnowsCounters(pc'[d], local'[d], active')
    BY <1>1 DEF RaceInv
<1>3. \A r : Overbooking(r)' = Overbooking(r)
    BY <1>1 DEF Overbooking
<1>4. OverbookedByRace'
    BY <1>3 DEF RaceInv, OverbookedByRace
<1> QED
    BY <1>2, <1>4 DEF RaceInv

\* A caller that has read no counter.
LEMMA KnowsNothing ==
    /\ \A p, l, a : p \in BeforeCopy /\ l.copies = NoCopies => KnowsCounters(p, l, a)
    /\ \A p, l, a : p \in {"idle", "counted", "none"} => KnowsCounters(p, l, a)
BY DEF KnowsCounters, BeforeCopy

LEMMA WalkRaces ==
    ASSUME TypeInv, RaceInv, NEW c \in Callers,
           Call(c) \/ TakeRing(c) \/ PassCandidate(c) \/ TakeCandidate(c)
    PROVE  RaceInv'
<1> USE DEF balancer, registry
<1>1. local[c] \in Locals /\ local \in [Callers -> Locals] /\ pc \in [Callers -> Places]
    BY CallerAt
<1>2. Fresh.copies = NoCopies
    BY DEF Fresh
<1>3. pc[c] \in BeforeCopy => local[c].copies = NoCopies
    BY DEF RaceInv, KnowsCounters
<1>4. CASE Call(c) \/ TakeRing(c) \/ PassCandidate(c)
    <2>1. pc[c] # "counted" /\ UNCHANGED active
        BY <1>4 DEF Call, TakeRing, PassCandidate
    <2>2. \E p \in BeforeCopy : pc' = [pc EXCEPT ![c] = p]
        BY <1>1, <1>4 DEF Call, TakeRing, PassCandidate, BeforeCopy
    <2>3. \E l : l.copies = NoCopies /\ local' = [local EXCEPT ![c] = l]
        <3>1. CASE Call(c)
            BY <1>2, <3>1, FreshTyped DEF Call, Locals
        <3>2. CASE TakeRing(c) \/ PassCandidate(c)
            <4>1. local[c].copies = NoCopies
                BY <1>3, <3>2 DEF TakeRing, PassCandidate, BeforeCopy
            <4> QED
                BY <1>1, <1>2, <3>2, <4>1, FreshTyped DEF TakeRing, PassCandidate,
                   Locals
        <3> QED
            BY <1>4, <3>1, <3>2
    <2>4. "counted" \notin BeforeCopy
        BY DEF BeforeCopy
    <2> QED
        BY <2>1, <2>2, <2>3, <2>4, KnowsNothing, RaceCaller
<1>5. CASE TakeCandidate(c)
    <2> DEFINE r == ring[local[c].it]
               l == [Fresh EXCEPT !.selection = r]
    <2>1. HasSlot(r, active[r])
        BY <1>5 DEF TakeCandidate, Eligible
    <2>2. KnowsCounters("selected", l, active)
        BY <2>1 DEF KnowsCounters, Fresh, BeforeCopy
    <2> QED
        BY <1>5, <2>2, RaceCaller DEF TakeCandidate
<1> QED
    BY <1>4, <1>5

LEMMA CopyRaces ==
    ASSUME TypeInv, RaceInv, NEW c \in Callers,
           BeginCopy(c) \/ (\E r \in Replicas : CopyOne(c, r)) \/ Score(c)
    PROVE  RaceInv'
<1> USE DEF balancer, registry
<1>1. local[c] \in Locals /\ local \in [Callers -> Locals] /\ pc \in [Callers -> Places]
    BY CallerAt
<1>2. active \in [Replicas -> Nat]
    BY DEF TypeInv, TypeOK
<1>3. KnowsCounters(pc[c], local[c], active)
    BY DEF RaceInv
<1>4. CASE BeginCopy(c)
    <2> DEFINE l == [local[c] EXCEPT !.todo = alive]
    <2>1. l.copies = NoCopies
        BY <1>1, <1>3, <1>4 DEF BeginCopy, KnowsCounters, BeforeCopy, Locals
    <2>2. KnowsCounters("copy", l, active)
        BY <2>1 DEF KnowsCounters, BeforeCopy, Copied, NoCopies
    <2> QED
        BY <1>4, <2>2, RaceCaller DEF BeginCopy
<1>5. ASSUME NEW r \in Replicas, CopyOne(c, r)
      PROVE  RaceInv'
    <2> DEFINE l == [local[c] EXCEPT !.todo = @ \ {r}, !.copies[r] = active[r]]
    <2>1. /\ l.copies = [local[c].copies EXCEPT ![r] = active[r]]
          /\ l.overtaken = local[c].overtaken
        BY <1>1 DEF Locals
    <2>2. local[c].copies \in [Replicas -> Nat \cup {NotCopied}]
        BY <1>1 DEF Locals
    <2>3. pc[c] = "copy" /\ pc' = [pc EXCEPT ![c] = "copy"] /\ local' = [local EXCEPT ![c] = l]
          /\ UNCHANGED active
        BY <1>1, <1>5 DEF CopyOne
    <2> HIDE DEF l
    <2>4. KnowsCounters("copy", l, active)
        BY <1>2, <1>3, <2>1, <2>2, <2>3 DEF KnowsCounters, BeforeCopy, Copied
    <2> QED
        BY <2>3, <2>4, RaceCaller
<1>6. CASE Score(c)
    <2>1. ASSUME NEW r \in Best(local[c]), pc' = [pc EXCEPT ![c] = "selected"],
                 local' = [local EXCEPT ![c] = [Fresh EXCEPT !.selection = r,
                                          !.overtaken = local[c].overtaken \cap {r}]]
          PROVE  RaceInv'
        <3> DEFINE l == [Fresh EXCEPT !.selection = r,
                                      !.overtaken = local[c].overtaken \cap {r}]
        <3>1. r \in Replicas /\ r \in Copied(local[c]) /\ HasSlot(r, local[c].copies[r])
            BY DEF Best, Candidates, Copied
        <3>2. r \notin local[c].overtaken => active[r] <= local[c].copies[r]
            BY <1>3, <1>6, <3>1 DEF KnowsCounters, Score
        <3>3. local[c].copies[r] \in Nat
            BY <1>1, <3>1 DEF Locals, Copied
        <3>4. r \notin local[c].overtaken => HasSlot(r, active[r])
            BY <1>2, <3>1, <3>2, <3>3, BalancerAssumption DEF HasSlot
        <3>5. l.selection = r /\ l.overtaken = local[c].overtaken \cap {r}
            BY DEF Fresh
        <3> HIDE DEF l
        <3>6. KnowsCounters("selected", l, active)
            BY <3>4, <3>5 DEF KnowsCounters, BeforeCopy
        <3> QED
            BY <1>6, <2>1, <3>6, RaceCaller DEF Score, l
    <2>2. ASSUME pc' = [pc EXCEPT ![c] = "none"],
                 local' = [local EXCEPT ![c] = [Fresh EXCEPT !.excluded = local[c].excluded]]
          PROVE  RaceInv'
        <3> DEFINE l == [Fresh EXCEPT !.excluded = local[c].excluded]
                   p == "none"
        <3>1. KnowsCounters(p, l, active)
            BY KnowsNothing
        <3>2. pc[c] # "counted" /\ p # "counted" /\ UNCHANGED active
            BY <1>6 DEF Score
        <3>3. pc' = [pc EXCEPT ![c] = p] /\ local' = [local EXCEPT ![c] = l]
            BY <2>2
        <3> HIDE DEF l, p
        <3> QED
            BY <3>1, <3>2, <3>3, RaceCaller
    <2> QED
        BY <1>6, <2>1, <2>2 DEF Score
<1> QED
    BY <1>4, <1>5, <1>6

LEMMA CountRaces ==
    ASSUME TypeInv, RaceInv, NEW c \in Callers, IncrementActive(c)
    PROVE  RaceInv'
<1> DEFINE r == local[c].selection
<1>1. /\ local \in [Callers -> Locals] /\ pc \in [Callers -> Places]
      /\ active \in [Replicas -> Nat] /\ r \in Replicas
    BY CallerAt DEF TypeInv, TypeOK, IncrementActive
<1>2. /\ pc[c] = "selected" /\ pc' = [pc EXCEPT ![c] = "counted"]
      /\ active' = [active EXCEPT ![r] = @ + 1]
    BY DEF IncrementActive
<1>3. \A d \in Callers :
         /\ d # c /\ GoesBy(d, r) =>
                local'[d] = [local[d] EXCEPT !.overtaken = @ \cup {r}]
         /\ d = c \/ ~GoesBy(d, r) => local'[d] = local[d]
    BY DEF IncrementActive, Overtake
<1>4. \A d \in Callers :
         /\ local'[d].copies = local[d].copies /\ local'[d].selection = local[d].selection
         /\ local[d].overtaken \subseteq local'[d].overtaken
         /\ d # c /\ GoesBy(d, r) => r \in local'[d].overtaken
    <2> HIDE DEF r
    <2>1. ASSUME NEW d \in Callers, d # c /\ GoesBy(d, r)
          PROVE  /\ local'[d].copies = local[d].copies
                 /\ local'[d].selection = local[d].selection
                 /\ local'[d].overtaken = local[d].overtaken \cup {r}
        <3>1. local[d] \in Locals /\ local'[d] = [local[d] EXCEPT !.overtaken = @ \cup {r}]
            BY <1>1, <1>3, <2>1
        <3> QED
            BY <3>1 DEF Locals
    <2> QED
        BY <1>3, <2>1
<1> HIDE DEF r
<1>5. ASSUME NEW d \in Callers
      PROVE  KnowsCounters(pc'[d], local'[d], active')
    <2>1. CASE d = c
        BY <1>1, <1>2, <2>1, KnowsNothing
    <2>2. CASE d # c
        <3>1. pc'[d] = pc[d] /\ KnowsCounters(pc[d], local[d], active)
            BY <1>1, <1>2, <2>2 DEF RaceInv
        <3>2. Copied(local'[d]) = Copied(local[d])
            BY <1>4 DEF Copied
        <3>3. \A t \in Replicas : t # r => active'[t] = active[t]
            BY <1>1, <1>2
        <3>4. pc[d] = "copy" /\ r \in Copied(local'[d]) => r \in local'[d].overtaken
            BY <1>4, <2>2, <3>2 DEF GoesBy
        <3>5. pc[d] = "selected" /\ local'[d].selection = r => r \in local'[d].overtaken
            BY <1>4, <2>2 DEF GoesBy
        <3>6. pc[d] = "selected" => local[d].selection \in Replicas
            BY CallerAt
        <3> QED
            BY <1>4, <3>1, <3>2, <3>3, <3>4, <3>5, <3>6 DEF KnowsCounters, HasSlot
    <2> QED
        BY <2>1, <2>2
<1>6. ASSUME NEW t \in Replicas, max_capacity[t] > 0
      PROVE  active'[t] <= max_capacity[t] + Cardinality(Overbooking(t)')
    <2>1. \A d : d # c => (d \in Overbooking(t) <=> d \in Overbooking(t)')
        BY <1>1, <1>2, <1>3 DEF Overbooking, GoesBy
    <2>2. c \notin Overbooking(t)
        BY <1>2 DEF Overbooking
    <2>3. c \in Overbooking(t)' <=> r = t /\ r \in local[c].overtaken
        BY <1>1, <1>2, <1>3 DEF Overbooking, r
    <2>4. Cardinality(Overbooking(t)') = Cardinality(Overbooking(t))
                                             + One(c \in Overbooking(t)')
        <3>1. Cardinality(Overbooking(t)) \in Nat
            BY OverbookingFinite, FS_CardinalityType
        <3> QED
            BY <2>1, <2>2, <3>1, OverbookingFinite, ToggleCardinality DEF One
    <2>5. Cardinality(Overbooking(t)) \in Nat /\ max_capacity[t] \in Nat
        BY OverbookingFinite, FS_CardinalityType, BalancerAssumption
    <2>6. active[t] <= max_capacity[t] + Cardinality(Overbooking(t))
        BY <1>6 DEF RaceInv, OverbookedByRace
    <2>7. active'[t] = active[t] + One(t = r) /\ active[t] \in Nat
        BY <1>1, <1>2 DEF One
    <2>8. CASE r = t /\ r \notin local[c].overtaken
        <3>1. active[t] < max_capacity[t]
            BY <1>2, <1>6, <2>8 DEF RaceInv, KnowsCounters, HasSlot, r
        <3> QED
            BY <2>3, <2>4, <2>5, <2>7, <2>8, <3>1 DEF One
    <2>9. CASE ~(r = t /\ r \notin local[c].overtaken)
        BY <2>3, <2>4, <2>5, <2>6, <2>7, <2>9 DEF One
    <2> QED
        BY <2>8, <2>9
<1> QED
    BY <1>5, <1>6 DEF RaceInv, OverbookedByRace

LEMMA UncountRaces ==
    ASSUME TypeInv, RaceInv, NEW c \in Callers, DecrementActive(c)
    PROVE  RaceInv'
<1> DEFINE r == local[c].selection
<1>1. /\ local \in [Callers -> Locals] /\ pc \in [Callers -> Places]
      /\ active \in [Replicas -> Nat] /\ r \in Replicas
    BY CallerAt DEF TypeInv, TypeOK, DecrementActive
<1>2. /\ pc[c] = "counted" /\ pc' = [pc EXCEPT ![c] = "idle"]
      /\ active' = [active EXCEPT ![r] = @ - 1] /\ local' = [local EXCEPT ![c] = Fresh]
    BY DEF DecrementActive
<1>3. \A t \in Replicas : active'[t] = active[t] - One(t = r) /\ active[t] \in Nat
    BY <1>1, <1>2 DEF One
<1> HIDE DEF r
<1>4. ASSUME NEW d \in Callers
      PROVE  KnowsCounters(pc'[d], local'[d], active')
    <2>1. CASE d = c
        BY <1>1, <1>2, <2>1, KnowsNothing
    <2>2. CASE d # c
        <3>1. pc'[d] = pc[d] /\ local'[d] = local[d]
              /\ KnowsCounters(pc[d], local[d], active) /\ local[d] \in Locals
            BY <1>1, <1>2, <2>2 DEF RaceInv
        <3>2. \A t \in Replicas, n \in Nat : active[t] <= n => active'[t] <= n
            BY <1>3 DEF One
        <3>3. \A t \in Replicas : HasSlot(t, active[t]) => HasSlot(t, active'[t])
            BY <1>3, BalancerAssumption DEF HasSlot, One
        <3>4. \A t \in Replicas : t \in Copied(local[d]) => local[d].copies[t] \in Nat
            BY <3>1 DEF Copied, Locals
        <3>5. pc[d] = "selected" => local[d].selection \in Replicas
            BY CallerAt
        <3> QED
            BY <3>1, <3>2, <3>3, <3>4, <3>5 DEF KnowsCounters
    <2> QED
        BY <2>1, <2>2
<1>5. ASSUME NEW t \in Replicas, max_capacity[t] > 0
      PROVE  active'[t] <= max_capacity[t] + Cardinality(Overbooking(t)')
    <2>1. \A d : d # c => (d \in Overbooking(t) <=> d \in Overbooking(t)')
        BY <1>1, <1>2 DEF Overbooking
    <2>2. c \notin Overbooking(t)' /\ (c \in Overbooking(t) => t = r)
        BY <1>1, <1>2 DEF Overbooking, r
    <2>3. Cardinality(Overbooking(t)) \in Nat /\ Cardinality(Overbooking(t)') \in Nat
          /\ max_capacity[t] \in Nat
        BY OverbookingFinite, FS_CardinalityType, BalancerAssumption
    <2>4. Cardinality(Overbooking(t)') = Cardinality(Overbooking(t))
                - One(c \in Overbooking(t)) + One(c \in Overbooking(t)')
        BY <2>1, OverbookingFinite, ToggleCardinality
    <2>5. active[t] <= max_capacity[t] + Cardinality(Overbooking(t))
        BY <1>5 DEF RaceInv, OverbookedByRace
    <2> QED
        BY <1>3, <2>2, <2>3, <2>4, <2>5 DEF One
<1> QED
    BY <1>4, <1>5 DEF RaceInv, OverbookedByRace

LEMMA RaceStep == TypeInv /\ RaceInv /\ [Next]_vars => RaceInv'
<1> SUFFICES ASSUME TypeInv, RaceInv, [Next]_vars
             PROVE  RaceInv'
    OBVIOUS
<1>1. ASSUME UNCHANGED <<callers, active>>
      PROVE  RaceInv'
    BY <1>1 DEF callers, RaceInv, OverbookedByRace, Overbooking
<1>2. CASE Next
    <2>1. ASSUME NEW c \in Callers, Refused(c) \/ NoSelection(c)
          PROVE  RaceInv'
        BY <2>1, KnowsNothing, RaceCaller DEF Refused, NoSelection, registry
    <2>2. ASSUME NEW c \in Callers, Infer(c)
          PROVE  RaceInv'
        BY <2>1, <2>2, WalkRaces, CopyRaces, CountRaces, UncountRaces DEF Infer,
           SelectReplica
    <2>3. ASSUME NEW b \in Rebuilders,
                 RebuildRing(b) \/ \E r \in Replicas : ChangeRouting(b, r)
          PROVE  RaceInv'
        BY <1>1, <2>3 DEF RebuildRing, SnapshotAlive, SwapRing, ChangeRouting, registry
    <2> QED
        BY <1>2, <2>2, <2>3 DEF Next, Steps
<1>3. CASE UNCHANGED vars
    BY <1>1, <1>3 DEF vars, registry
<1> QED
    BY <1>2, <1>3

LEMMA RaceInit == Init => RaceInv
<1> SUFFICES ASSUME Init
             PROVE  RaceInv
    OBVIOUS
<1>1. \A c \in Callers : KnowsCounters(pc[c], local[c], active)
    BY KnowsNothing DEF Init
<1>2. \A r : Overbooking(r) = {}
    BY DEF Init, Overbooking
<1>3. OverbookedByRace
    <2>1. \A r \in Replicas : active[r] = 0 /\ max_capacity[r] \in Nat
        BY BalancerAssumption DEF Init
    <2>2. \A r : Cardinality(Overbooking(r)) = 0
        BY <1>2, FS_EmptySet
    <2> QED
        BY <2>1, <2>2 DEF OverbookedByRace
<1> QED
    BY <1>1, <1>3 DEF RaceInv

\* A replica has more requests than it has slots only by those that were
\* overtaken between reading its counter and counting themselves.
THEOREM OverbookedByRaceHolds == Spec => []OverbookedByRace
<1>1. RaceInv => OverbookedByRace
    BY DEF RaceInv
<1>2. Spec => []TypeInv
    BY Typed
<1>3. Spec => Init /\ [][Next]_vars
    BY DEF Spec
<1> QED
    BY <1>1, <1>2, <1>3, RaceInit, RaceStep, PTL

-----------------------------------------------------------------------------
(* No replica is overlooked                                                *)

\* A caller at p with locals l is not going to overlook a replica of o.
Finds(p, l, o) ==
    /\ p = "copy" => o \subseteq l.todo \cup Candidates(l)
    /\ p = "none" => o = {}

FoundInv ==
    /\ \A c \in Callers : open[c] \subseteq OpenTo(c)
    /\ \A c \in Callers : Finds(pc[c], local[c], open[c])

\* A call in progress has no replica open that it had not before.
LEMMA OpenShrinks ==
    ASSUME Observe, NEW c \in Callers
    PROVE  /\ open'[c] \subseteq OpenTo(c)'
           /\ pc[c] # "idle" => open'[c] \subseteq open[c]
BY DEF Observe

\* Callers that do not move, but may be overtaken.
LEMMA OthersFind ==
    ASSUME FoundInv, Observe, NEW d \in Callers, pc'[d] = pc[d],
           local'[d].todo = local[d].todo, local'[d].copies = local[d].copies,
           local'[d].excluded = local[d].excluded
    PROVE  Finds(pc'[d], local'[d], open'[d])
<1>1. Candidates(local'[d]) = Candidates(local[d])
    BY DEF Candidates, Copied
<1> QED
    BY <1>1, OpenShrinks DEF FoundInv, Finds

LEMMA CallerFinds ==
    ASSUME TypeInv, FoundInv, Observe, NEW c \in Callers, Infer(c)
    PROVE  Finds(pc'[c], local'[c], open'[c])
<1>1. local \in [Callers -> Locals] /\ pc \in [Callers -> Places] /\ local[c] \in Locals
    BY CallerAt
<1>2. CASE BeginCopy(c)
    <2>1. pc'[c] = "copy" /\ local'[c].todo = alive /\ alive' = alive
        BY <1>1, <1>2 DEF BeginCopy, registry, Locals
    <2>2. open'[c] \subseteq alive
        BY <2>1, OpenShrinks DEF OpenTo, Eligible
    <2> QED
        BY <2>1, <2>2 DEF Finds
<1>3. ASSUME NEW r \in Replicas, CopyOne(c, r)
      PROVE  pc'[c] = "copy" /\ open'[c] \subseteq local'[c].todo \cup
         Candidates(local'[c])
    <2> DEFINE l == local[c]
               m == local'[c]
    <2>1. pc[c] = "copy" /\ pc'[c] = "copy" /\ open'[c] \subseteq open[c]
        BY <1>1, <1>3, OpenShrinks DEF CopyOne
    <2>2. /\ m.todo = l.todo \ {r} /\ m.excluded = l.excluded
          /\ m.copies = [l.copies EXCEPT ![r] = active[r]]
          /\ l.copies \in [Replicas -> Nat \cup {NotCopied}]
        BY <1>1, <1>3 DEF CopyOne, Locals
    <2>3. open[c] \subseteq l.todo \cup Candidates(l)
        BY <2>1 DEF FoundInv, Finds
    <2>4. r \in open[c] => r \notin l.excluded /\ HasSlot(r, active[r])
        BY DEF FoundInv, OpenTo, Eligible
    <2>5. active[r] # NotCopied
        BY DEF TypeInv, TypeOK, NotCopied
    <2> HIDE DEF l, m
    <2>6. r \in open[c] => r \in Candidates(m)
        BY <2>2, <2>4, <2>5 DEF Candidates, Copied
    <2>7. \A s : s # r /\ s \in Candidates(l) => s \in Candidates(m)
        BY <2>2 DEF Candidates, Copied
    <2> QED
        BY <2>1, <2>2, <2>3, <2>6, <2>7 DEF m
<1>4. CASE Score(c)
    <2>1. pc[c] = "copy" /\ local[c].todo = {} /\ open'[c] \subseteq open[c]
        BY <1>4, OpenShrinks DEF Score
    <2>2. open[c] \subseteq Candidates(local[c])
        BY <2>1 DEF FoundInv, Finds
    <2>3. pc'[c] = "selected" \/ (pc'[c] = "none" /\ Candidates(local[c]) = {})
        BY <1>1, <1>4 DEF Score
    <2> QED
        BY <2>1, <2>2, <2>3 DEF Finds
<1>5. CASE Call(c) \/ TakeRing(c) \/ TakeCandidate(c) \/ PassCandidate(c)
    <2>1. pc'[c] \notin {"copy", "none"}
        BY <1>1, <1>5 DEF Call, TakeRing, TakeCandidate, PassCandidate
    <2> QED
        BY <2>1 DEF Finds
<1>6. CASE IncrementActive(c) \/ Refused(c) \/ DecrementActive(c) \/ NoSelection(c)
    <2>1. pc'[c] \notin {"copy", "none"}
        BY <1>1, <1>6 DEF IncrementActive, Refused, DecrementActive, NoSelection
    <2> QED
        BY <2>1 DEF Finds
<1> QED
    BY <1>2, <1>3, <1>4, <1>5, <1>6 DEF Infer, SelectReplica, Finds

\* What a step of c leaves of the other callers.
LEMMA OthersStay ==
    ASSUME TypeInv, NEW c \in Callers, Infer(c), NEW d \in Callers, d # c
    PROVE  /\ pc'[d] = pc[d]
           /\ local'[d].todo = local[d].todo /\ local'[d].copies = local[d].copies
           /\ local'[d].excluded = local[d].excluded
           /\ pc[d] \notin {"copy", "selected"} => local'[d] = local[d]
<1>1. local \in [Callers -> Locals] /\ pc \in [Callers -> Places] /\ local[d] \in Locals
    BY CallerAt
<1>2. CASE IncrementActive(c)
    <2> DEFINE r == local[c].selection
    <2>1. pc'[d] = pc[d]
        BY <1>1, <1>2 DEF IncrementActive
    <2>2. \/ local'[d] = local[d]
          \/ (GoesBy(d, r) /\ local'[d] = [local[d] EXCEPT !.overtaken = @ \cup {r}])
        BY <1>2 DEF IncrementActive, Overtake
    <2> DEFINE l == [local[d] EXCEPT !.overtaken = @ \cup {r}]
    <2>3. /\ l.todo = local[d].todo /\ l.copies = local[d].copies
          /\ l.excluded = local[d].excluded
        BY <1>1 DEF Locals
    <2> QED
        BY <2>1, <2>2, <2>3 DEF GoesBy
<1>3. CASE ~IncrementActive(c)
    <2>1. pc'[d] = pc[d] /\ local'[d] = local[d]
        <3>1. CASE SelectReplica(c)
            BY <1>1, <3>1 DEF SelectReplica, TakeRing, TakeCandidate, PassCandidate,
               BeginCopy,
                              CopyOne, Score
        <3>2. CASE Call(c) \/ Refused(c) \/ DecrementActive(c) \/ NoSelection(c)
            BY <1>1, <3>2 DEF Call, Refused, DecrementActive, NoSelection
        <3> QED
            BY <1>3, <3>1, <3>2 DEF Infer
    <2> QED
        BY <2>1
<1> QED
    BY <1>2, <1>3

LEMMA FoundStep == TypeInv /\ FoundInv /\ [Next]_vars => FoundInv'
<1> SUFFICES ASSUME TypeInv, FoundInv, [Next]_vars
             PROVE  FoundInv'
    OBVIOUS
<1>1. CASE Next
    <2>1. Observe
        BY <1>1 DEF Next
    <2>2. \A d \in Callers : open'[d] \subseteq OpenTo(d)'
        BY <2>1, OpenShrinks
    <2>3. ASSUME NEW c \in Callers, Infer(c), NEW d \in Callers
          PROVE  Finds(pc'[d], local'[d], open'[d])
        BY <2>1, <2>3, CallerFinds, OthersStay, OthersFind
    <2>4. ASSUME NEW b \in Rebuilders, NEW d \in Callers,
                 RebuildRing(b) \/ \E r \in Replicas : ChangeRouting(b, r)
          PROVE  Finds(pc'[d], local'[d], open'[d])
        <3>1. pc' = pc /\ local' = local
            BY <2>4 DEF RebuildRing, SnapshotAlive, SwapRing, ChangeRouting, callers
        <3> QED
            BY <2>1, <3>1, OthersFind
    <2> QED
        BY <1>1, <2>2, <2>3, <2>4 DEF Next, Steps, FoundInv
<1>2. CASE UNCHANGED vars
    BY <1>2 DEF vars, callers, registry, FoundInv, OpenTo, Eligible
<1> QED
    BY <1>1, <1>2

LEMMA FoundInit == Init => FoundInv
BY DEF Init, FoundInv, Finds

\* SelectReplica returns no replica only if none was open to it all along.
THEOREM OpenIsFoundHolds == Spec => []OpenIsFound
<1>1. FoundInv => OpenIsFound
    BY DEF FoundInv, Finds, OpenIsFound
<1>2. Spec => []TypeInv
    BY Typed
<1>3. Spec => Init /\ [][Next]_vars
    BY DEF Spec
<1> QED
    BY <1>1, <1>2, <1>3, FoundInit, FoundStep, PTL

-----------------------------------------------------------------------------
(* The walk                                                                *)

\* No point of D lies nearer clockwise of h than p does.
Nearest(h, p, D) == \A q \in D : Distance(h, p) <= Distance(h, q)

WalkOK(l) ==
    /\ l.it \in DOMAIN ring /\ l.start \in DOMAIN ring
    /\ Nearest(l.h, l.start, DOMAIN ring)
    /\ l.wrapped <=> l.it < l.start
    /\ l.passed = {p \in DOMAIN ring : Distance(l.h, p) < Distance(l.h, l.it)}

WalkInv ==
    /\ \A c \in Callers : pc[c] = "walk" => WalkOK(local[c])
    /\ \A c \in Callers : pc[c] = "tier1" => local[c].passed = {} /\ ~local[c].wrapped

\* lower_bound finds the nearest point, and begin() does so behind the last.
LEMMA LowerBoundNearest ==
    ASSUME DOMAIN ring \subseteq Positions, DOMAIN ring # {}, NEW h \in Positions
    PROVE  Nearest(h, LowerBound(h), DOMAIN ring)
<1> DEFINE after == {p \in DOMAIN ring : p >= h}
<1>1. DOMAIN ring \subseteq Nat /\ \A p \in DOMAIN ring : 0 <= p /\ p < hash_range
    BY BalancerAssumption DEF Positions
<1>2. h \in Nat /\ h < hash_range /\ hash_range \in Nat
    BY BalancerAssumption DEF Positions
<1>3. CASE after = {}
    <2>1. Min(DOMAIN ring) \in DOMAIN ring /\ \A q \in DOMAIN ring : Min(DOMAIN ring) <= q
        BY <1>1, MinIsLeast
    <2>2. \A q \in DOMAIN ring : q < h
        BY <1>1, <1>2, <1>3
    <2> QED
        BY <1>1, <1>2, <1>3, <2>1, <2>2 DEF LowerBound, Nearest, Distance
<1>4. CASE after # {}
    <2>1. after \subseteq Nat
        BY <1>1
    <2>2. Min(after) \in after /\ \A q \in after : Min(after) <= q
        <3> HIDE DEF after
        <3> QED
            BY <1>4, <2>1, MinIsLeast
    <2>3. LowerBound(h) = Min(after)
        BY <1>4 DEF LowerBound
    <2>4. Min(after) \in DOMAIN ring /\ Min(after) >= h
        BY <2>2
    <2>5. ASSUME NEW q \in DOMAIN ring
          PROVE  Distance(h, Min(after)) <= Distance(h, q)
        <3>1. q >= h => Min(after) <= q
            BY <2>2
        <3> HIDE DEF after
        <3> QED
            BY <1>1, <1>2, <2>4, <3>1 DEF Distance
    <2> QED
        BY <2>3, <2>5 DEF Nearest
<1> QED
    BY <1>3, <1>4

\* ++it, and begin() behind the last point.
LEMMA NextPointFacts ==
    ASSUME DOMAIN ring \subseteq Positions, NEW p \in DOMAIN ring
    PROVE  LET n == NextPoint(p) IN
           /\ n \in DOMAIN ring
           /\ IsLast(p) => \A q \in DOMAIN ring : n <= q /\ q <= p
           /\ ~IsLast(p) => n > p /\ \A q \in DOMAIN ring : q <= p \/ q >= n
<1>1. DOMAIN ring \subseteq Nat
    BY DEF Positions
<1>2. CASE IsLast(p)
    <2>1. Min(DOMAIN ring) \in DOMAIN ring /\ \A q \in DOMAIN ring : Min(DOMAIN ring) <= q
        BY <1>1, MinIsLeast
    <2> QED
        BY <1>2, <2>1 DEF NextPoint, IsLast
<1>3. CASE ~IsLast(p)
    <2> DEFINE after == {q \in DOMAIN ring : q > p}
    <2>1. after # {} /\ after \subseteq Nat
        BY <1>1, <1>3 DEF IsLast
    <2>2. Min(after) \in after /\ \A q \in after : Min(after) <= q
        <3> HIDE DEF after
        <3> QED
            BY <2>1, MinIsLeast
    <2> QED
        BY <1>1, <1>3, <2>2 DEF NextPoint
<1> QED
    BY <1>2, <1>3

\* Numbers only: D is the ring, s the nearest point of h, i the point that the
\* walk is at and n the one after it.
Around(D, h, s, i, n) ==
    /\ D \subseteq Positions /\ h \in Positions
    /\ s \in D /\ i \in D /\ n \in D
    /\ Nearest(h, s, D)
    /\ \/ \A q \in D : n <= q /\ q <= i
       \/ n > i /\ \A q \in D : q <= i \/ q >= n

LEMMA DistanceTo ==
    ASSUME NEW h \in Positions, NEW p \in Positions
    PROVE  /\ p >= h => Distance(h, p) = p - h
           /\ p < h => Distance(h, p) = p - h + hash_range
           /\ h \in Int /\ p \in Int /\ 0 <= p /\ p < hash_range /\ 0 <= h /\ h < hash_range
           /\ hash_range \in Int
BY BalancerAssumption DEF Distance, Positions

\* The next point is the nearest one that has not been passed.
LEMMA NextIsNext ==
    ASSUME NEW D, NEW h, NEW s, NEW i, NEW n, Around(D, h, s, i, n),
           n < s \/ (i >= s /\ n > i), NEW p \in D
    PROVE  Distance(h, p) < Distance(h, n) <=> Distance(h, p) < Distance(h, i) \/ p = i
<1>1. h \in Positions /\ s \in Positions /\ i \in Positions /\ n \in Positions /\ p \in Positions
    BY DEF Around
<1>2. /\ Distance(h, s) <= Distance(h, i) /\ Distance(h, s) <= Distance(h, n)
      /\ Distance(h, s) <= Distance(h, p)
    BY DEF Around, Nearest
<1>3. (n <= p /\ p <= i /\ n <= s /\ s <= i) \/ (n > i /\ (p <= i \/ p >= n) /\ (s <= i \/ s >= n))
    BY DEF Around
<1> QED
    BY <1>1, <1>2, <1>3, DistanceTo

\* When the walk is back at the start, it has been everywhere.
LEMMA LapIsFull ==
    ASSUME NEW D, NEW h, NEW s, NEW i, NEW n, Around(D, h, s, i, n),
           n >= s, i < s \/ n <= i, NEW p \in D
    PROVE  Distance(h, p) < Distance(h, i) \/ p = i
<1>1. h \in Positions /\ s \in Positions /\ i \in Positions /\ n \in Positions /\ p \in Positions
    BY DEF Around
<1>2. /\ Distance(h, s) <= Distance(h, i) /\ Distance(h, s) <= Distance(h, n)
      /\ Distance(h, s) <= Distance(h, p)
    BY DEF Around, Nearest
<1>3. (n <= p /\ p <= i /\ n <= s /\ s <= i) \/ (n > i /\ (p <= i \/ p >= n) /\ (s <= i \/ s >= n))
    BY DEF Around
<1> QED
    BY <1>1, <1>2, <1>3, DistanceTo

LEMMA WalkAround ==
    ASSUME TypeInv, WalkInv, NEW c \in Callers, pc[c] = "walk"
    PROVE  LET l == local[c] IN
           /\ Around(DOMAIN ring, l.h, l.start, l.it, NextPoint(l.it))
           /\ IsLast(l.it) => NextPoint(l.it) <= l.it
           /\ ~IsLast(l.it) => NextPoint(l.it) > l.it
           /\ l.it \in Nat /\ l.start \in Nat /\ NextPoint(l.it) \in Nat
<1> DEFINE l == local[c]
<1>1. l \in Locals /\ DOMAIN ring \subseteq Positions /\ WalkOK(l)
    BY CallerAt DEF WalkInv
<1>2. l.h \in Positions /\ l.it \in DOMAIN ring /\ l.start \in DOMAIN ring
      /\ Nearest(l.h, l.start, DOMAIN ring)
    BY <1>1 DEF WalkOK, Locals
<1> HIDE DEF l
<1>3. /\ NextPoint(l.it) \in DOMAIN ring
      /\ IsLast(l.it) => \A q \in DOMAIN ring : NextPoint(l.it) <= q /\ q <= l.it
      /\ ~IsLast(l.it) => /\ NextPoint(l.it) > l.it
                          /\ \A q \in DOMAIN ring : q <= l.it \/ q >= NextPoint(l.it)
    BY <1>1, <1>2, NextPointFacts
<1>4. DOMAIN ring \subseteq Nat
    BY <1>1 DEF Positions
<1>5. Around(DOMAIN ring, l.h, l.start, l.it, NextPoint(l.it))
    BY <1>1, <1>2, <1>3 DEF Around
<1> QED
    BY <1>2, <1>3, <1>4, <1>5 DEF l

\* A walk that is not over has its invariant at the next point, too.
LEMMA PassKeeps ==
    ASSUME TypeInv, WalkInv, NEW c \in Callers, PassCandidate(c), ~LapEnds(c)
    PROVE  pc'[c] = "walk" /\ WalkOK(local'[c])
<1> DEFINE l == local[c]
           n == NextPoint(l.it)
           w == l.wrapped \/ IsLast(l.it)
           ps == l.passed \cup {l.it}
           m == [l EXCEPT !.it = n, !.wrapped = w, !.passed = ps]
<1>1. l \in Locals /\ local \in [Callers -> Locals] /\ pc[c] = "walk" /\ WalkOK(l)
    BY CallerAt DEF PassCandidate, WalkInv
<1>2. pc'[c] = "walk"
    BY CallerAt DEF PassCandidate
<1>3. local'[c] = m
    BY <1>1 DEF PassCandidate
<1>4. /\ Around(DOMAIN ring, l.h, l.start, l.it, n)
      /\ IsLast(l.it) => n <= l.it
      /\ ~IsLast(l.it) => n > l.it
      /\ l.it \in Nat /\ l.start \in Nat /\ n \in Nat
    BY <1>1, WalkAround
<1>5. ~(w /\ n >= l.start)
    BY DEF LapEnds
<1>6. l.wrapped <=> l.it < l.start
    BY <1>1 DEF WalkOK
<1>7. m.it = n /\ m.start = l.start /\ m.h = l.h /\ (m.wrapped <=> w) /\ m.passed = ps
    BY <1>1 DEF Locals
<1>8. ring' = ring
    BY DEF PassCandidate
<1>9. n \in DOMAIN ring
    BY <1>4 DEF Around
<1> HIDE DEF n, m
<1>10. w <=> n < l.start
    BY <1>4, <1>5, <1>6
<1>11. n < l.start \/ (l.it >= l.start /\ n > l.it)
    BY <1>4, <1>5, <1>6
<1>12. \A p \in DOMAIN ring : Distance(l.h, p) < Distance(l.h, n)
                                <=> Distance(l.h, p) < Distance(l.h, l.it) \/ p = l.it
    BY <1>4, <1>11, NextIsNext
<1>13. ps = {p \in DOMAIN ring : Distance(l.h, p) < Distance(l.h, n)}
    BY <1>1, <1>12 DEF WalkOK
<1> HIDE DEF w, ps
<1>14. WalkOK(m)
    BY <1>1, <1>7, <1>9, <1>10, <1>13 DEF WalkOK
<1> QED
    BY <1>2, <1>3, <1>14

LEMMA TakeRingWalks ==
    ASSUME TypeInv, WalkInv, NEW c \in Callers, TakeRing(c), pc'[c] = "walk"
    PROVE  WalkOK(local'[c])
<1> DEFINE l == local[c]
           p == LowerBound(l.h)
           m == [l EXCEPT !.it = p, !.start = p]
<1>1. /\ l \in Locals /\ local \in [Callers -> Locals] /\ pc \in [Callers -> Places]
      /\ l.passed = {} /\ ~l.wrapped /\ DOMAIN ring \subseteq Positions
    BY CallerAt DEF TakeRing, WalkInv
<1>2. DOMAIN ring # {} /\ local' = [local EXCEPT ![c].it = p, ![c].start = p]
    BY <1>1 DEF TakeRing
<1>3. local'[c] = m
    BY <1>1, <1>2
<1>4. l.h \in Positions
    BY <1>1 DEF Locals
<1>5. p \in DOMAIN ring /\ Nearest(l.h, p, DOMAIN ring)
    BY <1>1, <1>2, <1>4, PointsOfRing, LowerBoundNearest
<1> HIDE DEF p
<1>6. m.it = p /\ m.start = p /\ m.h = l.h /\ m.wrapped = l.wrapped /\ m.passed = l.passed
    BY <1>1 DEF Locals
<1>7. \A q \in DOMAIN ring : Distance(l.h, p) <= Distance(l.h, q)
                                 /\ Distance(l.h, p) \in Int /\ Distance(l.h, q) \in Int
    BY <1>1, <1>4, <1>5, BalancerAssumption DEF Nearest, Distance, Positions
<1>8. {q \in DOMAIN ring : Distance(l.h, q) < Distance(l.h, p)} = {}
    BY <1>7
<1>9. ~(p < p)
    BY <1>1, <1>5 DEF Positions
<1>10. ring' = ring
    BY DEF TakeRing
<1> HIDE DEF m
<1> QED
    BY <1>1, <1>3, <1>5, <1>6, <1>8, <1>9 DEF WalkOK

LEMMA WalkStep == TypeInv /\ WalkInv /\ [Next]_vars => WalkInv'
<1> SUFFICES ASSUME TypeInv, WalkInv, [Next]_vars
             PROVE  WalkInv'
    OBVIOUS
<1> DEFINE OK(d) == /\ pc[d] = "walk" => WalkOK(local[d])
                    /\ pc[d] = "tier1" => local[d].passed = {} /\ ~local[d].wrapped
<1>1. ASSUME NEW c \in Callers, Infer(c), NEW d \in Callers
      PROVE  OK(d)'
    <2>1. ring' = ring
        BY <1>1 DEF Infer, Call, SelectReplica, TakeRing, TakeCandidate, PassCandidate,
           BeginCopy,
                    CopyOne, Score, IncrementActive, Refused, DecrementActive, NoSelection, balancer
    <2>2. local \in [Callers -> Locals] /\ pc \in [Callers -> Places]
        BY CallerAt
    <2>3. CASE d # c
        <3>1. pc'[d] = pc[d] /\ (pc[d] \in {"walk", "tier1"} => local'[d] = local[d])
            BY <1>1, <2>3, OthersStay
        <3> QED
            BY <2>1, <3>1 DEF WalkInv, WalkOK
    <2>4. CASE d = c
        <3>1. CASE PassCandidate(c)
            <4>1. pc'[c] # "tier1"
                BY <2>2, <3>1 DEF PassCandidate
            <4>2. CASE ~LapEnds(c)
                BY <2>1, <2>4, <3>1, <4>1, <4>2, PassKeeps DEF WalkOK
            <4>3. CASE LapEnds(c)
                BY <2>2, <2>4, <3>1, <4>3 DEF PassCandidate
            <4> QED
                BY <4>2, <4>3
        <3>2. CASE TakeRing(c)
            <4>1. pc'[c] # "tier1"
                BY <2>2, <3>2 DEF TakeRing
            <4> QED
                BY <2>1, <2>4, <3>2, <4>1, TakeRingWalks DEF WalkOK
        <3>3. CASE Call(c)
            <4>1. \A h, x : LET l == [Fresh EXCEPT !.h = h, !.excluded = x]
                            IN  l.passed = {} /\ ~l.wrapped
                BY DEF Fresh
            <4> QED
                BY <2>2, <2>4, <3>3, <4>1 DEF Call
        <3>4. CASE ~(PassCandidate(c) \/ TakeRing(c) \/ Call(c))
            <4>1. pc'[c] \notin {"walk", "tier1"}
                BY <1>1, <2>2, <3>4
                DEF Infer, SelectReplica, TakeCandidate, BeginCopy, CopyOne, Score,
                    IncrementActive, Refused, DecrementActive, NoSelection
            <4> QED
                BY <2>4, <4>1
        <3> QED
            BY <3>1, <3>2, <3>3, <3>4
    <2> QED
        BY <2>3, <2>4
<1>2. ASSUME NEW b \in Rebuilders, NEW d \in Callers,
             RebuildRing(b) \/ \E r \in Replicas : ChangeRouting(b, r)
      PROVE  OK(d)'
    <2>1. pc' = pc /\ local' = local
        BY <1>2 DEF RebuildRing, SnapshotAlive, SwapRing, ChangeRouting, callers
    <2>2. CASE ring' = ring
        BY <2>1, <2>2 DEF WalkInv, WalkOK
    <2>3. CASE ring' # ring
        <3>1. pc[d] # "walk"
            BY <1>2, <2>3, CallerAt, BalancerAssumption
            DEF RebuildRing, SnapshotAlive, SwapRing, ChangeRouting, balancer
        <3> QED
            BY <2>1, <3>1 DEF WalkInv
    <2> QED
        BY <2>2, <2>3
<1>3. CASE UNCHANGED vars
    BY <1>3 DEF vars, callers, balancer, WalkInv, WalkOK
<1> QED
    BY <1>1, <1>2, <1>3 DEF Next, Steps, WalkInv

LEMMA WalkInit == Init => WalkInv
BY DEF Init, WalkInv

LEMMA Walks == Spec => [](TypeInv /\ WalkInv)
<1>1. Spec => []TypeInv
    BY Typed
<1>2. Spec => Init /\ [][Next]_vars
    BY DEF Spec
<1> QED
    BY <1>1, <1>2, WalkInit, WalkStep, PTL

\* The walk visits the points in clockwise order, without a gap.
THEOREM WalkIsClockwiseHolds == Spec => []WalkIsClockwise
<1>1. WalkInv => WalkIsClockwise
    BY DEF WalkInv, WalkOK, WalkIsClockwise
<1> QED
    BY <1>1, Walks, PTL

\* A walk that is given up has been at every point of the ring.
THEOREM FullLoopHolds == Spec => FullLoop
<1> DEFINE Given(c) == pc[c] = "walk" /\ pc'[c] = "tier2" =>
                          local[c].passed \cup {local[c].it} = DOMAIN ring
<1>1. TypeInv /\ WalkInv /\ [Next]_vars => [\A c \in Callers : Given(c)]_vars
    <2> SUFFICES ASSUME TypeInv, WalkInv, Next, NEW c \in Callers,
                        pc[c] = "walk", pc'[c] = "tier2"
                 PROVE  local[c].passed \cup {local[c].it} = DOMAIN ring
        OBVIOUS
    <2> DEFINE l == local[c]
               n == NextPoint(l.it)
    <2>1. pc \in [Callers -> Places]
        BY CallerAt
    <2>2. PassCandidate(c) /\ LapEnds(c)
        <3>1. \A d \in Callers : Infer(d) => d = c
            BY OthersStay
        <3>2. Infer(c)
            <4>1. \A b \in Rebuilders :
                     RebuildRing(b) \/ (\E r \in Replicas : ChangeRouting(b, r)) => pc' = pc
                BY DEF RebuildRing, SnapshotAlive, SwapRing, ChangeRouting, callers
            <4> QED
                BY <3>1, <4>1 DEF Next, Steps
        <3>3. PassCandidate(c)
            BY <2>1, <3>2
            DEF Infer, Call, SelectReplica, TakeRing, TakeCandidate, BeginCopy,
                CopyOne, Score, IncrementActive, Refused, DecrementActive, NoSelection
        <3> QED
            BY <2>1, <3>3 DEF PassCandidate
    <2>3. /\ Around(DOMAIN ring, l.h, l.start, l.it, n)
          /\ IsLast(l.it) => n <= l.it
          /\ l.it \in Nat /\ l.start \in Nat /\ n \in Nat
        BY WalkAround
    <2>4. WalkOK(l)
        BY DEF WalkInv
    <2>5. n >= l.start /\ (l.it < l.start \/ n <= l.it)
        BY <2>2, <2>3, <2>4 DEF LapEnds, WalkOK
    <2> HIDE DEF n
    <2>6. \A p \in DOMAIN ring : Distance(l.h, p) < Distance(l.h, l.it) \/ p = l.it
        BY <2>3, <2>5, LapIsFull
    <2> QED
        BY <2>4, <2>6 DEF WalkOK
<1> QED
    BY <1>1, Walks, PTL DEF Spec, FullLoop

\* Each step of a walk leaves a new point behind, and the ring under it stays.
THEOREM WalkShrinksHolds == Spec => WalkShrinks
<1> DEFINE New(c) == \E p \in DOMAIN ring \ local[c].passed :
                         local'[c].passed = local[c].passed \cup {p}
<1>1. TypeInv /\ WalkInv /\ [Next]_vars =>
        [\A c \in Callers :
            pc[c] = "walk" /\ pc'[c] = "walk" =>
                /\ ring' = ring
                /\ \/ local'[c] = local[c]
                   \/ \E p \in DOMAIN ring \ local[c].passed :
                        local'[c].passed = local[c].passed \cup {p}]_vars
    <2> SUFFICES ASSUME TypeInv, WalkInv, Next, NEW c \in Callers,
                        pc[c] = "walk", pc'[c] = "walk"
                 PROVE  ring' = ring /\ (local'[c] = local[c] \/ New(c))
        OBVIOUS
    <2> DEFINE l == local[c]
    <2>1. /\ pc \in [Callers -> Places] /\ local \in [Callers -> Locals]
          /\ ring_mutex = c
        BY CallerAt
    <2>2. ASSUME NEW d \in Callers, Infer(d), d # c PROVE local'[c] = local[c]
        BY <2>2, OthersStay
    <2>3. ASSUME Infer(c) PROVE New(c)
        <3>1. PassCandidate(c) /\ ~LapEnds(c)
            BY <2>1, <2>3
            DEF Infer, Call, SelectReplica, TakeRing, TakeCandidate, PassCandidate, BeginCopy,
                CopyOne, Score, IncrementActive, Refused, DecrementActive, NoSelection
        <3>2. local'[c].passed = l.passed \cup {l.it}
            BY <2>1, <3>1 DEF PassCandidate, Locals
        <3>3. l.it \in DOMAIN ring /\ WalkOK(l) /\ l.h \in Positions /\ l.it \in Positions
            BY CallerAt DEF WalkInv, Locals
        <3>4. ~(Distance(l.h, l.it) < Distance(l.h, l.it))
            BY <3>3, BalancerAssumption DEF Distance, Positions
        <3> QED
            BY <3>2, <3>3, <3>4 DEF WalkOK
    <2>4. ASSUME NEW d \in Callers, Infer(d) PROVE ring' = ring
        BY <2>4
        DEF Infer, Call, SelectReplica, TakeRing, TakeCandidate, PassCandidate, BeginCopy,
            CopyOne, Score, IncrementActive, Refused, DecrementActive, NoSelection, balancer
    <2>5. ASSUME NEW b \in Rebuilders,
                 RebuildRing(b) \/ \E r \in Replicas : ChangeRouting(b, r)
          PROVE  ring' = ring /\ local' = local
        BY <2>1, <2>5, BalancerAssumption
        DEF RebuildRing, SnapshotAlive, SwapRing, ChangeRouting, callers, balancer
    <2> QED
        BY <2>2, <2>3, <2>4, <2>5 DEF Next, Steps
<1> QED
    BY <1>1, Walks, PTL DEF Spec, WalkShrinks

-----------------------------------------------------------------------------
(* What a rebuild moves                                                    *)

\* A point of the ring is one of its replica's, and a replica on the ring has all
\* of its points there.
RingOK(f) ==
    /\ \A p \in DOMAIN f : p \in Points(f[p])
    /\ \A r \in Range(f) : Points(r) \subseteq DOMAIN f

RingInv == CollisionFree => RingOK(ring)

LEMMA RebuiltRing ==
    ASSUME NEW S, NEW f \in RingsOf(S)
    PROVE  RingOK(f)
<1>1. /\ f \in [UNION {Points(r) : r \in S} -> S]
      /\ \A p \in DOMAIN f : p \in Points(f[p])
    BY DEF RingsOf
<1>2. Range(f) \subseteq S
    BY <1>1 DEF Range
<1> QED
    BY <1>1, <1>2 DEF RingOK

\* RingOK speaks of the hash function, which no step changes.
LEMMA HashStays == [Next]_vars => Hash' = Hash
<1>1. \A c \in Callers : Infer(c) => Hash' = Hash
    BY DEF Infer, Call, SelectReplica, TakeRing, TakeCandidate, PassCandidate,
       BeginCopy,
           CopyOne, Score, IncrementActive, Refused, DecrementActive, NoSelection
<1>2. \A b \in Rebuilders :
         RebuildRing(b) \/ (\E r \in Replicas : ChangeRouting(b, r)) => Hash' = Hash
    BY DEF RebuildRing, SnapshotAlive, SwapRing, ChangeRouting
<1> QED
    BY <1>1, <1>2 DEF Next, Steps, vars

\* Only SwapRing changes the ring.
LEMMA RingSteps == [Next]_vars => ring' = ring \/ \E S : ring' \in RingsOf(S)
<1>1. \A c \in Callers : Infer(c) => ring' = ring
    BY DEF Infer, Call, SelectReplica, TakeRing, TakeCandidate, PassCandidate,
       BeginCopy,
           CopyOne, Score, IncrementActive, Refused, DecrementActive, NoSelection, balancer
<1>2. \A b \in Rebuilders :
         RebuildRing(b) \/ (\E r \in Replicas : ChangeRouting(b, r)) =>
            ring' = ring \/ ring' \in RingsOf(snapshot[b])
    BY DEF RebuildRing, SnapshotAlive, SwapRing, ChangeRouting, balancer
<1> QED
    BY <1>1, <1>2 DEF Next, Steps, vars, balancer

LEMMA RingStep == RingInv /\ [Next]_vars => RingInv'
<1> SUFFICES ASSUME RingInv, [Next]_vars, CollisionFree'
             PROVE  RingOK(ring)'
    BY DEF RingInv
<1>1. Hash' = Hash
    BY HashStays
<1>2. CollisionFree
    BY <1>1 DEF CollisionFree
<1>3. RingOK(ring)
    BY <1>2 DEF RingInv
<1>4. RingOK(ring')
    BY <1>3, RingSteps, RebuiltRing
<1> QED
    BY <1>1, <1>4 DEF RingOK, Points

LEMMA RingInit == Init => RingInv
BY DEF Init, EmptyRing, RingInv, RingOK, Range

\* The point that Owner chooses exists and is the nearest one.
LEMMA OwnerIsNearest ==
    ASSUME NEW f, DOMAIN f \subseteq Positions, DOMAIN f # {}, NEW h \in Positions
    PROVE  \E p \in DOMAIN f : Nearest(h, p, DOMAIN f) /\ Owner(f, h) = f[p]
<1> DEFINE distances == {Distance(h, p) : p \in DOMAIN f}
<1>1. distances \subseteq Nat /\ distances # {}
    <2>1. \A p \in Positions : Distance(h, p) \in Nat
        BY BalancerAssumption DEF Distance, Positions
    <2> QED
        BY <2>1
<1>2. \E d \in distances : \A e \in distances : d <= e
    <2> HIDE DEF distances
    <2> QED
        BY <1>1, Least
<1>3. \E p \in DOMAIN f : \A q \in DOMAIN f : Distance(h, p) <= Distance(h, q)
    BY <1>2
<1> DEFINE n == CHOOSE p \in DOMAIN f : \A q \in DOMAIN f : Distance(h, p) <= Distance(h, q)
<1>4. n \in DOMAIN f /\ \A q \in DOMAIN f : Distance(h, n) <= Distance(h, q)
    BY <1>3
<1> QED
    BY <1>4 DEF Owner, Nearest

\* No two points are equally far away.
LEMMA DistancesDiffer ==
    ASSUME NEW h \in Positions, NEW p \in Positions, NEW q \in Positions,
           Distance(h, p) <= Distance(h, q), Distance(h, q) <= Distance(h, p)
    PROVE  p = q
BY BalancerAssumption DEF Distance, Positions

\* Two rings that both have the points of two replicas send a prompt that one of
\* them sends to the first, and the other to the second, to the same.
LEMMA SameOwner ==
    ASSUME CollisionFree, NEW f, NEW g, RingOK(f), RingOK(g),
           DOMAIN f \subseteq Positions, DOMAIN f # {}, f \in [DOMAIN f -> Replicas],
           DOMAIN g \subseteq Positions, DOMAIN g # {}, g \in [DOMAIN g -> Replicas],
           NEW h \in Positions, Owner(f, h) \in Range(g), Owner(g, h) \in Range(f)
    PROVE  Owner(f, h) = Owner(g, h)
<1>1. PICK p \in DOMAIN f : Nearest(h, p, DOMAIN f) /\ Owner(f, h) = f[p]
    BY OwnerIsNearest
<1>2. PICK q \in DOMAIN g : Nearest(h, q, DOMAIN g) /\ Owner(g, h) = g[q]
    BY OwnerIsNearest
<1>3. p \in Points(f[p]) /\ q \in Points(g[q])
    BY DEF RingOK
<1>4. p \in DOMAIN g /\ q \in DOMAIN f
    BY <1>1, <1>2, <1>3 DEF RingOK
<1>5. p = q
    BY <1>1, <1>2, <1>4, DistancesDiffer DEF Nearest
<1>6. PICK i, j \in 0 .. virtual_nodes - 1 : p = Hash[<<f[p], i>>] /\ p = Hash[<<g[p], j>>]
    BY <1>3, <1>5 DEF Points
<1>7. <<f[p], i>> \in Keys /\ <<g[p], j>> \in Keys
    BY <1>4 DEF Keys
<1>8. <<f[p], i>> = <<g[p], j>>
    BY <1>6, <1>7 DEF CollisionFree
<1> QED
    BY <1>1, <1>2, <1>5, <1>8

\* A rebuild moves a prompt only away from a replica that has left or to one that
\* has joined.
THEOREM MovesOnlyHolds == Spec => MovesOnlyWithMembership
<1> DEFINE Moves ==
        ring' # ring /\ DOMAIN ring # {} /\ DOMAIN ring' # {} /\ CollisionFree =>
            \A h \in Positions :
                \/ Owner(ring', h) = Owner(ring, h)
                \/ Owner(ring, h) \notin Range(ring')
                \/ Owner(ring', h) \notin Range(ring)
<1>1. TypeInv /\ TypeInv' /\ RingInv /\ [Next]_vars => Moves
    <2> SUFFICES ASSUME TypeInv, TypeInv', RingInv, [Next]_vars, CollisionFree, ring' # ring,
                        DOMAIN ring # {}, DOMAIN ring' # {}, NEW h \in Positions,
                        Owner(ring, h) \in Range(ring'), Owner(ring', h) \in Range(ring)
                 PROVE  Owner(ring', h) = Owner(ring, h)
        OBVIOUS
    <2>1. RingOK(ring) /\ RingOK(ring')
        BY RingSteps, RebuiltRing DEF RingInv
    <2>2. /\ DOMAIN ring \subseteq Positions /\ ring \in [DOMAIN ring -> Replicas]
          /\ DOMAIN ring' \subseteq Positions /\ ring' \in [DOMAIN ring' -> Replicas]
        BY DEF TypeInv, TypeOK
    <2> QED
        BY <2>1, <2>2, SameOwner
<1> HIDE DEF Moves
<1>2. Spec => [](TypeInv /\ RingInv)
    <2>1. Spec => []TypeInv
        BY Typed
    <2>2. Spec => Init /\ [][Next]_vars
        BY DEF Spec
    <2> QED
        BY <2>1, <2>2, RingInit, RingStep, PTL
<1>3. Spec => [][Moves]_vars
    BY <1>1, <1>2, PTL DEF Spec
<1> QED
    BY <1>3 DEF MovesOnlyWithMembership, Moves
=============================================================================
