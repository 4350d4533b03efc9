---------------------------- MODULE LoadBalancer -----------------------------
(***************************************************************************)
(* LoadBalancer (gateway/load_balancer.cpp) over the ReplicaRegistry       *)
(* (gateway/replica_registry.cpp): request threads select a replica and    *)
(* count themselves on it, while gossip threads and the rolling updater    *)
(* change what is routable and rebuild the ring.                           *)
(*                                                                         *)
(* The first tier walks the ring under ring_mutex_, but reads each         *)
(* candidate from the registry at its own moment; the second tier copies   *)
(* the routable replicas under the registry's shared lock, which keeps     *)
(* writers of the map out and not the counters.  RebuildRing takes its     *)
(* snapshot before ring_mutex_.  So each decision is made on data that may *)
(* be older than the next, and the caller counts itself later still.       *)
(***************************************************************************)
EXTENDS Integers, FiniteSetsExt

CONSTANTS Replicas,       \* replica ids
          Callers,        \* request threads
          Rebuilders,     \* gossip threads and the rolling updater
          max_capacity,   \* max_capacity[r]: slots of replica r, 0 = no limit
          virtual_nodes,  \* points of a replica on the ring
          hash_range,     \* hashes are 0 .. hash_range - 1 (size_t)
          HashFunctions,  \* bound: the values Hash(id + "#" + i) may take
          Prompts,        \* bound: the hashes of the prompts asked for
          Exclusions,     \* bound: the sets a caller may exclude
          Volatile        \* bound: the replicas that join, leave and drain

Positions == 0 .. hash_range - 1
Keys == Replicas \X (0 .. virtual_nodes - 1)
NoOne == "none"

ASSUME BalancerAssumption ==
    /\ IsFiniteSet(Callers)
    /\ NoOne \notin Callers
    /\ max_capacity \in [Replicas -> Nat]
    /\ virtual_nodes \in Nat \ {0}
    /\ hash_range \in Nat \ {0}
    /\ HashFunctions \subseteq [Keys -> Positions]
    /\ Prompts \subseteq Positions
    /\ Exclusions \subseteq SUBSET Replicas
    /\ Volatile \subseteq Replicas

VARIABLES
    Hash,         \* the hash function
    ring,         \* ring_: hash -> replica_id
    ring_mutex,   \* the caller that holds ring_mutex_ over several steps
    alive,        \* registry: GetAliveReplicas(), neither DEAD nor draining
    active,       \* registry: active_requests
    pc, local,    \* callers: place in SelectReplica and Infer, local variables
    bpc, snapshot,\* rebuilders: place, and the replicas RebuildRing has copied
    open          \* history: open[c], the replicas c could have had at every
                  \* moment since it called

registry == <<alive, active>>
balancer == <<ring, ring_mutex>>
callers == <<pc, local>>
rebuilders == <<bpc, snapshot>>
vars == <<Hash, balancer, registry, callers, rebuilders, open>>

\* h is the prompt's hash; it and start the ring positions of the walk; todo the
\* replicas still to be copied and copies the counters copied so far.  Histories:
\* passed, the positions the walk has left behind; overtaken, the replicas on
\* which another caller counted itself after this one had read their counter.
NotCopied == -1
NoCopies == [r \in Replicas |-> NotCopied]

Fresh == [h |-> 0, excluded |-> {}, it |-> 0, start |-> 0, wrapped |-> FALSE,
          passed |-> {}, todo |-> {}, copies |-> NoCopies,
          selection |-> NoOne, overtaken |-> {}]

EmptyRing == [p \in {} |-> NoOne]

Init ==
    /\ Hash \in HashFunctions
    /\ ring = EmptyRing
    /\ ring_mutex = NoOne
    /\ alive \in {Replicas, Replicas \ Volatile}
    /\ active = [r \in Replicas |-> 0]
    /\ pc = [c \in Callers |-> "idle"]
    /\ local = [c \in Callers |-> Fresh]
    /\ bpc = [b \in Rebuilders |-> "idle"]
    /\ snapshot = [b \in Rebuilders |-> {}]
    /\ open = [c \in Callers |-> {}]

-----------------------------------------------------------------------------
(* The registry                                                            *)

\* Mutant of HasSlot: one too many.
HasSlotOrFull(r, count) == max_capacity[r] = 0 \/ count <= max_capacity[r]

HasSlot(r, count) == max_capacity[r] = 0 \/ count < max_capacity[r]

\* What GetReplica and the tests after it find of r now.
Eligible(c, r) ==
    /\ r \in alive \ local[c].excluded
    /\ HasSlot(r, active[r])

\* The registry's shared lock is held by the callers that are copying it.
WriterMayLock == \A c \in Callers : pc[c] # "copy"

-----------------------------------------------------------------------------
(* RebuildRing                                                             *)

Points(r) == {Hash[<<r, i>>] : i \in 0 .. virtual_nodes - 1}

\* Mutant of RingsOf: the points are numbered through instead of hashed.
RingsByNumber(replicas) ==
    {f \in [0 .. Cardinality(replicas) - 1 -> replicas] :
        \A p, q \in DOMAIN f : p # q => f[p] # f[q]}

\* ring_[h] = id for every point of every replica, in the snapshot's order: where
\* points of two replicas collide, either may have been written last.
RingsOf(replicas) ==
    {f \in [UNION {Points(r) : r \in replicas} -> replicas] :
        \A p \in DOMAIN f : p \in Points(f[p])}

\* UpdateFromGossip or SetDraining by a thread that will rebuild the ring.
ChangeRouting(b, r) ==
    /\ bpc[b] = "idle"
    /\ r \in Volatile
    /\ WriterMayLock
    /\ alive' = IF r \in alive THEN alive \ {r} ELSE alive \cup {r}
    /\ bpc' = [bpc EXCEPT ![b] = "changed"]
    /\ UNCHANGED <<Hash, balancer, active, callers, snapshot>>

\* GetAliveReplicas, also when nothing has changed (start-up).
SnapshotAlive(b) ==
    /\ bpc[b] \in {"idle", "changed"}
    /\ snapshot' = [snapshot EXCEPT ![b] = alive]
    /\ bpc' = [bpc EXCEPT ![b] = "snapshot"]
    /\ UNCHANGED <<Hash, balancer, registry, callers>>

SwapRing(b) ==
    /\ bpc[b] = "snapshot"
    /\ ring_mutex = NoOne
    /\ ring' \in RingsOf(snapshot[b])
    /\ bpc' = [bpc EXCEPT ![b] = "idle"]
    /\ snapshot' = [snapshot EXCEPT ![b] = {}]
    /\ UNCHANGED <<Hash, ring_mutex, registry, callers>>

-----------------------------------------------------------------------------
(* SelectReplica, first tier                                               *)

Call(c) ==
    /\ pc[c] = "idle"
    /\ \E h \in Prompts, x \in Exclusions :
            local' = [local EXCEPT ![c] = [Fresh EXCEPT !.h = h, !.excluded = x]]
    /\ pc' = [pc EXCEPT ![c] = "tier1"]
    /\ UNCHANGED <<Hash, balancer, registry, rebuilders>>

\* Mutant of LowerBound: upper_bound.
UpperBound(h) ==
    LET after == {p \in DOMAIN ring : p > h}
    IN  IF after = {} THEN Min(DOMAIN ring) ELSE Min(after)

\* lower_bound(h), and begin() when that is the end.
LowerBound(h) ==
    LET after == {p \in DOMAIN ring : p >= h}
    IN  IF after = {} THEN Min(DOMAIN ring) ELSE Min(after)

\* ++it, and begin() when that is the end.
IsLast(p) == \A q \in DOMAIN ring : q <= p
NextPoint(p) == IF IsLast(p) THEN Min(DOMAIN ring) ELSE Min({q \in DOMAIN ring : q > p})

TakeRing(c) ==
    /\ pc[c] = "tier1"
    /\ ring_mutex = NoOne
    /\ \/ /\ DOMAIN ring = {}
          /\ pc' = [pc EXCEPT ![c] = "tier2"]
          /\ local' = [local EXCEPT ![c].h = 0]
          /\ UNCHANGED ring_mutex
       \/ /\ DOMAIN ring # {}
          /\ local' = [local EXCEPT ![c].it = LowerBound(local[c].h),
                                    ![c].start = LowerBound(local[c].h)]
          /\ ring_mutex' = c
          /\ pc' = [pc EXCEPT ![c] = "walk"]
    /\ UNCHANGED <<Hash, ring, registry, rebuilders>>

\* The candidate at it is fit: the walk ends with it.
TakeCandidate(c) ==
    /\ pc[c] = "walk"
    /\ Eligible(c, ring[local[c].it])
    /\ local' = [local EXCEPT ![c] = [Fresh EXCEPT !.selection = ring[local[c].it]]]
    /\ ring_mutex' = NoOne
    /\ pc' = [pc EXCEPT ![c] = "selected"]
    /\ UNCHANGED <<Hash, ring, registry, rebuilders>>

\* Mutant of LapEnds: the walk stops where the ring wraps round.
LapEndsAtWrap(c) == local[c].wrapped \/ IsLast(local[c].it)

\* Mutant of LapEnds: a walk that began at the last point goes on for ever.
LapEndsLate(c) ==
    LET l == local[c]
    IN  (l.wrapped \/ IsLast(l.it)) /\ NextPoint(l.it) > l.start

\* wrapped && it->first >= start_hash, after it has moved on.
LapEnds(c) ==
    LET l == local[c]
    IN  (l.wrapped \/ IsLast(l.it)) /\ NextPoint(l.it) >= l.start

PassCandidate(c) ==
    LET l == local[c] IN
    /\ pc[c] = "walk"
    /\ ~Eligible(c, ring[l.it])
    /\ \/ /\ LapEnds(c)
          /\ local' = [local EXCEPT ![c] = [Fresh EXCEPT !.excluded = l.excluded]]
          /\ ring_mutex' = NoOne
          /\ pc' = [pc EXCEPT ![c] = "tier2"]
       \/ /\ ~LapEnds(c)
          /\ local' = [local EXCEPT ![c] = [l EXCEPT !.it = NextPoint(l.it),
                                                     !.wrapped = @ \/ IsLast(l.it),
                                                     !.passed = @ \cup {l.it}]]
          /\ UNCHANGED <<ring_mutex, pc>>
    /\ UNCHANGED <<Hash, ring, registry, rebuilders>>

-----------------------------------------------------------------------------
(* Second tier                                                             *)

\* GetAliveReplicas takes the shared lock ...
BeginCopy(c) ==
    /\ pc[c] = "tier2"
    /\ local' = [local EXCEPT ![c].todo = alive]
    /\ pc' = [pc EXCEPT ![c] = "copy"]
    /\ UNCHANGED <<Hash, balancer, registry, rebuilders>>

\* ... and copies one ReplicaInfo after the other, its counter with it.
CopyOne(c, r) ==
    /\ pc[c] = "copy"
    /\ r \in local[c].todo
    /\ local' = [local EXCEPT ![c].todo = @ \ {r},
                              ![c].copies[r] = active[r]]
    /\ UNCHANGED <<Hash, pc, balancer, registry, rebuilders>>

Copied(l) == {r \in Replicas : l.copies[r] # NotCopied}

\* Mutant of Candidates: the test max_capacity > 0 is gone.
LimitedCandidates(l) ==
    {r \in Copied(l) \ l.excluded : l.copies[r] < max_capacity[r]}

Candidates(l) == {r \in Copied(l) \ l.excluded : HasSlot(r, l.copies[r])}

\* The scores are read off the copies, each replica's weight being 1.0; ties are
\* broken at random.
Best(l) == {r \in Candidates(l) : \A s \in Candidates(l) : l.copies[r] <= l.copies[s]}

Score(c) ==
    LET l == local[c] IN
    /\ pc[c] = "copy"
    /\ l.todo = {}
    /\ \/ /\ \E r \in Best(l) :
                local' = [local EXCEPT ![c] = [Fresh EXCEPT !.selection = r,
                                                 !.overtaken = l.overtaken \cap {r}]]
          /\ pc' = [pc EXCEPT ![c] = "selected"]
       \/ /\ Candidates(l) = {}
          /\ local' = [local EXCEPT ![c] = [Fresh EXCEPT !.excluded = l.excluded]]
          /\ pc' = [pc EXCEPT ![c] = "none"]
    /\ UNCHANGED <<Hash, balancer, registry, rebuilders>>

-----------------------------------------------------------------------------
(* The caller                                                              *)

\* c has read r's counter and goes by it.
GoesBy(c, r) ==
    \/ pc[c] = "copy" /\ r \in Copied(local[c])
    \/ pc[c] = "selected" /\ local[c].selection = r

Overtake(c, r) ==
    local' = [d \in Callers |->
                IF d # c /\ GoesBy(d, r)
                THEN [local[d] EXCEPT !.overtaken = @ \cup {r}]
                ELSE local[d]]

IncrementActive(c) ==
    LET r == local[c].selection IN
    /\ pc[c] = "selected"
    /\ active' = [active EXCEPT ![r] = @ + 1]
    /\ Overtake(c, r)
    /\ pc' = [pc EXCEPT ![c] = "counted"]
    /\ UNCHANGED <<Hash, balancer, alive, rebuilders>>

\* Infer's circuit breaker refuses the replica: nothing is counted.
Refused(c) ==
    /\ pc[c] = "selected"
    /\ pc' = [pc EXCEPT ![c] = "idle"]
    /\ local' = [local EXCEPT ![c] = Fresh]
    /\ UNCHANGED <<Hash, balancer, registry, rebuilders>>

DecrementActive(c) ==
    /\ pc[c] = "counted"
    /\ active' = [active EXCEPT ![local[c].selection] = @ - 1]
    /\ pc' = [pc EXCEPT ![c] = "idle"]
    /\ local' = [local EXCEPT ![c] = Fresh]
    /\ UNCHANGED <<Hash, balancer, alive, rebuilders>>

\* SelectReplica returned nullopt; Infer goes to the queue.
NoSelection(c) ==
    /\ pc[c] = "none"
    /\ pc' = [pc EXCEPT ![c] = "idle"]
    /\ local' = [local EXCEPT ![c] = Fresh]
    /\ UNCHANGED <<Hash, balancer, registry, rebuilders>>

-----------------------------------------------------------------------------
SelectReplica(c) ==
    \/ TakeRing(c) \/ TakeCandidate(c) \/ PassCandidate(c)
    \/ BeginCopy(c) \/ (\E r \in Replicas : CopyOne(c, r)) \/ Score(c)

Infer(c) ==
    \/ Call(c) \/ SelectReplica(c) \/ IncrementActive(c) \/ Refused(c)
    \/ DecrementActive(c) \/ NoSelection(c)

RebuildRing(b) == SnapshotAlive(b) \/ SwapRing(b)

Steps ==
    \/ \E c \in Callers : Infer(c)
    \/ \E b \in Rebuilders : RebuildRing(b) \/ \E r \in Replicas : ChangeRouting(b, r)

\* The history of the replicas that c could have had all along.
Selecting == {"tier1", "walk", "tier2", "copy", "none"}

OpenTo(c) ==
    IF pc[c] \in Selecting THEN {r \in Replicas : Eligible(c, r)} ELSE {}

Observe ==
    open' = [c \in Callers |->
                IF pc[c] = "idle" THEN OpenTo(c)' ELSE open[c] \cap OpenTo(c)']

Next == Steps /\ Observe

\* A thread in the middle of its walk runs on: it needs no other lock that is
\* held for longer than one step.
Fairness ==
    \A c \in Callers : WF_vars((TakeCandidate(c) \/ PassCandidate(c)) /\ Observe)

Spec == Init /\ [][Next]_vars /\ Fairness

-----------------------------------------------------------------------------
(* Properties                                                              *)

Places == Selecting \cup {"idle", "selected", "counted"}

Locals == [h : Positions, excluded : SUBSET Replicas, it : Positions,
           start : Positions, wrapped : BOOLEAN, passed : SUBSET Positions,
           todo : SUBSET Replicas, copies : [Replicas -> Nat \cup {NotCopied}],
           selection : Replicas \cup {NoOne}, overtaken : SUBSET Replicas]

TypeOK ==
    /\ Hash \in HashFunctions
    /\ DOMAIN ring \subseteq Positions
    /\ ring \in [DOMAIN ring -> Replicas]
    /\ ring_mutex \in Callers \cup {NoOne}
    /\ \A c \in Callers : pc[c] = "walk" <=> ring_mutex = c
    /\ alive \subseteq Replicas
    /\ active \in [Replicas -> Nat]
    /\ pc \in [Callers -> Places]
    /\ local \in [Callers -> Locals]
    /\ \A c \in Callers : pc[c] \in {"selected", "counted"} => local[c].selection \in Replicas
    /\ bpc \in [Rebuilders -> {"idle", "changed", "snapshot"}]
    /\ snapshot \in [Rebuilders -> SUBSET Replicas]
    /\ open \in [Callers -> SUBSET Replicas]

\* How far clockwise of h the point p lies.
Distance(h, p) == IF p >= h THEN p - h ELSE p - h + hash_range

\* The walk has looked at exactly the points between the prompt's hash and the
\* one it is at, whatever the hash, the points and the place where it wraps
\* round: the first fit candidate it meets is the nearest one clockwise.
WalkIsClockwise ==
    \A c \in Callers :
        pc[c] = "walk" =>
            /\ local[c].it \in DOMAIN ring
            /\ local[c].passed =
                {p \in DOMAIN ring :
                    Distance(local[c].h, p) < Distance(local[c].h, local[c].it)}

\* The walk is given up for the second tier only after a full loop: no point of
\* the ring has been left out.
FullLoop ==
    [][\A c \in Callers :
        pc[c] = "walk" /\ pc'[c] = "tier2" =>
            local[c].passed \cup {local[c].it} = DOMAIN ring]_vars

\* The walk ends, also when the registry changes under it: a thread that went
\* round for ever would keep ring_mutex_, and every other request and gossip
\* thread with it.
WalkEnds == \A c \in Callers : pc[c] = "walk" ~> pc[c] # "walk"

\* Each step of a walk leaves one more point of the ring behind, a point it has
\* not seen before, whatever the registry answers: ring_mutex_ is held for at most
\* as many steps as the ring has points, and the ring is not swapped under it.
WalkShrinks ==
    [][\A c \in Callers :
        pc[c] = "walk" /\ pc'[c] = "walk" =>
            /\ ring' = ring
            /\ \/ local'[c] = local[c]
               \/ \E p \in DOMAIN ring \ local[c].passed :
                    local'[c].passed = local[c].passed \cup {p}]_vars

\* SelectReplica does not overlook a replica that was routable, with a free slot
\* and not excluded during the whole call, although the ring it walks may be
\* stale (or empty) and the copies it scores were read one after the other.
OpenIsFound == \A c \in Callers : pc[c] = "none" => open[c] = {}

\* active_requests exceeds max_capacity only by callers that were overtaken:
\* between reading the counter and counting itself, each of them let another
\* one count itself on the same replica.
Overbooking(r) ==
    {c \in Callers : pc[c] = "counted" /\ local[c].selection = r
                                       /\ r \in local[c].overtaken}

OverbookedByRace ==
    \A r \in Replicas :
        max_capacity[r] > 0 =>
            active[r] <= max_capacity[r] + Cardinality(Overbooking(r))

\* The replica that the prompt with hash h is sent to when all have capacity.
Owner(points, h) ==
    points[CHOOSE p \in DOMAIN points :
               \A q \in DOMAIN points : Distance(h, p) <= Distance(h, q)]

CollisionFree == \A k, l \in Keys : k # l => Hash[k] # Hash[l]

\* When a rebuilt ring is swapped in, from whatever snapshot, a prompt moves only
\* away from a replica that has left or to one that has joined: the others keep
\* their prompts, and their caches.
MovesOnlyWithMembership ==
    [][ring' # ring /\ DOMAIN ring # {} /\ DOMAIN ring' # {} /\ CollisionFree =>
        \A h \in Positions :
            \/ Owner(ring', h) = Owner(ring, h)
            \/ Owner(ring, h) \notin Range(ring')
            \/ Owner(ring', h) \notin Range(ring)]_vars
=============================================================================
