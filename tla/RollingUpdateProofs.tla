------------------------ MODULE RollingUpdateProofs -------------------------
(***************************************************************************)
(* Theorems about RollingUpdate for every set of replicas, every order of  *)
(* update, and any number of calls and gossip threads.                     *)
(***************************************************************************)
EXTENDS RollingUpdate, FiniteSetTheorems, TLAPS

Generating(r) == {c \in Calls : call[c] = Call("generating", r)}

\* RebuildRing is called from three places of the update, after which it goes on
\* at next.
InRebuild(next) == updater.at \in {"snapshot", "swap"} /\ updater.next = next

\* The updater has found the entry of This, and is not through with it.
MarkedInv ==
    /\ OneDraining
    /\ updater.marked =>
          \/ InRebuild("drain")
          \/ updater.at \in {"drain", "draining", "stop", "restart", "clear"}

\* r has been restarted in this update, and accepts calls.
Renewed(r) ==
    /\ r \in updater.fresh
    /\ r \notin refusing
    /\ process[r] # "stopped"

\* This has been restarted.
Back == updater.at \in {"clear", "rejoin"} \/ InRebuild("rejoin")

\* The replicas before This have been renewed.  This itself may have been, and be
\* updated again: replica_ids may name a replica twice.
ProgressInv ==
    /\ updater.at = "idle" /\ updater.result = "ok" =>
          \A k \in DOMAIN replica_ids : Renewed(replica_ids[k])
    /\ updater.at # "idle" =>
          \/ updater.result = "failed" /\ InRebuild("idle")
          \/ /\ updater.result = "none"
             /\ ~InRebuild("idle")
             /\ \A k \in 1 .. updater.k - 1 : replica_ids[k] = This \/ Renewed(replica_ids[k])
    /\ Back => Renewed(This)
    /\ updater.at = "restart" => This \notin refusing

Inv ==
    /\ RollingTypeOK
    /\ MarkedInv
    /\ CountExact
    /\ ProgressInv

-----------------------------------------------------------------------------
(* Counting                                                                *)

\* The calls on a replica are finitely many.
LEMMA GeneratingFinite ==
    ASSUME NEW r
    PROVE  IsFiniteSet(Generating(r)) /\ Cardinality(Generating(r)) \in Nat
<1>1. Generating(r) \subseteq Calls
    BY DEF Generating
<1>2. IsFiniteSet(Generating(r))
    BY <1>1, UpdateAssumption, FS_Subset DEF UpdateAssumption
<1> QED
    BY <1>2, FS_CardinalityType

\* Steps that neither start nor end a stream.
LEMMA CountKept ==
    ASSUME Inv, active' = active,
           \A c \in Calls, r \in Replicas :
               call'[c] = Call("generating", r) <=> call[c] = Call("generating", r)
    PROVE  CountExact'
<1>1. \A r \in Replicas : Generating(r)' = Generating(r)
    BY DEF Generating
<1> QED
    BY <1>1 DEF Inv, CountExact, Generating

\* A handler counts its call.
LEMMA CountUp ==
    ASSUME Inv, NEW c \in Calls, Count(c)
    PROVE  CountExact' /\ active' \in [Replicas -> Nat]
<1> DEFINE s == call[c].id
<1>1. /\ s \in Replicas
      /\ call[c].at = "accepted"
      /\ active \in [Replicas -> Nat]
      /\ call \in [Calls -> [at : CallPlaces, id : Replicas \cup {None}]]
    BY DEF Inv, RollingTypeOK, Count
<1>2. /\ active' = [active EXCEPT ![s] = @ + 1]
      /\ call' = [call EXCEPT ![c].at = "generating"]
    BY DEF Count, GoCall
<1>3. /\ call'[c] = Call("generating", s)
      /\ \A u \in Calls \ {c} : call'[u] = call[u]
      /\ \A r : call[c] # Call("generating", r)
    BY <1>1, <1>2 DEF Call
<1>4. ASSUME NEW r \in Replicas PROVE active'[r] = Cardinality(Generating(r)')
    <2>1. active[r] = Cardinality(Generating(r))
        BY DEF Inv, CountExact, Generating
    <2>2. CASE r = s
        <3>1. c \notin Generating(r) /\ Generating(r)' = Generating(r) \cup {c}
            BY <1>3, <2>2 DEF Generating
        <3>2. Cardinality(Generating(r) \cup {c}) = Cardinality(Generating(r)) + 1
            BY <3>1, GeneratingFinite, FS_AddElement
        <3> QED
            BY <1>1, <1>2, <2>1, <2>2, <3>1, <3>2
    <2>3. CASE r # s
        <3>1. Generating(r)' = Generating(r)
            BY <1>3, <2>3 DEF Generating, Call
        <3> QED
            BY <1>1, <1>2, <2>1, <2>3, <3>1
    <2> QED
        BY <2>2, <2>3
<1> QED
    BY <1>1, <1>2, <1>4 DEF CountExact, Generating

\* A stream ends, and gives its count back.
LEMMA CountDown ==
    ASSUME Inv, NEW c \in Calls, EndGenerate(c)
    PROVE  CountExact' /\ active' \in [Replicas -> Nat]
<1> DEFINE s == call[c].id
<1>1. /\ s \in Replicas
      /\ call[c].at = "generating"
      /\ active \in [Replicas -> Nat]
      /\ call \in [Calls -> [at : CallPlaces, id : Replicas \cup {None}]]
    BY DEF Inv, RollingTypeOK, EndGenerate
<1>2. /\ active' = [active EXCEPT ![s] = @ - 1]
      /\ \E p \in {"done", "failed"} : call' = [call EXCEPT ![c].at = p]
    BY DEF EndGenerate, GoCall
<1>3. /\ call[c] = Call("generating", s)
      /\ \A u \in Calls \ {c} : call'[u] = call[u]
      /\ \A r : call'[c] # Call("generating", r)
    BY <1>1, <1>2 DEF Call
<1>4. ASSUME NEW r \in Replicas
      PROVE  active'[r] = Cardinality(Generating(r)') /\ active'[r] \in Nat
    <2>1. active[r] = Cardinality(Generating(r))
        BY DEF Inv, CountExact, Generating
    <2>2. CASE r = s
        <3>1. c \in Generating(r) /\ Generating(r)' = Generating(r) \ {c}
            BY <1>3, <2>2 DEF Generating
        <3>2. Cardinality(Generating(r) \ {c}) = Cardinality(Generating(r)) - 1
            BY <3>1, GeneratingFinite, FS_RemoveElement
        <3>3. Cardinality(Generating(r)') \in Nat
            BY <3>1, GeneratingFinite, FS_RemoveElement, FS_CardinalityType
        <3> QED
            BY <1>1, <1>2, <2>1, <2>2, <3>1, <3>2, <3>3
    <2>3. CASE r # s
        <3>1. Generating(r)' = Generating(r)
            BY <1>3, <2>3 DEF Generating, Call
        <3> QED
            BY <1>1, <1>2, <2>1, <2>3, <3>1
    <2> QED
        BY <2>2, <2>3
<1>5. active' \in [Replicas -> Nat]
    BY <1>1, <1>2, <1>4
<1> QED
    BY <1>4, <1>5 DEF CountExact, Generating

\* The end of a process ends its streams.
LEMMA CountEnds ==
    ASSUME Inv, NEW s \in Replicas, NEW how \in {"stopped", "crashed"}, Ends(s, how)
    PROVE  /\ CountExact' /\ active' \in [Replicas -> Nat]
           /\ call' \in [Calls -> [at : CallPlaces, id : Replicas \cup {None}]]
           /\ \A c \in Calls : call'[c].at # "idle" => call'[c].id \in Replicas
           /\ process' \in [Replicas -> {"running", "stopped", "crashed"}]
           /\ refusing' \subseteq Replicas
<1>1. /\ active \in [Replicas -> Nat]
      /\ call \in [Calls -> [at : CallPlaces, id : Replicas \cup {None}]]
      /\ \A c \in Calls : call[c].at # "idle" => call[c].id \in Replicas
      /\ process \in [Replicas -> {"running", "stopped", "crashed"}]
      /\ refusing \subseteq Replicas
    BY DEF Inv, RollingTypeOK
<1>2. /\ active' = [active EXCEPT ![s] = 0]
      /\ call' = [c \in Calls |-> IF c \in InGenerate(s) THEN Call("failed", s) ELSE call[c]]
      /\ process' = [process EXCEPT ![s] = how]
      /\ refusing' = refusing \ {s}
    BY DEF Ends
<1>3. ASSUME NEW r \in Replicas PROVE active'[r] = Cardinality(Generating(r)')
    <2>1. active[r] = Cardinality(Generating(r))
        BY DEF Inv, CountExact, Generating
    <2>2. CASE r = s
        <3>1. Generating(r)' = {}
            BY <1>2, <2>2 DEF Generating, InGenerate, Call
        <3> QED
            BY <1>1, <1>2, <2>2, <3>1, FS_EmptySet
    <2>3. CASE r # s
        <3>1. Generating(r)' = Generating(r)
            BY <1>2, <2>3 DEF Generating, InGenerate, Call
        <3> QED
            BY <1>1, <1>2, <2>1, <2>3, <3>1
    <2> QED
        BY <2>2, <2>3
<1>4. Call("failed", s) \in [at : CallPlaces, id : Replicas \cup {None}]
    BY DEF Call, CallPlaces
<1>5. /\ call' \in [Calls -> [at : CallPlaces, id : Replicas \cup {None}]]
      /\ \A c \in Calls : call'[c].at # "idle" => call'[c].id \in Replicas
    BY <1>1, <1>2, <1>4 DEF Call
<1> QED
    BY <1>1, <1>2, <1>3, <1>5 DEF CountExact, Generating
-----------------------------------------------------------------------------
(* The initial state                                                       *)

LEMMA InitInv == Init => Inv
<1> SUFFICES ASSUME Init PROVE Inv
    OBVIOUS
<1> USE UpdateAssumption DEF UpdateAssumption
<1>1. 1 \in DOMAIN replica_ids
    OBVIOUS
<1>2. RollingTypeOK
    BY <1>1 DEF Init, RollingTypeOK, Idle, UpdaterAt, Call, MemberState, GossipPlaces,
                UpdaterPlaces, CallPlaces
<1>3. MarkedInv
    BY DEF Init, MarkedInv, OneDraining, UpdaterAt
<1>4. CountExact
    <2>1. \A r : {c \in Calls : call[c] = Call("generating", r)} = {}
        BY DEF Init, Call
    <2> QED
        BY <2>1, FS_EmptySet DEF Init, CountExact
<1>5. ProgressInv
    BY DEF Init, ProgressInv, UpdaterAt, Back, InRebuild
<1> QED
    BY <1>2, <1>3, <1>4, <1>5 DEF Inv

-----------------------------------------------------------------------------
(* Gossip and calls                                                        *)

\* The gossip threads touch neither the update, the flags, the processes nor
\* the calls.
LEMMA GossipStepInv ==
    ASSUME Inv, NEW t \in GossipThreads, GossipStep(t)
    PROVE  Inv'
<1> USE DEF Inv
<1>1. UNCHANGED <<draining, updater, replica, call>>
    BY DEF GossipStep, Learn, GetMember, UpdateFromGossip, TakeSnapshot, SwapRing, registry
<1>2. RollingTypeOK'
    <2> DEFINE g == gossip[t]
               Entry == [at : GossipPlaces, id : Replicas \cup {None},
                         state : MemberState \cup {"NONE"}, changed : BOOLEAN,
                         snapshot : SUBSET Replicas]
               Becomes(e) == /\ gossip' = [gossip EXCEPT ![t] = e]
                             /\ e \in Entry
                             /\ e.at # "idle" => e.id \in Replicas
    <2>1. RollingTypeOK /\ g \in Entry /\ (g.at # "idle" => g.id \in Replicas)
        BY DEF RollingTypeOK
    <2>2. Idle \in Entry /\ Idle.at = "idle"
        BY DEF Idle, GossipPlaces
    <2>3. ASSUME NEW e, Becomes(e)
          PROVE  /\ gossip' \in [GossipThreads -> Entry]
                 /\ \A u \in GossipThreads : gossip'[u].at # "idle" => gossip'[u].id \in Replicas
        BY <2>1, <2>3 DEF RollingTypeOK
    <2>4. /\ \E e : Becomes(e)
          /\ gossip_state' \in [Replicas -> MemberState \cup {"NONE"}]
          /\ ring' \subseteq Replicas
          /\ member' \in [Replicas -> MemberState \cup {"NONE"}]
        <3> USE DEF RollingTypeOK
        <3>1. ASSUME NEW r \in Replicas, Learn(t, r) PROVE <2>4
            <4>1. PICK s \in MemberState :
                      /\ member' = [member EXCEPT ![r] = s]
                      /\ gossip' = [gossip EXCEPT ![t] =
                             [Idle EXCEPT !.at = "read", !.id = r, !.changed = s # Before(r)]]
                BY <3>1 DEF Learn
            <4>2. \A b \in BOOLEAN :
                      LET e == [Idle EXCEPT !.at = "read", !.id = r, !.changed = b]
                      IN  e \in Entry /\ e.id \in Replicas
                BY DEF Idle, GossipPlaces
            <4>3. Becomes([Idle EXCEPT !.at = "read", !.id = r, !.changed = s # Before(r)])
                BY <4>1, <4>2
            <4> QED
                BY <2>1, <3>1, <4>1, <4>3 DEF Learn, registry
        <3>2. ASSUME GetMember(t) PROVE <2>4
            <4>1. Becomes([g EXCEPT !.at = "report", !.state = member[g.id]])
                BY <2>1, <3>2 DEF GetMember, GossipPlaces
            <4> QED
                BY <2>1, <3>2, <4>1 DEF GetMember, registry
        <3>3. ASSUME UpdateFromGossip(t) PROVE <2>4
            <4>1. gossip_state' \in [Replicas -> MemberState \cup {"NONE"}]
                BY <2>1, <3>3 DEF UpdateFromGossip
            <4>2. CASE g.changed
                <5>1. Becomes([g EXCEPT !.at = "snapshot"])
                    BY <2>1, <3>3, <4>2 DEF UpdateFromGossip, GossipPlaces
                <5> QED
                    BY <2>1, <3>3, <4>1, <5>1 DEF UpdateFromGossip
            <4>3. CASE ~g.changed
                <5>1. Becomes(Idle)
                    BY <2>2, <3>3, <4>3 DEF UpdateFromGossip
                <5> QED
                    BY <2>1, <3>3, <4>1, <5>1 DEF UpdateFromGossip
            <4> QED
                BY <4>2, <4>3
        <3>4. ASSUME TakeSnapshot(t) PROVE <2>4
            <4>1. Becomes([g EXCEPT !.at = "swap", !.snapshot = GetAliveReplicas])
                BY <2>1, <3>4 DEF TakeSnapshot, GetAliveReplicas, GossipPlaces
            <4> QED
                BY <2>1, <3>4, <4>1 DEF TakeSnapshot, registry
        <3>5. ASSUME SwapRing(t) PROVE <2>4
            <4>1. Becomes(Idle) /\ g.snapshot \subseteq Replicas
                BY <2>1, <2>2, <3>5 DEF SwapRing
            <4> QED
                BY <2>1, <3>5, <4>1 DEF SwapRing, registry
        <3> QED
            BY <3>1, <3>2, <3>3, <3>4, <3>5 DEF GossipStep
    <2> QED
        BY <1>1, <2>1, <2>3, <2>4 DEF RollingTypeOK, replica
<1>3. MarkedInv'
    BY <1>1 DEF MarkedInv, OneDraining, This, InRebuild
<1>4. CountExact'
    BY <1>1 DEF CountExact, replica
<1>5. ProgressInv'
    BY <1>1 DEF ProgressInv, Back, InRebuild, Renewed, This, replica
<1> QED
    BY <1>2, <1>3, <1>4, <1>5

\* A call leaves the update alone.
LEMMA CallStepInv ==
    ASSUME Inv, NEW c \in Calls, CallStep(c)
    PROVE  Inv'
<1>1. UNCHANGED <<registry, ring, member, gossip, updater, process, refusing>>
    BY DEF CallStep, Select, Generate, Refused, Count, EndGenerate, Settle, replica
<1>2. RollingTypeOK /\ MarkedInv /\ ProgressInv
    BY DEF Inv
<1>3. /\ RollingTypeOK'
      /\ CountExact'
    <2> USE DEF RollingTypeOK
    <2>1. CASE Select(c)
        <3>1. PICK r \in SelectReplica :
                  call' = [call EXCEPT ![c] = Call("sent", r)] /\ UNCHANGED active
            BY <2>1 DEF Select, replica
        <3>2. r \in Replicas
            BY <1>2 DEF SelectReplica, SelectByConsistentHash, GetAliveReplicas
        <3>3. RollingTypeOK'
            BY <1>1, <1>2, <3>1, <3>2 DEF Call, CallPlaces, registry
        <3>4. CountExact'
            BY <1>2, <2>1, <3>1, CountKept DEF Select, Call
        <3> QED
            BY <3>3, <3>4
    <2>2. CASE Generate(c)
        BY <1>1, <1>2, <2>2, CountKept
           DEF Generate, GoCall, Call, CallPlaces, registry, replica
    <2>3. CASE Refused(c)
        BY <1>1, <1>2, <2>3, CountKept
           DEF Refused, GoCall, Call, CallPlaces, registry, replica
    <2>4. CASE Count(c)
        <3>1. CountExact' /\ active' \in [Replicas -> Nat]
            BY <2>4, CountUp
        <3> QED
            BY <1>1, <1>2, <2>4, <3>1 DEF Count, GoCall, CallPlaces, registry
    <2>5. CASE EndGenerate(c)
        <3>1. CountExact' /\ active' \in [Replicas -> Nat]
            BY <2>5, CountDown
        <3>2. PICK p \in {"done", "failed"} : call' = [call EXCEPT ![c].at = p]
            BY <2>5 DEF EndGenerate, GoCall
        <3> QED
            BY <1>1, <1>2, <2>5, <3>1, <3>2 DEF EndGenerate, CallPlaces, registry
    <2>6. CASE Settle(c)
        BY <1>1, <1>2, <2>6, CountKept DEF Settle, Call, CallPlaces, registry, replica
    <2> QED
        BY <2>1, <2>2, <2>3, <2>4, <2>5, <2>6 DEF CallStep
<1>4. MarkedInv'
    BY <1>1, <1>2 DEF MarkedInv, OneDraining, This, InRebuild, registry
<1>5. ProgressInv'
    BY <1>1, <1>2 DEF ProgressInv, Back, InRebuild, Renewed, This
<1> QED
    BY <1>3, <1>4, <1>5 DEF Inv

\* A crash ends the streams of a replica, and leaves the update alone.
LEMMA CrashInv ==
    ASSUME Inv, NEW r \in Replicas, Crash(r)
    PROVE  Inv'
<1>1. /\ UNCHANGED <<registry, ring, member, gossip, updater>>
      /\ Ends(r, "crashed")
    BY DEF Crash
<1>2. RollingTypeOK /\ MarkedInv /\ ProgressInv
    BY DEF Inv
<1>3. /\ RollingTypeOK'
      /\ CountExact'
    BY <1>1, <1>2, CountEnds DEF RollingTypeOK, registry
<1>4. MarkedInv'
    BY <1>1, <1>2 DEF MarkedInv, OneDraining, This, InRebuild, registry
<1>5. \A s \in Replicas : Renewed(s) => Renewed(s)'
    BY <1>1, <1>2 DEF Renewed, Ends, RollingTypeOK
<1>6. ProgressInv'
    <2>1. This \in Replicas /\ \A k \in DOMAIN replica_ids : replica_ids[k] \in Replicas
        BY <1>2, UpdateAssumption DEF UpdateAssumption, This, RollingTypeOK
    <2>2. refusing' \subseteq refusing /\ This' = This
        BY <1>1 DEF Ends, This
    <2>3. \A k \in 1 .. updater.k - 1 : k \in DOMAIN replica_ids
        BY <1>2, UpdateAssumption DEF UpdateAssumption, RollingTypeOK
    <2> QED
        BY <1>1, <1>2, <1>5, <2>1, <2>2, <2>3 DEF ProgressInv, Back, InRebuild
<1> QED
    BY <1>3, <1>4, <1>6 DEF Inv
-----------------------------------------------------------------------------
(* The update                                                              *)

LEMMA ThisReplica ==
    ASSUME RollingTypeOK
    PROVE  /\ updater.k \in 1 .. Len(replica_ids)
           /\ Len(replica_ids) \in Nat \ {0}
           /\ DOMAIN replica_ids = 1 .. Len(replica_ids)
           /\ \A k \in 1 .. Len(replica_ids) : replica_ids[k] \in Replicas
           /\ This \in Replicas
BY UpdateAssumption DEF UpdateAssumption, RollingTypeOK, This

LEMMA UpdaterTyped ==
    ASSUME Inv, UpdaterStep
    PROVE  RollingTypeOK'
<1> DEFINE Updater == [at : UpdaterPlaces, next : {"drain", "rejoin", "idle"},
                       k : DOMAIN replica_ids, snapshot : SUBSET Replicas,
                       marked : BOOLEAN, fresh : SUBSET Replicas,
                       result : {"none", "ok", "failed"}]
<1>1. RollingTypeOK /\ This \in Replicas /\ updater \in Updater
    BY ThisReplica DEF Inv, RollingTypeOK
<1>2. \A next \in {"drain", "rejoin", "idle"} : Rebuild(next) \in Updater
    BY <1>1 DEF Rebuild, UpdaterPlaces
<1>3. \A place \in UpdaterPlaces : GoUpdater(place) => updater' \in Updater
    BY <1>1 DEF GoUpdater
<1>4. updater' \in Updater
    <2>1. CASE BeginUpdate
        BY <1>1, <2>1, ThisReplica DEF BeginUpdate, UpdaterAt, UpdaterPlaces
    <2>2. CASE MarkDraining
        BY <1>2, <2>2 DEF MarkDraining
    <2>3. CASE UpdaterSnapshot
        BY <1>1, <2>3 DEF UpdaterSnapshot, GetAliveReplicas, UpdaterPlaces
    <2>4. CASE UpdaterSwap
        BY <1>1, <2>4 DEF UpdaterSwap, UpdaterPlaces
    <2>5. CASE SendDrain \/ Drained \/ NothingToDrain \/ DrainRpcFails \/ Stop
        BY <1>3, <2>5 DEF SendDrain, Drained, NothingToDrain, DrainRpcFails, DrainCalled,
           Stop, UpdaterPlaces
    <2>6. CASE DrainTimeout
        BY <1>2, <2>6 DEF DrainTimeout
    <2>7. CASE Restart
        BY <1>1, <2>7 DEF Restart, UpdaterPlaces
    <2>8. CASE ClearDraining
        BY <1>2, <2>8 DEF ClearDraining
    <2>9. CASE Rejoin
        <3>1. CASE updater.k < Len(replica_ids)
            <4>1. updater.k + 1 \in DOMAIN replica_ids
                BY <1>1, <3>1, ThisReplica
            <4> QED
                BY <1>1, <2>9, <3>1, <4>1 DEF Rejoin, UpdaterPlaces
        <3>2. CASE ~(updater.k < Len(replica_ids))
            BY <1>1, <2>9, <3>2 DEF Rejoin, UpdaterPlaces
        <3> QED
            BY <3>1, <3>2
    <2> QED
        BY <2>1, <2>2, <2>3, <2>4, <2>5, <2>6, <2>7, <2>8, <2>9 DEF UpdaterStep
<1>5. ring' \subseteq Replicas
    BY <1>1 DEF UpdaterStep, BeginUpdate, MarkDraining, UpdaterSnapshot, UpdaterSwap,
        SendDrain, Drained, NothingToDrain, DrainRpcFails, DrainCalled, DrainTimeout, Stop,
        Restart, ClearDraining,
        Rejoin, RollingTypeOK
<1>6. draining' \subseteq Replicas
    BY <1>1 DEF UpdaterStep, BeginUpdate, MarkDraining, UpdaterSnapshot, UpdaterSwap,
        SendDrain, Drained, NothingToDrain, DrainRpcFails, DrainCalled, DrainTimeout, Stop,
        Restart, ClearDraining,
        Rejoin, RollingTypeOK, registry
<1>7. UNCHANGED <<gossip_state, member, gossip>>
    BY DEF UpdaterStep, BeginUpdate, MarkDraining, UpdaterSnapshot, UpdaterSwap,
        SendDrain, Drained, NothingToDrain, DrainRpcFails, DrainCalled, DrainTimeout, Stop,
        Restart, ClearDraining,
        Rejoin, registry
<1>8. /\ process' \in [Replicas -> {"running", "stopped", "crashed"}]
      /\ refusing' \subseteq Replicas
      /\ active' \in [Replicas -> Nat]
      /\ call' \in [Calls -> [at : CallPlaces, id : Replicas \cup {None}]]
      /\ \A c \in Calls : call'[c].at # "idle" => call'[c].id \in Replicas
    <2>1. CASE SendDrain
        BY <1>1, <2>1 DEF SendDrain, RollingTypeOK
    <2>2. CASE Stop
        BY <1>1, <2>2, CountEnds DEF Stop
    <2>3. CASE Restart
        BY <1>1, <2>3 DEF Restart, RollingTypeOK
    <2>4. CASE ~(SendDrain \/ Stop \/ Restart)
        <3>1. UNCHANGED <<replica, call>>
            BY <2>4 DEF UpdaterStep, BeginUpdate, MarkDraining, UpdaterSnapshot,
                UpdaterSwap, Drained, NothingToDrain, DrainRpcFails, DrainCalled,
                DrainTimeout, ClearDraining, Rejoin
        <3> QED
            BY <1>1, <3>1 DEF RollingTypeOK, replica
    <2> QED
        BY <2>1, <2>2, <2>3, <2>4
<1> QED
    BY <1>1, <1>4, <1>5, <1>6, <1>7, <1>8 DEF RollingTypeOK

LEMMA UpdaterCount ==
    ASSUME Inv, UpdaterStep
    PROVE  CountExact'
<1>1. CASE Stop
    BY <1>1, ThisReplica, CountEnds DEF Stop, Inv
<1>2. CASE ~Stop
    <2>1. UNCHANGED <<active, call>>
        BY <1>2 DEF UpdaterStep, BeginUpdate, MarkDraining, UpdaterSnapshot,
            UpdaterSwap, SendDrain, Drained, NothingToDrain, DrainRpcFails, DrainCalled,
            DrainTimeout, Restart,
            ClearDraining, Rejoin, replica
    <2> QED
        BY <2>1 DEF Inv, CountExact
<1> QED
    BY <1>1, <1>2

LEMMA UpdaterMarked ==
    ASSUME Inv, UpdaterStep
    PROVE  MarkedInv'
<1>1. /\ MarkedInv
      /\ This \in Replicas
      /\ updater \in [at : UpdaterPlaces, next : {"drain", "rejoin", "idle"},
                      k : DOMAIN replica_ids, snapshot : SUBSET Replicas,
                      marked : BOOLEAN, fresh : SUBSET Replicas,
                      result : {"none", "ok", "failed"}]
    BY ThisReplica DEF Inv, RollingTypeOK
<1> USE DEF MarkedInv, OneDraining, InRebuild, This
<1>2. CASE BeginUpdate
    BY <1>1, <1>2 DEF BeginUpdate, UpdaterAt, registry
<1>3. CASE MarkDraining
    BY <1>1, <1>3 DEF MarkDraining, Rebuild
<1>4. CASE UpdaterSnapshot
    BY <1>1, <1>4 DEF UpdaterSnapshot, registry
<1>5. CASE UpdaterSwap
    BY <1>1, <1>5 DEF UpdaterSwap, registry
<1>6. CASE SendDrain \/ Drained \/ NothingToDrain \/ DrainRpcFails \/ Stop
    BY <1>1, <1>6 DEF SendDrain, Drained, NothingToDrain, DrainRpcFails, DrainCalled, Stop,
       GoUpdater, registry
<1>7. CASE DrainTimeout
    BY <1>1, <1>7 DEF DrainTimeout, Rebuild
<1>8. CASE Restart
    BY <1>1, <1>8 DEF Restart, registry
<1>9. CASE ClearDraining
    BY <1>1, <1>9 DEF ClearDraining, Rebuild
<1>10. CASE Rejoin
    <2>1. ~updater.marked /\ ~updater'.marked /\ draining' = {}
        BY <1>1, <1>10 DEF Rejoin, registry
    <2> QED
        BY <2>1
<1> QED
    BY <1>2, <1>3, <1>4, <1>5, <1>6, <1>7, <1>8, <1>9, <1>10 DEF UpdaterStep

LEMMA UpdaterProgress ==
    ASSUME Inv, UpdaterStep
    PROVE  ProgressInv'
<1> DEFINE N == Len(replica_ids)
<1>1. /\ ProgressInv
      /\ RollingTypeOK
      /\ This \in Replicas
      /\ updater \in [at : UpdaterPlaces, next : {"drain", "rejoin", "idle"},
                      k : DOMAIN replica_ids, snapshot : SUBSET Replicas,
                      marked : BOOLEAN, fresh : SUBSET Replicas,
                      result : {"none", "ok", "failed"}]
      /\ updater.k \in 1 .. N
      /\ N \in Nat \ {0}
      /\ DOMAIN replica_ids = 1 .. N
      /\ \A k \in 1 .. N : replica_ids[k] \in Replicas
    BY ThisReplica DEF Inv, RollingTypeOK
<1> USE DEF ProgressInv, Back, InRebuild, This
<1>2. CASE BeginUpdate
    BY <1>1, <1>2 DEF BeginUpdate, UpdaterAt
<1>3. CASE MarkDraining
    BY <1>1, <1>3 DEF MarkDraining, Rebuild, Renewed, replica
<1>4. CASE UpdaterSnapshot
    BY <1>1, <1>4 DEF UpdaterSnapshot, Renewed, replica
<1>5. CASE UpdaterSwap
    BY <1>1, <1>5 DEF UpdaterSwap, Renewed, replica
<1>6. CASE SendDrain
    BY <1>1, <1>6 DEF SendDrain, GoUpdater, Renewed
<1>7. CASE Drained \/ NothingToDrain \/ DrainRpcFails
    BY <1>1, <1>7 DEF Drained, NothingToDrain, DrainRpcFails, DrainCalled, GoUpdater,
       Renewed, replica
<1>8. CASE DrainTimeout
    BY <1>1, <1>8 DEF DrainTimeout, Rebuild
<1>9. CASE Stop
    BY <1>1, <1>9 DEF Stop, Ends, GoUpdater, Renewed, RollingTypeOK
<1>10. CASE Restart
    BY <1>1, <1>10 DEF Restart, Renewed, RollingTypeOK
<1>11. CASE ClearDraining
    BY <1>1, <1>11 DEF ClearDraining, Rebuild, Renewed, replica
<1>12. CASE Rejoin
    <2>1. \A k \in 1 .. updater.k : Renewed(replica_ids[k])
        BY <1>1, <1>12 DEF Rejoin
    <2>2. \A r : Renewed(r) <=> IF updater'.fresh = updater.fresh THEN Renewed(r)' ELSE Renewed(r)
        BY <1>12 DEF Rejoin, Renewed, replica
    <2>3. CASE updater.k < N
        BY <1>1, <1>12, <2>1, <2>2, <2>3 DEF Rejoin
    <2>4. CASE ~(updater.k < N)
        BY <1>1, <1>12, <2>1, <2>2, <2>4 DEF Rejoin
    <2> QED
        BY <2>3, <2>4
<1> QED
    BY <1>2, <1>3, <1>4, <1>5, <1>6, <1>7, <1>8, <1>9, <1>10, <1>11, <1>12 DEF UpdaterStep

-----------------------------------------------------------------------------
(* The theorems                                                            *)

LEMMA StepInv == Inv /\ [Next]_vars => Inv'
<1> SUFFICES ASSUME Inv, [Next]_vars PROVE Inv'
    OBVIOUS
<1>1. CASE UpdaterStep
    BY <1>1, UpdaterTyped, UpdaterMarked, UpdaterCount, UpdaterProgress DEF Inv
<1>2. CASE \E t \in GossipThreads : GossipStep(t)
    BY <1>2, GossipStepInv
<1>3. CASE \E c \in Calls : CallStep(c)
    BY <1>3, CallStepInv
<1>4. CASE \E r \in Replicas : Crash(r)
    BY <1>4, CrashInv
<1>5. CASE UNCHANGED vars
    BY <1>5 DEF vars, registry, replica, Inv, RollingTypeOK, MarkedInv, OneDraining,
        This, InRebuild, CountExact, ProgressInv, Back, Renewed
<1> QED
    BY <1>1, <1>2, <1>3, <1>4, <1>5 DEF Next

\* The inductive invariant.
LEMMA Invariance == Spec => []Inv
BY InitInv, StepInv, PTL DEF Spec

\* Variables keep their types; active_requests_ is never negative.
THEOREM RollingTypeCorrect == Spec => []RollingTypeOK
<1>1. Inv => RollingTypeOK
    BY DEF Inv
<1> QED
    BY <1>1, Invariance, PTL

\* At any moment the draining flag is set on the replica the update is at, if it
\* found an entry to set it on, and on no other.
THEOREM OneDrainingAlways == Spec => []OneDraining
<1>1. Inv => OneDraining
    BY DEF Inv, MarkedInv
<1> QED
    BY <1>1, Invariance, PTL

\* active_requests_ is the number of streams its process serves.
THEOREM CountsExact == Spec => []CountExact
<1>1. Inv => CountExact
    BY DEF Inv
<1> QED
    BY <1>1, Invariance, PTL

\* An Update that returned true has renewed every replica in replica_ids.
THEOREM UpdatedAllHolds == Spec => []UpdatedAll
<1>1. ASSUME Inv PROVE UpdatedAll
    <2>1. updater.at = "idle" => ~updater.marked /\ draining = {}
        BY <1>1 DEF Inv, RollingTypeOK, MarkedInv, OneDraining, InRebuild
    <2>2. \A k \in DOMAIN replica_ids : replica_ids[k] \in Replicas
        BY <1>1, ThisReplica DEF Inv
    <2> QED
        BY <1>1, <2>1, <2>2 DEF Inv, RollingTypeOK, ProgressInv, Renewed, UpdatedAll
<1> QED
    BY <1>1, Invariance, PTL

\* No new call is sent to the replica that the update is at.
THEOREM NoCallWhileUpdatedHolds == Spec => NoCallWhileUpdated
<1>1. Inv /\ [Next]_vars =>
        [\A c \in Calls :
            updater.marked /\ call[c].at = "idle" /\ call'[c].at = "sent"
                => call'[c].id # This]_vars
    <2> SUFFICES ASSUME Inv, [Next]_vars, NEW c \in Calls, updater.marked,
                        call[c].at = "idle", call'[c].at = "sent"
                 PROVE  call'[c].id # This
        OBVIOUS
    <2>1. PICK u \in Calls : CallStep(u)
        <3>1. ~UNCHANGED call
            OBVIOUS
        <3>2. ASSUME NEW r, NEW how, Ends(r, how) PROVE FALSE
            BY <3>2 DEF Ends, Call
        <3> QED
            BY <3>1, <3>2 DEF Next, vars, UpdaterStep, BeginUpdate, MarkDraining,
                UpdaterSnapshot, UpdaterSwap, SendDrain, Drained, NothingToDrain,
                DrainRpcFails, DrainCalled,
                DrainTimeout, Stop, Restart, ClearDraining, Rejoin, GossipStep, Learn,
                GetMember, UpdateFromGossip, TakeSnapshot, SwapRing, Crash
    <2>2. call \in [Calls -> [at : CallPlaces, id : Replicas \cup {None}]]
        BY DEF Inv, RollingTypeOK
    <2>3. Select(u) /\ u = c
        BY <2>1, <2>2 DEF CallStep, Select, Generate, Refused, Count, EndGenerate, Settle,
                          GoCall, Call
    <2>4. PICK r \in SelectReplica : call'[c].id = r
        BY <2>2, <2>3 DEF Select, Call
    <2>5. r \notin draining
        BY <2>4 DEF SelectReplica, SelectByConsistentHash, GetAliveReplicas, Routable
    <2>6. draining = {This}
        BY DEF Inv, MarkedInv, OneDraining
    <2> QED
        BY <2>4, <2>5, <2>6
<1> QED
    BY <1>1, Invariance, PTL DEF Spec, NoCallWhileUpdated

-----------------------------------------------------------------------------
(* What Drain waits for                                                    *)

\* A replica whose Drain handler runs refuses new calls: it leaves "running" for
\* good until the update is through with it, or it goes on refusing.
RefusingInv ==
    updater.at = "draining" /\ process[This] = "running" => This \in refusing

\* Only sending the RPC brings the updater to wait for Drain.
LEMMA NotDrainingNext ==
    ASSUME Inv, UpdaterStep, ~SendDrain
    PROVE  updater'.at # "draining"
<1>1. updater \in [at : UpdaterPlaces, next : {"drain", "rejoin", "idle"},
                  k : DOMAIN replica_ids, snapshot : SUBSET Replicas,
                  marked : BOOLEAN, fresh : SUBSET Replicas,
                  result : {"none", "ok", "failed"}]
    BY DEF Inv, RollingTypeOK
<1>2. CASE BeginUpdate \/ UpdaterSnapshot \/ UpdaterSwap
    <2>1. CASE BeginUpdate
        BY <2>1 DEF BeginUpdate, UpdaterAt
    <2>2. CASE UpdaterSnapshot
        BY <1>1, <2>2 DEF UpdaterSnapshot
    <2>3. CASE UpdaterSwap
        BY <1>1, <2>3 DEF UpdaterSwap
    <2> QED
        BY <1>2, <2>1, <2>2, <2>3
<1>3. CASE MarkDraining \/ DrainTimeout \/ ClearDraining
    BY <1>1, <1>3 DEF MarkDraining, DrainTimeout, ClearDraining, Rebuild
<1>4. CASE Drained \/ NothingToDrain \/ DrainRpcFails \/ Stop
    BY <1>1, <1>4 DEF Drained, NothingToDrain, DrainRpcFails, DrainCalled, Stop, GoUpdater
<1>5. CASE Restart \/ Rejoin
    BY <1>1, <1>5 DEF Restart, Rejoin
<1> QED
    BY <1>2, <1>3, <1>4, <1>5 DEF UpdaterStep

LEMMA RefusingStep == Inv /\ RefusingInv /\ [Next]_vars => RefusingInv'
<1> SUFFICES ASSUME Inv, RefusingInv, [Next]_vars,
                    updater'.at = "draining", process'[This'] = "running"
             PROVE  This' \in refusing'
    BY DEF RefusingInv
<1>1. /\ updater \in [at : UpdaterPlaces, next : {"drain", "rejoin", "idle"},
                      k : DOMAIN replica_ids, snapshot : SUBSET Replicas,
                      marked : BOOLEAN, fresh : SUBSET Replicas,
                      result : {"none", "ok", "failed"}]
      /\ process \in [Replicas -> {"running", "stopped", "crashed"}]
      /\ This \in Replicas
    BY ThisReplica DEF Inv, RollingTypeOK
<1>2. CASE updater' = updater /\ refusing' = refusing /\ process' = process
    BY <1>2 DEF RefusingInv, This
<1>3. CASE SendDrain
    BY <1>1, <1>3 DEF SendDrain, GoUpdater, This
<1>4. ASSUME NEW r \in Replicas, Crash(r) PROVE This' \in refusing'
    <2>1. updater' = updater /\ process' = [process EXCEPT ![r] = "crashed"]
              /\ refusing' = refusing \ {r}
        BY <1>4 DEF Crash, Ends
    <2> QED
        BY <1>1, <2>1 DEF RefusingInv, This
<1>5. CASE UpdaterStep /\ ~SendDrain
    BY <1>5, NotDrainingNext
<1>6. ASSUME NEW c \in Calls, CallStep(c) PROVE This' \in refusing'
    BY <1>2, <1>6 DEF CallStep, Select, Generate, Refused, Count, EndGenerate, Settle, replica
<1>7. ASSUME NEW t \in GossipThreads, GossipStep(t) PROVE This' \in refusing'
    BY <1>2, <1>7
    DEF GossipStep, Learn, GetMember, UpdateFromGossip, TakeSnapshot, SwapRing, replica
<1>8. CASE UNCHANGED vars
    BY <1>2, <1>8 DEF vars, replica
<1> QED
    BY <1>3, <1>4, <1>5, <1>6, <1>7, <1>8 DEF Next

\* The calls that a step adds to those of a process had passed its test of draining_.
LEMMA EntersByGenerate ==
    ASSUME Inv, [Next]_vars, NEW r \in Replicas, NEW c \in InGenerate(r)',
           c \notin InGenerate(r)
    PROVE  Generate(c) /\ call[c].id = r
<1>1. /\ c \in Calls
      /\ call'[c].id = r /\ call'[c].at \in {"accepted", "generating"}
      /\ ~(call[c].id = r /\ call[c].at \in {"accepted", "generating"})
    BY DEF InGenerate
<1>2. call \in [Calls -> [at : CallPlaces, id : Replicas \cup {None}]]
    BY DEF Inv, RollingTypeOK
<1>3. call'[c] # call[c]
    BY <1>1
<1>4. ASSUME NEW s, NEW how, Ends(s, how) PROVE FALSE
    BY <1>1, <1>3, <1>4 DEF Ends, Call
<1>5. PICK u \in Calls : CallStep(u)
    BY <1>3, <1>4
    DEF Next, vars, UpdaterStep, BeginUpdate, MarkDraining, UpdaterSnapshot, UpdaterSwap,
        SendDrain, Drained, NothingToDrain, DrainRpcFails, DrainCalled, DrainTimeout, Stop,
        Restart, ClearDraining,
        Rejoin, GossipStep, Learn, GetMember, UpdateFromGossip, TakeSnapshot, SwapRing, Crash
<1>6. u = c
    <2>1. \E k : call' = [call EXCEPT ![u] = k]
        <3>1. CASE Select(u) \/ Settle(u)
            BY <3>1 DEF Select, Settle
        <3>2. ASSUME NEW place, GoCall(u, place) PROVE call' = [call EXCEPT ![u] = [@ EXCEPT !.at = place]]
            BY <3>2 DEF GoCall
        <3> QED
            BY <1>5, <3>1, <3>2 DEF CallStep, Generate, Refused, Count, EndGenerate
    <2> QED
        BY <1>1, <1>2, <1>3, <2>1
<1>7. Generate(c)
    BY <1>1, <1>2, <1>5, <1>6
    DEF CallStep, Select, Refused, Count, EndGenerate, Settle, GoCall, Call
<1> QED
    BY <1>1, <1>2, <1>7 DEF Generate, GoCall

\* While Drain waits, no call is added to those that it waits for.
THEOREM DrainOnlyShrinksHolds == Spec => DrainOnlyShrinks
<1> DEFINE Shrinks == updater.at = "draining" /\ updater'.at = "draining"
                          => InGenerate(This)' \subseteq InGenerate(This)
<1>1. Inv /\ RefusingInv /\ [Next]_vars => [Shrinks]_vars
    <2> SUFFICES ASSUME Inv, RefusingInv, [Next]_vars, updater.at = "draining",
                        updater'.at = "draining", NEW c \in InGenerate(This)',
                        c \notin InGenerate(This)
                 PROVE  FALSE
        OBVIOUS
    <2>1. updater' = updater
        <3>1. ~UpdaterStep
            BY NotDrainingNext DEF UpdaterStep, SendDrain
        <3> QED
            BY <3>1
            DEF Next, vars, GossipStep, Learn, GetMember, UpdateFromGossip, TakeSnapshot,
                SwapRing, CallStep, Select, Generate, Refused, Count, EndGenerate, Settle, Crash
    <2>2. PICK r \in Replicas : r = This
        BY ThisReplica DEF Inv
    <2>3. This' = r
        BY <2>1, <2>2 DEF This
    <2>4. c \in InGenerate(r)' /\ c \notin InGenerate(r)
        BY <2>2, <2>3 DEF InGenerate
    <2>5. Generate(c) /\ call[c].id = r
        BY <2>4, EntersByGenerate
    <2> QED
        BY <2>2, <2>5 DEF Generate, RefusingInv
<1>2. Init => RefusingInv
    BY DEF Init, UpdaterAt, RefusingInv
<1> QED
    BY <1>1, <1>2, InitInv, StepInv, RefusingStep, PTL DEF Spec, DrainOnlyShrinks
=============================================================================
