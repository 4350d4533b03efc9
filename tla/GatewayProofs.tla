--------------------------- MODULE GatewayProofs ----------------------------
(***************************************************************************)
(* Theorems about Gateway for every set of requests and replicas, every    *)
(* capacity, every number of retries and every breaker configuration.      *)
(***************************************************************************)
EXTENDS Gateway, CircuitBreakerProofs

\* What is true of a thread's locals l at place p: inside an iteration attempts
\* are left; from the selection on, the replica is one that is not excluded, and
\* the replicas of earlier attempts are;
\* nothing is streamed before the stream starts, and no error has been seen
\* while it is read.
InIteration == Held \cup {"wait", "reselect", "admit"}

LocalOK(p, l) ==
    /\ p \in InIteration => l.attempt < max_retries
    /\ p \in Held \cup {"admit"} => l.selection \in Replicas \ l.excluded
    /\ l.tried \subseteq l.excluded
    /\ p \in {"loop", "wait", "reselect"} => l.selection = NoReplica
    /\ p \in {"loop", "wait", "reselect", "admit", "dispatch"} => l.streamed = 0
    /\ p = "stream" => l.streamed >= 0

\* A thread with place p and locals l is the probe of r.
IsProbe(p, l, r) == p \in Held /\ l.probe /\ l.selection = r

Inv ==
    /\ TypeOK
    /\ \A q \in Requests : LocalOK(pc[q], local[q])
    /\ ActiveExact
    /\ \A r \in Replicas : Sound(breaker[r])
    /\ \A r \in Replicas :
          breaker[r].state = "HALF_OPEN" =>
              \E q \in Requests : IsProbe(pc[q], local[q], r)

-----------------------------------------------------------------------------
(* How one thread's step affects the parts of the invariant                *)

\* Everything but the counters: the step moves q to p with locals l, and keeps
\* or creates a probe for every breaker that is half-open after it.
LEMMA ThreadStep ==
    ASSUME Inv, NEW q \in Requests, NEW p \in Places, NEW l \in Locals,
           pc' = [pc EXCEPT ![q] = p], local' = [local EXCEPT ![q] = l],
           LocalOK(p, l),
           ActiveExact', active' \in [Replicas -> Int], alive' = alive,
           cancelled' = cancelled, status' \in [Requests -> Statuses],
           delivered' \in [Requests -> Seq(Nat)],
           breaker' \in [Replicas -> Breaker],
           \A r \in Replicas :
              /\ Sound(breaker'[r])
              /\ breaker'[r].state = "HALF_OPEN" =>
                    \/ IsProbe(p, l, r)
                    \/ breaker[r].state = "HALF_OPEN" /\ ~IsProbe(pc[q], local[q], r)
    PROVE  Inv'
<1>1. pc \in [Requests -> Places] /\ local \in [Requests -> Locals]
    BY DEF Inv, TypeOK
<1>2. pc' \in [Requests -> Places] /\ local' \in [Requests -> Locals]
    BY <1>1
<1>3. /\ pc'[q] = p /\ local'[q] = l
      /\ \A u \in Requests \ {q} : pc'[u] = pc[u] /\ local'[u] = local[u]
    BY <1>1
<1>4. \A u \in Requests : LocalOK(pc'[u], local'[u])
    BY <1>3 DEF Inv
<1>5. \A u \in Requests :
         pc'[u] = "admit" \/ pc'[u] \in Held => local'[u].selection \in Replicas
    BY <1>4 DEF LocalOK
<1>6. TypeOK'
    BY <1>2, <1>5 DEF Inv, TypeOK, Holds
<1>7. ASSUME NEW r \in Replicas, breaker'[r].state = "HALF_OPEN"
      PROVE  \E u \in Requests : IsProbe(pc'[u], local'[u], r)
    <2>1. CASE IsProbe(p, l, r)
        BY <1>3, <2>1
    <2>2. CASE breaker[r].state = "HALF_OPEN" /\ ~IsProbe(pc[q], local[q], r)
        <3>1. PICK u \in Requests : IsProbe(pc[u], local[u], r)
            BY <2>2 DEF Inv
        <3>2. u # q
            BY <2>2, <3>1
        <3> QED
            BY <1>3, <3>1, <3>2
    <2> QED
        BY <1>7, <2>1, <2>2
<1> QED
    BY <1>4, <1>6, <1>7 DEF Inv

\* A step that neither enters nor leaves a stream moves no counter.
LEMMA ActiveKept ==
    ASSUME Inv, NEW q \in Requests, NEW p, NEW l,
           pc' = [pc EXCEPT ![q] = p], local' = [local EXCEPT ![q] = l],
           pc[q] \in Counted <=> p \in Counted,
           p \in Counted => l.selection = local[q].selection,
           active' = active
    PROVE  ActiveExact' /\ active' \in [Replicas -> Int]
<1>1. ASSUME NEW r \in Replicas PROVE OnReplica(r)' = OnReplica(r)
    <2>1. pc \in [Requests -> Places] /\ local \in [Requests -> Locals]
        BY DEF Inv, TypeOK
    <2>2. ASSUME NEW u \in Requests
          PROVE  (pc'[u] \in Counted /\ local'[u].selection = r)
                    <=> (pc[u] \in Counted /\ local[u].selection = r)
        <3>1. CASE u = q
            BY <2>1, <3>1
        <3>2. CASE u # q
            BY <2>1, <3>2
        <3> QED
            BY <3>1, <3>2
    <2> QED
        BY <2>2 DEF OnReplica
<1> QED
    BY <1>1 DEF Inv, TypeOK, ActiveExact

\* Threads are finitely many, and so are the ones on a replica.
LEMMA OnReplicaFinite ==
    ASSUME NEW r
    PROVE  IsFiniteSet(OnReplica(r)) /\ Cardinality(OnReplica(r)) \in Nat
<1>1. OnReplica(r) \subseteq Requests
    BY DEF OnReplica
<1>2. IsFiniteSet(OnReplica(r))
    BY <1>1, GatewayAssumption, FS_Subset DEF GatewayAssumption
<1> QED
    BY <1>2, FS_CardinalityType

-----------------------------------------------------------------------------
(* Locals                                                                  *)

\* The locals of a thread at the top of the loop.
LEMMA AtLoopGood ==
    ASSUME NEW n \in 0 .. max_retries, NEW sent \in Nat, NEW skip \in SUBSET Replicas,
           NEW before \in SUBSET skip
    PROVE  /\ AtLoop(n, sent, skip, before) \in Locals
           /\ LocalOK("loop", AtLoop(n, sent, skip, before))
           /\ LocalOK("done", AtLoop(n, sent, skip, before))
BY DEF AtLoop, Locals, LocalOK, InIteration, Held

\* The locals of a thread that has left its iteration behind.
LEMMA FreshGood == Fresh \in Locals /\ LocalOK("done", Fresh)
BY AtLoopGood, GatewayAssumption DEF Fresh, GatewayAssumption

\* continue leaves well-formed locals behind.
LEMMA NextAttemptGood ==
    ASSUME Inv, NEW q \in Requests, pc[q] \in InIteration,
           NEW sent \in Nat, NEW skip \in SUBSET Replicas, NextAttempt(q, sent, skip),
           local[q].selection \in skip \cup {NoReplica}
    PROVE  \E l \in Locals :
              /\ pc' = [pc EXCEPT ![q] = "loop"]
              /\ local' = [local EXCEPT ![q] = l]
              /\ LocalOK("loop", l)
<1>1. /\ local[q] \in Locals
      /\ LocalOK(pc[q], local[q])
    BY DEF Inv, TypeOK
<1>2. local[q].attempt \in Nat /\ local[q].attempt < max_retries /\ max_retries \in Nat
    BY <1>1, GatewayAssumption DEF LocalOK, Locals, GatewayAssumption
<1>3. local[q].attempt + 1 \in 0 .. max_retries
    BY <1>2
<1>4. /\ local[q].excluded \cup skip \in SUBSET Replicas
      /\ local[q].tried \cup ({local[q].selection} \ {NoReplica})
            \in SUBSET (local[q].excluded \cup skip)
    BY <1>1 DEF Locals, LocalOK
<1> QED
    BY <1>3, <1>4, AtLoopGood DEF NextAttempt, GoTo

-----------------------------------------------------------------------------
(* The inductive invariant                                                 *)

\* A step that leaves the breakers and the counters alone keeps the invariant
\* if a thread that is held by a breaker stays held, as a probe if it was one.
LEMMA QuietStep ==
    ASSUME Inv, NEW q \in Requests, NEW p \in Places, NEW l \in Locals,
           pc' = [pc EXCEPT ![q] = p], local' = [local EXCEPT ![q] = l],
           LocalOK(p, l),
           pc[q] \in Held =>
              p \in Held /\ l.probe = local[q].probe /\ l.selection = local[q].selection,
           pc[q] \in Counted <=> p \in Counted,
           UNCHANGED <<registry, breaker, cancelled>>,
           status' \in [Requests -> Statuses], delivered' \in [Requests -> Seq(Nat)]
    PROVE  Inv'
<1>1. p \in Counted => l.selection = local[q].selection
    BY DEF Counted, Held
<1>2. ActiveExact' /\ active' \in [Replicas -> Int]
    BY <1>1, ActiveKept DEF registry
<1>3. ASSUME NEW r \in Replicas
      PROVE  /\ Sound(breaker'[r])
             /\ IsProbe(p, l, r) \/ ~IsProbe(pc[q], local[q], r)
    BY DEF Inv, IsProbe
<1>4. breaker' \in [Replicas -> Breaker]
    BY DEF Inv, TypeOK
<1> QED
    BY <1>2, <1>3, <1>4, ThreadStep DEF registry

\* Returning from outside the loop's body disturbs nobody.
LEMMA ReturnStep ==
    ASSUME Inv, NEW q \in Requests, pc[q] \notin Held, NEW code \in Statuses,
           Return(q, code), UNCHANGED <<registry, breaker, cancelled, delivered>>
    PROVE  Inv'
<1>1. "done" \in Places /\ "done" \notin Held /\ "done" \notin Counted
    BY DEF Places, Held, Counted
<1>2. pc[q] \notin Counted
    BY DEF Held, Counted
<1>3. /\ pc' = [pc EXCEPT ![q] = "done"]
      /\ local' = [local EXCEPT ![q] = Fresh]
      /\ status' \in [Requests -> Statuses]
      /\ delivered' \in [Requests -> Seq(Nat)]
    BY DEF Return, GoTo, Inv, TypeOK
<1> QED
    BY <1>1, <1>2, <1>3, FreshGood, QuietStep

\* Going round the loop without having been admitted disturbs nobody.
LEMMA SkipStep ==
    ASSUME Inv, NEW q \in Requests, pc[q] \in {"reselect", "admit"},
           NEW skip \in SUBSET Replicas, NextAttempt(q, local[q].tokens_sent, skip),
           local[q].selection \in skip \cup {NoReplica},
           UNCHANGED <<client, registry, breaker>>
    PROVE  Inv'
<1>1. local[q].tokens_sent \in Nat
    BY DEF Inv, TypeOK, Locals
<1>2. PICK l \in Locals : /\ pc' = [pc EXCEPT ![q] = "loop"]
                          /\ local' = [local EXCEPT ![q] = l]
                          /\ LocalOK("loop", l)
    BY <1>1, NextAttemptGood DEF InIteration
<1>3. "loop" \in Places /\ "loop" \notin Counted /\ pc[q] \notin Held \cup Counted
    BY DEF Places, Counted, Held
<1>4. status' \in [Requests -> Statuses] /\ delivered' \in [Requests -> Seq(Nat)]
    BY DEF client, Inv, TypeOK
<1> QED
    BY <1>2, <1>3, <1>4, QuietStep DEF client

\* Selecting a replica that is not excluded.
LEMMA SelectStep ==
    ASSUME Inv, NEW q \in Requests, pc[q] \in {"loop", "reselect"},
           local[q].attempt < max_retries, SelectOne(q),
           UNCHANGED <<client, registry, breaker>>
    PROVE  Inv'
<1>1. PICK r \in Selectable(q) : local' = [local EXCEPT ![q].selection = r]
    BY DEF SelectOne
<1> DEFINE l == [local[q] EXCEPT !.selection = r]
<1>2. r \in Replicas /\ r \notin local[q].excluded
    BY DEF Selectable, Inv, TypeOK
<1>3. local[q] \in Locals /\ local \in [Requests -> Locals]
    BY DEF Inv, TypeOK
<1>4. /\ l \in Locals
      /\ l.selection = r
      /\ l.excluded = local[q].excluded
      /\ l.tried = local[q].tried
      /\ l.attempt = local[q].attempt
      /\ l.streamed = local[q].streamed
    BY <1>2, <1>3 DEF Locals
<1>5. local' = [local EXCEPT ![q] = l] /\ pc' = [pc EXCEPT ![q] = "admit"]
    BY <1>1, <1>3 DEF SelectOne, GoTo
<1> HIDE DEF l
<1>6. LocalOK("admit", l)
    <2>1. local[q].streamed = 0 /\ local[q].tried \subseteq local[q].excluded
        BY DEF Inv, LocalOK
    <2> QED
        BY <1>2, <1>4, <2>1 DEF LocalOK, InIteration, Held
<1>7. /\ "admit" \in Places
      /\ "admit" \notin Counted
      /\ pc[q] \notin Held \cup Counted
    BY DEF Places, Counted, Held
<1>8. status' \in [Requests -> Statuses] /\ delivered' \in [Requests -> Seq(Nat)]
    BY DEF client, Inv, TypeOK
<1> QED
    BY <1>4, <1>5, <1>6, <1>7, <1>8, QuietStep DEF client

\* Asking the breaker: an admitted thread becomes the probe of a breaker that
\* is half-open after the call.
LEMMA AdmitStep ==
    ASSUME Inv, NEW q \in Requests, Admit(q)
    PROVE  Inv'
<1> DEFINE r == local[q].selection
           b == AfterAllowRequest(breaker[r])
           l == [local[q] EXCEPT !.probe = breaker[r].state # "CLOSED"]
<1>1. /\ pc[q] = "admit"
      /\ local[q] \in Locals
      /\ local \in [Requests -> Locals]
      /\ LocalOK("admit", local[q])
    BY DEF Admit, Inv, TypeOK
<1>2. /\ r \in Replicas /\ r \notin local[q].excluded
      /\ local[q].attempt < max_retries
      /\ local[q].streamed = 0
      /\ local[q].tried \subseteq local[q].excluded
    BY <1>1 DEF LocalOK, InIteration
<1>3. CASE ~Allows(breaker[r]) /\ NextAttempt(q, local[q].tokens_sent, {r})
           /\ UNCHANGED breaker
    <2>1. {r} \in SUBSET Replicas /\ local[q].selection \in {r} \cup {NoReplica}
        BY <1>2
    <2> HIDE DEF r
    <2> QED
        BY <1>1, <1>3, <2>1, SkipStep DEF Admit
<1>4. CASE Allows(breaker[r]) /\ breaker' = [breaker EXCEPT ![r] = b]
           /\ local' = [local EXCEPT ![q].probe = breaker[r].state # "CLOSED"]
           /\ GoTo(q, "dispatch")
    <2>1. /\ l \in Locals
          /\ l.selection = r
          /\ l.excluded = local[q].excluded
          /\ l.tried = local[q].tried
          /\ l.attempt = local[q].attempt
          /\ l.probe = (breaker[r].state # "CLOSED")
          /\ l.streamed = local[q].streamed
        BY <1>1 DEF Locals
    <2>2. local' = [local EXCEPT ![q] = l] /\ pc' = [pc EXCEPT ![q] = "dispatch"]
        BY <1>1, <1>4 DEF GoTo
    <2>3. /\ Sound(b)
          /\ b.state = "HALF_OPEN" => breaker[r].state # "CLOSED"
        <3>1. Sound(breaker[r])
            BY <1>2 DEF Inv
        <3> QED
            BY <1>4, <3>1, AllowSound
    <2>4. /\ breaker \in [Replicas -> Breaker]
          /\ b \in Breaker
        BY <2>3 DEF Inv, TypeOK, Sound, GoodBreaker
    <2>5. /\ breaker' \in [Replicas -> Breaker]
          /\ breaker'[r] = b
          /\ \A s \in Replicas \ {r} : breaker'[s] = breaker[s]
        BY <1>2, <1>4, <2>4
    <2> HIDE DEF l, b
    <2>6. LocalOK("dispatch", l)
        BY <1>2, <2>1 DEF LocalOK, InIteration
    <2>7. ASSUME NEW s \in Replicas
          PROVE  /\ Sound(breaker'[s])
                 /\ breaker'[s].state = "HALF_OPEN" =>
                       \/ IsProbe("dispatch", l, s)
                       \/ breaker[s].state = "HALF_OPEN" /\ ~IsProbe(pc[q], local[q], s)
        <3>1. CASE s = r
            BY <2>1, <2>3, <2>5, <3>1 DEF IsProbe, Held
        <3>2. CASE s # r
            BY <1>1, <2>5, <3>2 DEF Inv, IsProbe, Held
        <3> QED
            BY <3>1, <3>2
    <2>8. /\ "dispatch" \in Places
          /\ pc[q] \notin Counted
          /\ "dispatch" \notin Counted
        BY <1>1 DEF Places, Counted
    <2>9. ActiveExact' /\ active' \in [Replicas -> Int]
        BY <2>2, <2>8, ActiveKept DEF Admit, registry
    <2>10. /\ alive' = alive /\ cancelled' = cancelled
           /\ status' \in [Requests -> Statuses]
           /\ delivered' \in [Requests -> Seq(Nat)]
        BY DEF Admit, registry, client, Inv, TypeOK
    <2> QED
        BY <2>1, <2>2, <2>5, <2>6, <2>7, <2>8, <2>9, <2>10, ThreadStep
<1> QED
    BY <1>3, <1>4 DEF Admit

\* A stream starts: its thread is one more on the replica.
LEMMA DispatchStep ==
    ASSUME Inv, NEW q \in Requests, Dispatch(q)
    PROVE  Inv'
<1> DEFINE r == local[q].selection
           l == local[q]
<1>1. /\ pc[q] = "dispatch"
      /\ l \in Locals
      /\ LocalOK("dispatch", l)
      /\ pc \in [Requests -> Places]
      /\ active \in [Replicas -> Int]
    BY DEF Dispatch, Inv, TypeOK
<1>2. r \in Replicas
    BY <1>1 DEF LocalOK, Held
<1>3. pc' = [pc EXCEPT ![q] = "stream"] /\ local' = [local EXCEPT ![q] = l]
    BY DEF Dispatch, GoTo, Inv, TypeOK
<1>4. LocalOK("stream", l)
    BY <1>1 DEF LocalOK, InIteration, Held
<1>5. ASSUME NEW s \in Replicas
      PROVE  active'[s] = Cardinality(OnReplica(s)')
    <2>1. CASE s = r
        <3>1. OnReplica(s)' = OnReplica(s) \cup {q} /\ q \notin OnReplica(s)
            BY <1>1, <1>3, <2>1 DEF OnReplica, Counted, Dispatch
        <3>2. Cardinality(OnReplica(s)') = Cardinality(OnReplica(s)) + 1
            BY <3>1, OnReplicaFinite, FS_AddElement
        <3>3. active[s] = Cardinality(OnReplica(s))
            BY DEF Inv, ActiveExact
        <3> QED
            BY <1>1, <2>1, <3>2, <3>3 DEF Dispatch
    <2>2. CASE s # r
        <3>1. OnReplica(s)' = OnReplica(s)
            BY <1>1, <1>3, <2>2 DEF OnReplica, Counted, Dispatch
        <3> QED
            BY <1>1, <1>2, <2>2, <3>1 DEF Dispatch, Inv, ActiveExact
    <2> QED
        BY <2>1, <2>2
<1>6. ActiveExact' /\ active' \in [Replicas -> Int]
    <2>1. ActiveExact'
        BY <1>5 DEF ActiveExact
    <2>2. active[r] + 1 \in Int
        BY <1>1, <1>2
    <2>3. active' = [active EXCEPT ![r] = active[r] + 1]
        BY DEF Dispatch
    <2> HIDE DEF r
    <2>4. active' \in [Replicas -> Int]
        BY <1>1, <2>2, <2>3
    <2> QED
        BY <2>1, <2>4
<1>7. ASSUME NEW s \in Replicas
      PROVE  /\ Sound(breaker'[s])
             /\ IsProbe("stream", l, s) \/ ~IsProbe(pc[q], local[q], s)
    BY <1>1 DEF Dispatch, Inv, IsProbe, Held
<1>8. /\ "stream" \in Places
      /\ alive' = alive /\ breaker' = breaker /\ cancelled' = cancelled
      /\ breaker' \in [Replicas -> Breaker]
      /\ status' \in [Requests -> Statuses]
      /\ delivered' \in [Requests -> Seq(Nat)]
    BY DEF Places, Dispatch, client, Inv, TypeOK
<1> HIDE DEF l
<1> QED
    BY <1>1, <1>3, <1>4, <1>6, <1>7, <1>8, ThreadStep

\* A stream's slot is given back: its thread is one fewer on the replica.
LEMMA ReleaseStep ==
    ASSUME Inv, NEW q \in Requests, Release(q)
    PROVE  Inv'
<1> DEFINE r == local[q].selection
           l == local[q]
<1>1. /\ pc[q] = "release"
      /\ l \in Locals
      /\ LocalOK("release", l)
      /\ pc \in [Requests -> Places]
      /\ active \in [Replicas -> Int]
    BY DEF Release, Inv, TypeOK
<1>2. r \in Replicas
    BY <1>1 DEF LocalOK, Held
<1>3. pc' = [pc EXCEPT ![q] = "notify"] /\ local' = [local EXCEPT ![q] = l]
    BY DEF Release, GoTo, Inv, TypeOK
<1>4. LocalOK("notify", l)
    BY <1>1 DEF LocalOK, InIteration, Held
<1>5. ASSUME NEW s \in Replicas
      PROVE  active'[s] = Cardinality(OnReplica(s)')
    <2>1. CASE s = r
        <3>1. OnReplica(s)' = OnReplica(s) \ {q} /\ q \in OnReplica(s)
            BY <1>1, <1>3, <2>1 DEF OnReplica, Counted, Release
        <3>2. Cardinality(OnReplica(s)') = Cardinality(OnReplica(s)) - 1
            BY <3>1, OnReplicaFinite, FS_RemoveElement
        <3>3. active[s] = Cardinality(OnReplica(s))
            BY DEF Inv, ActiveExact
        <3> QED
            BY <1>1, <2>1, <3>2, <3>3 DEF Release
    <2>2. CASE s # r
        <3>1. OnReplica(s)' = OnReplica(s)
            BY <1>1, <1>3, <2>2 DEF OnReplica, Counted, Release
        <3> QED
            BY <1>1, <1>2, <2>2, <3>1 DEF Release, Inv, ActiveExact
    <2> QED
        BY <2>1, <2>2
<1>6. ActiveExact' /\ active' \in [Replicas -> Int]
    <2>1. ActiveExact'
        BY <1>5 DEF ActiveExact
    <2>2. active[r] - 1 \in Int
        BY <1>1, <1>2
    <2>3. active' = [active EXCEPT ![r] = active[r] - 1]
        BY DEF Release
    <2> HIDE DEF r
    <2>4. active' \in [Replicas -> Int]
        BY <1>1, <2>2, <2>3
    <2> QED
        BY <2>1, <2>4
<1>7. ASSUME NEW s \in Replicas
      PROVE  /\ Sound(breaker'[s])
             /\ IsProbe("notify", l, s) \/ ~IsProbe(pc[q], local[q], s)
    BY <1>1 DEF Release, Inv, IsProbe, Held
<1>8. /\ "notify" \in Places
      /\ alive' = alive /\ breaker' = breaker /\ cancelled' = cancelled
      /\ breaker' \in [Replicas -> Breaker]
      /\ status' \in [Requests -> Statuses]
      /\ delivered' \in [Requests -> Seq(Nat)]
    BY DEF Places, Release, client, Inv, TypeOK
<1> HIDE DEF l
<1> QED
    BY <1>1, <1>3, <1>4, <1>6, <1>7, <1>8, ThreadStep

\* The stream forwards a token, ends or fails: the thread stays on its replica.
LEMMA StreamStep ==
    ASSUME Inv, NEW q \in Requests, ForwardToken(q) \/ StreamEnds(q) \/ StreamFails(q)
    PROVE  Inv'
<1>1. /\ pc[q] = "stream"
      /\ local[q] \in Locals
      /\ local \in [Requests -> Locals]
      /\ pc \in [Requests -> Places]
      /\ LocalOK("stream", local[q])
    BY DEF ForwardToken, StreamEnds, StreamFails, Inv, TypeOK
<1>2. /\ "stream" \in Places /\ "release" \in Places
      /\ "stream" \in Counted /\ "release" \in Counted
      /\ "stream" \in Held /\ "release" \in Held
    BY DEF Places, Counted, Held
<1>3. CASE ForwardToken(q)
    <2> DEFINE l == [local[q] EXCEPT !.streamed = @ + 1]
    <2>1. /\ l \in Locals
          /\ l.selection = local[q].selection
          /\ l.probe = local[q].probe
          /\ LocalOK("stream", l)
        BY <1>1 DEF Locals, LocalOK, InIteration, Held
    <2>2. pc' = [pc EXCEPT ![q] = "stream"] /\ local' = [local EXCEPT ![q] = l]
        BY <1>1, <1>3 DEF ForwardToken
    <2>3. delivered' \in [Requests -> Seq(Nat)]
        <3>1. NextToken(q) \in Nat
            BY <1>1 DEF NextToken, Locals, LocalOK
        <3>2. delivered \in [Requests -> Seq(Nat)]
            BY DEF Inv, TypeOK
        <3>3. Append(delivered[q], NextToken(q)) \in Seq(Nat)
            BY <3>1, <3>2, AppendProperties
        <3> QED
            BY <1>3, <3>2, <3>3 DEF ForwardToken
    <2>4. status' \in [Requests -> Statuses]
        BY <1>3 DEF ForwardToken, Inv, TypeOK
    <2> HIDE DEF l
    <2> QED
        BY <1>1, <1>2, <1>3, <2>1, <2>2, <2>3, <2>4, QuietStep DEF ForwardToken
<1>4. CASE StreamEnds(q)
    <2>1. LocalOK("release", local[q])
        BY <1>1 DEF LocalOK, InIteration, Held
    <2>2. /\ pc' = [pc EXCEPT ![q] = "release"]
          /\ local' = [local EXCEPT ![q] = local[q]]
          /\ status' \in [Requests -> Statuses]
          /\ delivered' \in [Requests -> Seq(Nat)]
        BY <1>1, <1>4 DEF StreamEnds, GoTo, client, Inv, TypeOK
    <2> QED
        BY <1>1, <1>2, <1>4, <2>1, <2>2, QuietStep DEF StreamEnds, client
<1>5. CASE StreamFails(q)
    <2> DEFINE l == [local[q] EXCEPT !.streamed = -1]
    <2>1. /\ l \in Locals
          /\ l.selection = local[q].selection
          /\ l.probe = local[q].probe
          /\ LocalOK("release", l)
        BY <1>1 DEF Locals, LocalOK, InIteration, Held
    <2>2. /\ pc' = [pc EXCEPT ![q] = "release"]
          /\ local' = [local EXCEPT ![q] = l]
          /\ status' \in [Requests -> Statuses]
          /\ delivered' \in [Requests -> Seq(Nat)]
        BY <1>1, <1>5 DEF StreamFails, GoTo, client, Inv, TypeOK
    <2> HIDE DEF l
    <2> QED
        BY <1>1, <1>2, <1>5, <2>1, <2>2, QuietStep DEF StreamFails, client
<1> QED
    BY <1>3, <1>4, <1>5

\* NotifyCapacityAvailable() touches the queue only.
LEMMA NotifyStep ==
    ASSUME Inv, NEW q \in Requests, Notify(q)
    PROVE  Inv'
<1>1. /\ pc[q] = "notify"
      /\ local[q] \in Locals
      /\ LocalOK("notify", local[q])
    BY DEF Notify, Inv, TypeOK
<1>2. /\ local' = [local EXCEPT ![q] = local[q]]
      /\ status' \in [Requests -> Statuses]
      /\ delivered' \in [Requests -> Seq(Nat)]
    BY DEF Notify, client, Inv, TypeOK
<1>3. UNCHANGED <<registry, breaker, cancelled>>
    BY DEF Notify, client
<1>4. /\ "notify" \in Held \cap Places /\ "notify" \notin Counted
      /\ "record" \in Held \cap Places /\ "record" \notin Counted
    BY DEF Places, Held, Counted
<1>5. CASE pc' = pc
    <2>1. pc' = [pc EXCEPT ![q] = "notify"]
        BY <1>1, <1>5 DEF Inv, TypeOK
    <2> QED
        BY <1>1, <1>2, <1>3, <1>4, <2>1, QuietStep
<1>6. CASE GoTo(q, "record")
    <2>1. pc' = [pc EXCEPT ![q] = "record"]
        BY <1>6 DEF GoTo
    <2>2. LocalOK("record", local[q])
        BY <1>1 DEF LocalOK, InIteration, Held
    <2> QED
        BY <1>1, <1>2, <1>3, <1>4, <2>1, <2>2, QuietStep
<1> QED
    BY <1>5, <1>6 DEF Notify

\* Recording an outcome takes the breaker out of HALF_OPEN, so the thread need
\* not be its probe any longer.
LEMMA RecordStep ==
    ASSUME Inv, NEW q \in Requests, RecordFailedStream(q) \/ RecordEndedStream(q)
    PROVE  Inv'
<1> DEFINE r == local[q].selection
           b == breaker'[r]
<1>1. /\ pc[q] = "record"
      /\ local[q] \in Locals
      /\ LocalOK("record", local[q])
      /\ breaker \in [Replicas -> Breaker]
    BY DEF RecordFailedStream, RecordEndedStream, Inv, TypeOK
<1>2. r \in Replicas /\ pc[q] \in InIteration
    BY <1>1 DEF LocalOK, InIteration, Held
<1>3. \E nb : /\ breaker' = [breaker EXCEPT ![r] = nb]
              /\ Sound(nb)
              /\ nb.state # "HALF_OPEN"
    <2>1. Sound(breaker[r])
        BY <1>2 DEF Inv
    <2> QED
        BY <2>1, SuccessSound, FailureSound DEF RecordFailedStream, RecordEndedStream
<1>4. PICK nb : /\ breaker' = [breaker EXCEPT ![r] = nb]
                /\ Sound(nb)
                /\ nb.state # "HALF_OPEN"
    BY <1>3
<1>5. /\ breaker' \in [Replicas -> Breaker]
      /\ breaker'[r] = nb
      /\ \A s \in Replicas \ {r} : breaker'[s] = breaker[s]
    <2>1. nb \in Breaker
        BY <1>4 DEF Sound, GoodBreaker
    <2> QED
        BY <1>1, <1>2, <1>4, <2>1
<1>6. ASSUME NEW s \in Replicas
      PROVE  /\ Sound(breaker'[s])
             /\ breaker'[s].state = "HALF_OPEN" =>
                   breaker[s].state = "HALF_OPEN" /\ ~IsProbe(pc[q], local[q], s)
    <2>1. CASE s = r
        BY <1>4, <1>5, <2>1
    <2>2. CASE s # r
        BY <1>5, <2>2 DEF Inv, IsProbe
    <2> QED
        BY <2>1, <2>2
<1>7. PICK p \in {"loop", "done"}, l \in Locals :
         /\ pc' = [pc EXCEPT ![q] = p]
         /\ local' = [local EXCEPT ![q] = l]
         /\ LocalOK(p, l)
         /\ status' \in [Requests -> Statuses]
    <2>1. /\ {r} \in SUBSET Replicas
          /\ local[q].selection \in {r} \cup {NoReplica}
          /\ status \in [Requests -> Statuses]
        BY <1>2 DEF Inv, TypeOK
    <2>2. CASE Return(q, "OK")
        BY <2>1, <2>2, FreshGood DEF Return, GoTo, Statuses
    <2>3. ASSUME NEW sent \in Nat, NextAttempt(q, sent, {r}), UNCHANGED status
          PROVE  \E l \in Locals : /\ pc' = [pc EXCEPT ![q] = "loop"]
                                   /\ local' = [local EXCEPT ![q] = l]
                                   /\ LocalOK("loop", l)
                                   /\ status' \in [Requests -> Statuses]
        <3> HIDE DEF r
        <3> QED
            BY <1>2, <2>1, <2>3, NextAttemptGood
    <2>4. CASE RecordFailedStream(q)
        <3>1. local[q].tokens_sent \in Nat
            BY <1>1 DEF Locals
        <3>2. NextAttempt(q, local[q].tokens_sent, {r}) /\ UNCHANGED status
            BY <2>4 DEF RecordFailedStream, client
        <3> QED
            BY <2>3, <3>1, <3>2
    <2>5. CASE RecordEndedStream(q)
        <3>1. NextToken(q) \in Nat
            BY <1>1, <2>5 DEF RecordEndedStream, NextToken, Locals
        <3>2. \/ Return(q, "OK")
              \/ NextAttempt(q, NextToken(q), {r}) /\ UNCHANGED status
            BY <2>5 DEF RecordEndedStream
        <3> QED
            BY <2>2, <2>3, <3>1, <3>2
    <2> QED
        BY <2>4, <2>5
<1>8. /\ p \in Places
      /\ p \notin Counted
      /\ pc[q] \notin Counted
    BY <1>1, <1>7 DEF Places, Counted
<1>9. /\ UNCHANGED <<registry, cancelled>>
      /\ delivered' \in [Requests -> Seq(Nat)]
    BY DEF RecordFailedStream, RecordEndedStream, client, Inv, TypeOK
<1>10. ActiveExact' /\ active' \in [Replicas -> Int]
    BY <1>7, <1>8, <1>9, ActiveKept DEF registry
<1> QED
    BY <1>5, <1>6, <1>7, <1>8, <1>9, <1>10, ThreadStep DEF registry

\* The surroundings touch nothing that the invariant is about.
LEMMA SurroundingsStep ==
    ASSUME Inv,
           \/ \E q \in Requests : ClientCancels(q)
           \/ \E r \in Replicas : RoutabilityChanges(r)
           \/ \E r \in Replicas : CooldownElapses(r)
    PROVE  Inv'
<1>1. CASE \E q \in Requests : ClientCancels(q)
    BY <1>1
    DEF ClientCancels, registry, Inv, TypeOK, ActiveExact, OnReplica, Holds
<1>2. CASE \E r \in Replicas : RoutabilityChanges(r)
    BY <1>2
    DEF RoutabilityChanges, client, Inv, TypeOK, ActiveExact, OnReplica, Holds
<1>3. ASSUME NEW r \in Replicas, CooldownElapses(r)
      PROVE  Inv'
    <2>1. /\ breaker \in [Replicas -> Breaker]
          /\ Sound(breaker[r])
        BY DEF Inv, TypeOK
    <2>2. /\ breaker' = [breaker EXCEPT ![r] = AfterCooldown(breaker[r])]
          /\ Sound(AfterCooldown(breaker[r]))
          /\ AfterCooldown(breaker[r]).state = breaker[r].state
          /\ AfterCooldown(breaker[r]) \in Breaker
        BY <1>3, <2>1, CooldownSound DEF CooldownElapses, Sound, GoodBreaker
    <2>3. /\ breaker' \in [Replicas -> Breaker]
          /\ \A s \in Replicas : Sound(breaker'[s]) /\ breaker'[s].state = breaker[s].state
        BY <2>1, <2>2 DEF Inv
    <2> QED
        BY <1>3, <2>3
        DEF CooldownElapses, client, registry, Inv, TypeOK, ActiveExact, OnReplica,
           Holds
<1> QED
    BY <1>1, <1>2, <1>3

\* Every step keeps the invariant.
LEMMA InvStep == Inv /\ [Next]_vars => Inv'
<1> SUFFICES ASSUME Inv, [Next]_vars PROVE Inv'
    OBVIOUS
<1>1. ASSUME NEW q \in Requests, Select(q) PROVE Inv'
    <2>1. local[q].attempt < max_retries
        BY <1>1, GatewayAssumption
        DEF Select, LoopEnds, Inv, TypeOK, Locals, GatewayAssumption
    <2>2. CASE SelectOne(q)
        BY <1>1, <2>1, <2>2, SelectStep DEF Select
    <2>3. CASE GoTo(q, "wait") /\ UNCHANGED local
        <3>1. /\ pc[q] = "loop"
              /\ local[q] \in Locals
              /\ LocalOK("loop", local[q])
            BY <1>1 DEF Select, Inv, TypeOK
        <3>2. /\ pc' = [pc EXCEPT ![q] = "wait"]
              /\ local' = [local EXCEPT ![q] = local[q]]
              /\ status' \in [Requests -> Statuses]
              /\ delivered' \in [Requests -> Seq(Nat)]
              /\ UNCHANGED <<registry, breaker, cancelled>>
            BY <1>1, <2>3 DEF Select, GoTo, client, Inv, TypeOK
        <3>3. LocalOK("wait", local[q])
            BY <2>1, <3>1 DEF LocalOK, Held
        <3>4. /\ "wait" \in Places
              /\ "wait" \notin Counted
              /\ pc[q] \notin Held \cup Counted
            BY <3>1 DEF Places, Counted, Held
        <3> QED
            BY <3>1, <3>2, <3>3, <3>4, QuietStep
    <2> QED
        BY <1>1, <2>2, <2>3 DEF Select
<1>2. ASSUME NEW q \in Requests, WaitInQueue(q) PROVE Inv'
    BY <1>2
    DEF WaitInQueue, client, registry, Inv, TypeOK, ActiveExact, OnReplica, Holds
<1>3. ASSUME NEW q \in Requests, LeaveQueue(q) PROVE Inv'
    <2>1. CASE GoTo(q, "reselect") /\ UNCHANGED <<local, status>>
        <3>1. /\ pc[q] = "wait"
              /\ local[q] \in Locals
              /\ LocalOK("wait", local[q])
            BY <1>3 DEF LeaveQueue, Inv, TypeOK
        <3>2. /\ pc' = [pc EXCEPT ![q] = "reselect"]
              /\ local' = [local EXCEPT ![q] = local[q]]
              /\ status' \in [Requests -> Statuses]
              /\ delivered' \in [Requests -> Seq(Nat)]
              /\ UNCHANGED <<registry, breaker, cancelled>>
            BY <1>3, <2>1 DEF LeaveQueue, GoTo, Inv, TypeOK
        <3>3. LocalOK("reselect", local[q])
            BY <3>1 DEF LocalOK, InIteration, Held
        <3>4. /\ "reselect" \in Places
              /\ "reselect" \notin Counted
              /\ pc[q] \notin Held \cup Counted
            BY <3>1 DEF Places, Counted, Held
        <3> QED
            BY <3>1, <3>2, <3>3, <3>4, QuietStep
    <2>2. CASE Return(q, "RESOURCE_EXHAUSTED")
        BY <1>3, <2>2, ReturnStep DEF LeaveQueue, Held, Statuses
    <2> QED
        BY <1>3, <2>1, <2>2 DEF LeaveQueue
<1>4. ASSUME NEW q \in Requests, Reselect(q) PROVE Inv'
    <2>1. local[q].attempt < max_retries /\ local[q].selection \in {} \cup {NoReplica}
        BY <1>4 DEF Reselect, Inv, LocalOK, InIteration
    <2> QED
        BY <1>4, <2>1, SelectStep, SkipStep DEF Reselect
<1>5. ASSUME NEW q \in Requests, ReturnCancelled(q) \/ ReturnAfterLoop(q) PROVE Inv'
    <2>1. pc[q] \notin Held /\ UNCHANGED <<registry, breaker, cancelled, delivered>>
        BY <1>5 DEF ReturnCancelled, ReturnAfterLoop, Held
    <2>2. \E code \in Statuses : Return(q, code)
        BY <1>5 DEF ReturnCancelled, ReturnAfterLoop, Statuses
    <2> QED
        BY <2>1, <2>2, ReturnStep
<1>6. CASE UNCHANGED vars
    BY <1>6
    DEF vars, client, registry, Inv, TypeOK, ActiveExact, OnReplica, Holds
<1> QED
    BY <1>1, <1>2, <1>3, <1>4, <1>5, <1>6, AdmitStep, DispatchStep, StreamStep,
       ReleaseStep, NotifyStep, RecordStep, SurroundingsStep
    DEF Next, Infer, AllReturned

\* No request has started: no counter, no probe.
LEMMA InvInit == Init => Inv
<1> SUFFICES ASSUME Init PROVE Inv
    OBVIOUS
<1>1. /\ Fresh \in Locals
      /\ LocalOK("loop", Fresh)
    BY AtLoopGood, GatewayAssumption DEF Fresh, GatewayAssumption
<1>2. NewBreaker \in Breaker
    BY NewBreakerSound DEF Sound, GoodBreaker
<1>3. TypeOK
    BY <1>1, <1>2 DEF Init, TypeOK, Places, Statuses, Holds, Held
<1>4. \A q \in Requests : LocalOK(pc[q], local[q])
    BY <1>1 DEF Init
<1>5. ActiveExact
    <2>1. \A r \in Replicas : OnReplica(r) = {}
        BY DEF Init, OnReplica, Counted
    <2> QED
        BY <2>1, FS_EmptySet DEF Init, ActiveExact
<1>6. \A r \in Replicas : Sound(breaker[r]) /\ breaker[r].state = "CLOSED"
    BY NewBreakerSound DEF Init
<1> QED
    BY <1>3, <1>4, <1>5, <1>6 DEF Inv

\* Inv is an invariant of Infer.
LEMMA Invariance == Spec => []Inv
BY InvInit, InvStep, PTL DEF Spec

\* Type correctness of the gateway.
THEOREM TypeCorrect == Spec => []TypeOK
<1>1. Inv => TypeOK
    BY DEF Inv
<1> QED
    BY <1>1, Invariance, PTL

\* The registry's counters are exact: every path through Infer gives back the
\* slot it took, once.
THEOREM CountersExact == Spec => []ActiveExact
<1>1. Inv => ActiveExact
    BY DEF Inv
<1> QED
    BY <1>1, Invariance, PTL

\* A half-open breaker always has a request under way that resolves it.
THEOREM ProbesResolved == Spec => []ProbeResolved
<1>1. Inv => ProbeResolved
    BY DEF Inv, ProbeResolved, IsProbe, Holds
<1> QED
    BY <1>1, Invariance, PTL

\* No request goes back to a replica that it tried in an earlier attempt.
THEOREM NoReplicaRetried == Spec => []NeverRetried
<1>1. Inv => NeverRetried
    BY DEF Inv, NeverRetried, LocalOK, Holds
<1> QED
    BY <1>1, Invariance, PTL

-----------------------------------------------------------------------------
(* What a client has when Infer returns                                    *)

\* The tokens 0 to n - 1 have been written.
Has(d, n) == \A k \in 0 .. n - 1 : \E i \in DOMAIN d : d[i] = k

\* Before each token, all earlier ones have been.
Ordered(d) == \A i \in DOMAIN d : \A k \in 0 .. d[i] - 1 : \E j \in 1 .. i - 1 : d[j] = k

\* What the thread has counted has been written: the next stream starts no later
\* than where the client's tokens end, although it may start earlier and repeat some.
AnswerOK(l, d) ==
    /\ Ordered(d)
    /\ Has(d, l.tokens_sent)
    /\ l.streamed >= 0 => Has(d, l.tokens_sent + l.streamed)

AnswerInv == \A q \in Requests : AnswerOK(local[q], delivered[q])

LEMMA HasNext ==
    ASSUME NEW d \in Seq(Nat), NEW n \in Nat, Ordered(d), Has(d, n)
    PROVE  Ordered(Append(d, n)) /\ Has(Append(d, n), n + 1)
<1> DEFINE e == Append(d, n)
<1>1. /\ Len(d) \in Nat /\ Len(e) = Len(d) + 1
      /\ DOMAIN d = 1 .. Len(d) /\ DOMAIN e = 1 .. Len(d) + 1
      /\ e[Len(d) + 1] = n
      /\ \A j \in 1 .. Len(d) : e[j] = d[j] /\ d[j] \in Nat
    BY AppendProperties
<1> HIDE DEF e
<1>2. ASSUME NEW i \in DOMAIN e, NEW k \in 0 .. e[i] - 1
      PROVE  \E j \in 1 .. i - 1 : e[j] = k
    <2>1. CASE i = Len(d) + 1
        <3>1. PICK j \in 1 .. Len(d) : d[j] = k
            BY <1>1, <1>2, <2>1 DEF Has
        <3> QED
            BY <1>1, <2>1, <3>1
    <2>2. CASE i # Len(d) + 1
        <3>1. i \in DOMAIN d /\ e[i] = d[i]
            BY <1>1, <2>2
        <3>2. PICK j \in 1 .. i - 1 : d[j] = k
            BY <1>2, <3>1 DEF Ordered
        <3> QED
            BY <1>1, <3>1, <3>2
    <2> QED
        BY <2>1, <2>2
<1>3. ASSUME NEW k \in 0 .. (n + 1) - 1
      PROVE  \E i \in DOMAIN e : e[i] = k
    <2>1. CASE k = n
        BY <1>1, <2>1
    <2>2. CASE k # n
        <3>1. PICK i \in DOMAIN d : d[i] = k
            BY <2>2 DEF Has
        <3> QED
            BY <1>1, <3>1
    <2> QED
        BY <2>1, <2>2
<1> QED
    BY <1>2, <1>3 DEF Ordered, Has, e

\* A thread's step leaves the other requests alone.
LEMMA OthersAlone ==
    ASSUME Inv, NEW q \in Requests, Infer(q)
    PROVE  \A u \in Requests \ {q} :
              /\ pc'[u] = pc[u] /\ local'[u] = local[u]
              /\ status'[u] = status[u] /\ delivered'[u] = delivered[u]
<1> USE DEF Inv, TypeOK
<1>1. CASE ReturnCancelled(q) \/ ReturnAfterLoop(q) \/ LeaveQueue(q)
    BY <1>1 DEF ReturnCancelled, ReturnAfterLoop, LeaveQueue, Return, GoTo
<1>2. CASE Select(q) \/ WaitInQueue(q) \/ Reselect(q) \/ Admit(q)
    BY <1>2 DEF Select, SelectOne, WaitInQueue, Reselect, Admit, NextAttempt, GoTo,
       client
<1>3. CASE Dispatch(q) \/ ForwardToken(q) \/ StreamEnds(q) \/ StreamFails(q)
    BY <1>3 DEF Dispatch, ForwardToken, StreamEnds, StreamFails, GoTo, client
<1>4. CASE Release(q) \/ Notify(q) \/ RecordFailedStream(q) \/ RecordEndedStream(q)
    BY <1>4 DEF Release, Notify, RecordFailedStream, RecordEndedStream, Return,
                NextAttempt, GoTo, client
<1> QED
    BY <1>1, <1>2, <1>3, <1>4 DEF Infer

\* What q's thread and its client have.
LEMMA AnswerNow ==
    ASSUME Inv, AnswerInv, NEW q \in Requests
    PROVE  /\ AnswerOK(local[q], delivered[q])
           /\ local \in [Requests -> Locals] /\ local[q] \in Locals
           /\ local[q].tokens_sent \in Nat /\ local[q].streamed \in Nat \cup {-1}
           /\ local[q].attempt \in 0 .. max_retries
           /\ delivered \in [Requests -> Seq(Nat)] /\ delivered[q] \in Seq(Nat)
           /\ status \in [Requests -> Statuses]
           /\ max_tokens[q] \in Nat /\ max_retries \in Nat
BY GatewayAssumption DEF AnswerInv, Inv, TypeOK, Locals, GatewayAssumption

\* The steps that write no token: what they count is what has been written.
LEMMA AnswerCounted ==
    ASSUME Inv, AnswerInv, NEW q \in Requests, UNCHANGED delivered,
           \/ /\ local'[q].tokens_sent = local[q].tokens_sent
              /\ local'[q].streamed \in {local[q].streamed, -1, 0}
           \/ /\ local'[q].tokens_sent = 0 /\ local'[q].streamed = 0
           \/ /\ local[q].streamed >= 0
              /\ local'[q].tokens_sent = NextToken(q) /\ local'[q].streamed = 0
    PROVE  AnswerOK(local[q], delivered[q])'
<1> DEFINE d == delivered[q]
<1>1. Has(d, 0)
    BY DEF Has
<1>2. /\ Ordered(d) /\ Has(d, local[q].tokens_sent)
      /\ local[q].streamed >= 0 => Has(d, NextToken(q))
      /\ local[q].tokens_sent \in Nat /\ local[q].streamed \in Nat \cup {-1}
    BY AnswerNow DEF AnswerOK, NextToken
<1>3. \A n \in Nat : n + 0 = n
    OBVIOUS
<1>4. CASE local'[q].tokens_sent = local[q].tokens_sent /\ local'[q].streamed = local[q].streamed
    BY <1>2, <1>4 DEF AnswerOK, NextToken
<1>5. CASE local'[q].tokens_sent = local[q].tokens_sent /\ local'[q].streamed = -1
    BY <1>2, <1>5 DEF AnswerOK
<1>6. CASE local'[q].tokens_sent = local[q].tokens_sent /\ local'[q].streamed = 0
    BY <1>2, <1>3, <1>6 DEF AnswerOK
<1>7. CASE local'[q].tokens_sent = 0 /\ local'[q].streamed = 0
    BY <1>1, <1>2, <1>7 DEF AnswerOK
<1>8. CASE /\ local[q].streamed >= 0
           /\ local'[q].tokens_sent = NextToken(q) /\ local'[q].streamed = 0
    <2>1. NextToken(q) \in Nat
        BY <1>2, <1>8 DEF NextToken
    <2> QED
        BY <1>2, <1>3, <1>8, <2>1 DEF AnswerOK
<1> QED
    BY <1>4, <1>5, <1>6, <1>7, <1>8

LEMMA AnswerForward ==
    ASSUME Inv, AnswerInv, NEW q \in Requests, ForwardToken(q)
    PROVE  AnswerOK(local[q], delivered[q])'
<1> DEFINE n == NextToken(q)
<1>1. local[q].streamed \in Nat
    BY AnswerNow DEF ForwardToken, Inv, LocalOK
<1>2. n \in Nat /\ Ordered(delivered[q]) /\ Has(delivered[q], n)
    BY <1>1, AnswerNow DEF AnswerOK, NextToken
<1>3. /\ delivered'[q] = Append(delivered[q], n)
      /\ local'[q].tokens_sent = local[q].tokens_sent
      /\ local'[q].streamed = local[q].streamed + 1
    BY AnswerNow DEF ForwardToken, Locals
<1>4. Ordered(delivered'[q]) /\ Has(delivered'[q], n + 1)
    BY <1>2, <1>3, AnswerNow, HasNext
<1>5. local'[q].tokens_sent + local'[q].streamed = n + 1
    BY <1>1, <1>3, AnswerNow DEF NextToken
<1>6. Has(delivered'[q], local[q].tokens_sent)
    <2>1. local[q].tokens_sent <= n + 1
        BY <1>1, AnswerNow DEF NextToken
    <2>2. 0 .. local[q].tokens_sent - 1 \subseteq 0 .. (n + 1) - 1
        BY <1>2, <2>1, AnswerNow
    <2> QED
        BY <1>4, <2>2 DEF Has
<1> QED
    BY <1>3, <1>4, <1>5, <1>6 DEF AnswerOK

LEMMA AnswerStep == Inv /\ AnswerInv /\ [Next]_vars => AnswerInv'
<1> SUFFICES ASSUME Inv, AnswerInv, [Next]_vars
             PROVE  AnswerInv'
    OBVIOUS
<1>1. ASSUME NEW q \in Requests, Infer(q)
      PROVE  AnswerOK(local[q], delivered[q])'
    <2>1. \A n, sent, skip, before : /\ AtLoop(n, sent, skip, before).tokens_sent = sent
                                     /\ AtLoop(n, sent, skip, before).streamed = 0
        BY DEF AtLoop
    <2>2. \A code : Return(q, code) => local'[q].tokens_sent = 0 /\ local'[q].streamed = 0
        BY <1>1, <2>1, AnswerNow DEF Return, Fresh
    <2>3. \A sent, skip : NextAttempt(q, sent, skip) =>
              local'[q].tokens_sent = sent /\ local'[q].streamed = 0
        BY <1>1, <2>1, AnswerNow DEF NextAttempt
    <2>4. SelectOne(q) \/ UNCHANGED local =>
              local'[q].tokens_sent = local[q].tokens_sent /\ local'[q].streamed = local[q].streamed
        BY <1>1, AnswerNow DEF SelectOne, Locals
    <2>5. CASE ReturnCancelled(q) \/ ReturnAfterLoop(q) \/ LeaveQueue(q)
        BY <1>1, <2>2, <2>4, <2>5, AnswerCounted
        DEF ReturnCancelled, ReturnAfterLoop, LeaveQueue
    <2>6. CASE Select(q) \/ Reselect(q) \/ WaitInQueue(q)
        BY <1>1, <2>3, <2>4, <2>6, AnswerCounted DEF Select, Reselect, WaitInQueue, client
    <2>7. CASE Admit(q)
        <3>1. CASE \E b : local' = [local EXCEPT ![q].probe = b]
            <4>1. /\ local'[q].tokens_sent = local[q].tokens_sent
                  /\ local'[q].streamed = local[q].streamed
                BY <1>1, <3>1, AnswerNow DEF Locals
            <4> QED
                BY <1>1, <2>7, <4>1, AnswerCounted DEF Admit, client
        <3>2. CASE \E r : NextAttempt(q, local[q].tokens_sent, {r})
            BY <1>1, <2>3, <2>7, <3>2, AnswerCounted DEF Admit, client
        <3> QED
            BY <2>7, <3>1, <3>2 DEF Admit
    <2>8. CASE Dispatch(q) \/ StreamEnds(q) \/ Release(q) \/ Notify(q)
        BY <1>1, <2>4, <2>8, AnswerCounted DEF Dispatch, StreamEnds, Release, Notify, client
    <2>9. CASE ForwardToken(q)
        BY <1>1, <2>9, AnswerForward
    <2>10. CASE StreamFails(q)
        <3>1. /\ local'[q].tokens_sent = local[q].tokens_sent
              /\ local'[q].streamed = -1
            BY <1>1, <2>10, AnswerNow DEF StreamFails, Locals
        <3> QED
            BY <1>1, <2>10, <3>1, AnswerCounted DEF StreamFails, client
    <2>11. CASE RecordFailedStream(q)
        BY <1>1, <2>3, <2>11, AnswerCounted DEF RecordFailedStream, client
    <2>12. CASE RecordEndedStream(q)
        BY <1>1, <2>2, <2>3, <2>12, AnswerCounted DEF RecordEndedStream
    <2> QED
        BY <1>1, <2>5, <2>6, <2>7, <2>8, <2>9, <2>10, <2>11, <2>12 DEF Infer
<1>2. ASSUME NEW q \in Requests, Infer(q)
      PROVE  AnswerInv'
    BY <1>1, <1>2, OthersAlone DEF AnswerInv
<1>3. ASSUME UNCHANGED <<local, delivered>>
      PROVE  AnswerInv'
    BY <1>3 DEF AnswerInv
<1>4. CASE \E q \in Requests : ClientCancels(q)
    BY <1>3, <1>4 DEF ClientCancels
<1>5. CASE \E r \in Replicas : RoutabilityChanges(r) \/ CooldownElapses(r)
    BY <1>3, <1>5 DEF RoutabilityChanges, CooldownElapses, client
<1>6. CASE UNCHANGED vars
    BY <1>3, <1>6 DEF vars, client
<1> QED
    BY <1>2, <1>4, <1>5, <1>6 DEF Next, AllReturned

LEMMA AnswerInit == Init => AnswerInv
<1>1. Ordered(<<>>) /\ Has(<<>>, 0)
    BY DEF Ordered, Has
<1> QED
    BY <1>1 DEF Init, Fresh, AtLoop, AnswerInv, AnswerOK

\* OK is returned for a complete answer, or after the last attempt for a part of it.
LEMMA OkReturned ==
    ASSUME Inv, AnswerInv, NEW q \in Requests, Infer(q), status'[q] # status[q],
           status'[q] = "OK"
    PROVE  \/ Complete(q)
           \/ local[q].attempt = max_retries /\ delivered[q] # <<>>
<1>1. \A code : Return(q, code) => status'[q] = code
    BY AnswerNow DEF Return
<1>2. \A n \in Nat : Has(delivered[q], n) /\ n >= max_tokens[q] => Complete(q)
    <2> SUFFICES ASSUME NEW n \in Nat, Has(delivered[q], n), n >= max_tokens[q]
                 PROVE  Complete(q)
        OBVIOUS
    <2>1. 0 .. max_tokens[q] - 1 \subseteq 0 .. n - 1
        BY AnswerNow
    <2> QED
        BY <2>1 DEF Has, Complete
<1>3. ReturnAfterLoop(q) \/ RecordEndedStream(q)
    BY <1>1 DEF Infer, ReturnCancelled, Select, WaitInQueue, LeaveQueue, Reselect, Admit,
       Dispatch, ForwardToken, StreamEnds, StreamFails, Release, Notify,
       RecordFailedStream, client
<1>4. CASE RecordEndedStream(q)
    <2>1. local[q].streamed >= 0 /\ NextToken(q) >= max_tokens[q]
        BY <1>4 DEF RecordEndedStream
    <2>2. NextToken(q) \in Nat /\ Has(delivered[q], NextToken(q))
        BY <2>1, AnswerNow DEF AnswerOK, NextToken
    <2> QED
        BY <1>2, <2>1, <2>2
<1>5. CASE ReturnAfterLoop(q)
    <2>1. AllSent(q) \/ local[q].tokens_sent > 0
        BY <1>1, <1>5 DEF ReturnAfterLoop
    <2>2. CASE AllSent(q)
        BY <1>2, <2>2, AnswerNow DEF AllSent, AnswerOK
    <2>3. CASE ~AllSent(q)
        <3>1. local[q].attempt = max_retries
            BY <1>5, <2>3, AnswerNow DEF ReturnAfterLoop, LoopEnds
        <3>2. 0 \in 0 .. local[q].tokens_sent - 1
            BY <2>1, <2>3, AnswerNow
        <3>3. \E i \in DOMAIN delivered[q] : delivered[q][i] = 0
            BY <3>2, AnswerNow DEF AnswerOK, Has
        <3>4. delivered[q] # <<>>
            BY <3>3
        <3> QED
            BY <3>1, <3>4
    <2> QED
        BY <2>2, <2>3
<1> QED
    BY <1>3, <1>4, <1>5

\* Whatever Infer returns, the client has a prefix of the answer, some tokens of
\* which it may have twice; with OK it has all of it, or all attempts were used up.
THEOREM AnswersArePrefixes == Spec => AnswerIsPrefix
<1>1. Inv /\ AnswerInv /\ [Next]_vars => [\A q \in Requests : ReturnsPrefix(q)]_vars
    <2> SUFFICES ASSUME Inv, AnswerInv, [Next]_vars, NEW q \in Requests,
                        status'[q] # status[q]
                 PROVE  ReturnsPrefix(q)
        BY DEF ReturnsPrefix
    <2>1. NoneSkipped(q)
        BY AnswerNow DEF AnswerOK, Ordered, NoneSkipped
    <2>2. Infer(q)
        BY OthersAlone
        DEF Next, ClientCancels, RoutabilityChanges, CooldownElapses, AllReturned, vars,
            client
    <2> QED
        BY <2>1, <2>2, OkReturned DEF ReturnsPrefix
<1>2. Spec => [](Inv /\ AnswerInv)
    BY InvInit, InvStep, AnswerInit, AnswerStep, PTL DEF Spec
<1> QED
    BY <1>1, <1>2, PTL DEF Spec, AnswerIsPrefix

-----------------------------------------------------------------------------
(* Infer keeps to the breakers' protocol                                   *)

\* The instance's breaker is this module's breaker.
LEMMA SameBreaker ==
    /\ Breakers!NewBreaker = NewBreaker
    /\ \A b : /\ Breakers!Allows(b) <=> Allows(b)
              /\ Breakers!AfterAllowRequest(b) = AfterAllowRequest(b)
              /\ Breakers!AfterRecordSuccess(b) = AfterRecordSuccess(b)
              /\ Breakers!AfterRecordFailure(b) = AfterRecordFailure(b)
              /\ Breakers!AfterCooldown(b) = AfterCooldown(b)
BY Zenon
DEF NewBreaker, Breakers!NewBreaker, Allows, Breakers!Allows,
    AfterAllowRequest, Breakers!AfterAllowRequest,
    AfterRecordSuccess, Breakers!AfterRecordSuccess,
    AfterRecordFailure, Breakers!AfterRecordFailure,
    AfterCooldown, Breakers!AfterCooldown, Recorded, Breakers!Recorded,
    EvaluateState, Breakers!EvaluateState, Open, Breakers!Open,
    Slide, Breakers!Slide, Failing, Breakers!Failing, Failures, Breakers!Failures,
    Cardinality, Breakers!Cardinality

\* The history variable of the instance says which breakers are rested.
LEMMA CooledIsRested ==
    /\ Cooled = [r \in Replicas |-> Rested(breaker[r])]
    /\ Cooled' = [r \in Replicas |-> Rested(breaker'[r])]
BY DEF Cooled, Rested

\* The streams in flight, as the instance has them.
Streams == [q \in Requests |-> StreamOf(q)]

LEMMA StreamIsIdleOrCall ==
    ASSUME NEW q \in Requests
    PROVE  /\ Streams[q] = StreamOf(q)
           /\ pc[q] \notin Held => StreamOf(q) = Breakers!Idle
           /\ pc[q] \in Held =>
                /\ StreamOf(q).replica = local[q].selection
                /\ StreamOf(q) # Breakers!Idle
BY DEF Streams, StreamOf, Holds, Breakers!Idle

\* A step of one thread changes its own stream only.
LEMMA OneStream ==
    ASSUME NEW q \in Requests,
           \A u \in Requests \ {q} : pc'[u] = pc[u] /\ local'[u] = local[u]
    PROVE  Streams' = [Streams EXCEPT ![q] = StreamOf(q)']
<1>1. \A u \in Requests \ {q} : StreamOf(u)' = StreamOf(u)
    BY DEF StreamOf, Holds
<1> QED
    BY <1>1 DEF Streams

\* A thread that is held by a breaker on neither side of its step, or as the same
\* stream on both, is a step of nobody in the protocol.
LEMMA UnheldStep ==
    ASSUME Inv, NEW q \in Requests, Infer(q), UNCHANGED breaker,
           pc[q] \notin Held, pc'[q] \notin Held
    PROVE  Streams' = Streams
<1>1. Streams' = [Streams EXCEPT ![q] = StreamOf(q)']
    BY OthersAlone, OneStream
<1>2. StreamOf(q)' = StreamOf(q)
    BY DEF StreamOf, Holds
<1> QED
    BY <1>1, <1>2 DEF Streams

LEMMA HeldStep ==
    ASSUME Inv, NEW q \in Requests, Infer(q), UNCHANGED breaker,
           pc[q] \in Held, pc'[q] \in Held,
           local'[q].probe = local[q].probe, local'[q].selection = local[q].selection
    PROVE  Streams' = Streams
<1>1. Streams' = [Streams EXCEPT ![q] = StreamOf(q)']
    BY OthersAlone, OneStream
<1>2. StreamOf(q)' = StreamOf(q)
    BY DEF StreamOf, Holds
<1> QED
    BY <1>1, <1>2 DEF Streams

\* The steps between AllowRequest() and the recorded outcome, and those outside.
LEMMA StreamGoesOn ==
    ASSUME Inv, NEW q \in Requests,
           \/ Dispatch(q) \/ ForwardToken(q) \/ StreamEnds(q) \/ StreamFails(q)
           \/ Release(q) \/ Notify(q)
    PROVE  Streams' = Streams /\ UNCHANGED breaker
<1>1. Infer(q) /\ UNCHANGED breaker
    BY DEF Infer, Dispatch, ForwardToken, StreamEnds, StreamFails, Release, Notify
<1>2. local[q] \in Locals /\ local \in [Requests -> Locals] /\ pc \in [Requests -> Places]
    BY DEF Inv, TypeOK
<1>3. pc[q] \in Held /\ pc'[q] \in Held
    BY <1>2 DEF Dispatch, ForwardToken, StreamEnds, StreamFails, Release, Notify, GoTo, Held
<1>4. local'[q].probe = local[q].probe /\ local'[q].selection = local[q].selection
    BY <1>2 DEF Dispatch, ForwardToken, StreamEnds, StreamFails, Release, Notify, Locals
<1> QED
    BY <1>1, <1>3, <1>4, HeldStep

LEMMA NoStreamYet ==
    ASSUME Inv, NEW q \in Requests,
           \/ ReturnCancelled(q) \/ Select(q) \/ WaitInQueue(q) \/ LeaveQueue(q)
           \/ Reselect(q) \/ ReturnAfterLoop(q)
           \/ Admit(q) /\ ~Allows(breaker[local[q].selection])
    PROVE  Streams' = Streams /\ UNCHANGED breaker
<1>1. Infer(q) /\ UNCHANGED breaker
    BY DEF Infer, ReturnCancelled, Select, WaitInQueue, LeaveQueue, Reselect, Admit, ReturnAfterLoop
<1>2. pc \in [Requests -> Places]
    BY DEF Inv, TypeOK
<1>3. pc[q] \notin Held /\ pc'[q] \notin Held
    BY <1>2
    DEF ReturnCancelled, Select, WaitInQueue, LeaveQueue, Reselect, Admit,
        ReturnAfterLoop, SelectOne, Return, NextAttempt, GoTo, Held
<1> QED
    BY <1>1, <1>3, UnheldStep

\* A request that Infer is let through with is the instance's AllowRequest.
LEMMA AdmitIsAllow ==
    ASSUME Inv, NEW q \in Requests, Admit(q), Allows(breaker[local[q].selection])
    PROVE  Breakers!AllowRequest(q, local[q].selection)
<1> DEFINE r == local[q].selection
<1>1. /\ pc[q] = "admit" /\ pc'[q] = "dispatch"
      /\ local'[q].probe = (breaker[r].state # "CLOSED")
      /\ local'[q].selection = r
      /\ breaker' = [breaker EXCEPT ![r] = AfterAllowRequest(breaker[r])]
    BY DEF Admit, GoTo, Inv, TypeOK, Locals
<1>2. r \in Replicas /\ Sound(breaker[r]) /\ breaker \in [Replicas -> Breaker]
    BY <1>1 DEF Inv, TypeOK
<1>3. Streams' = [Streams EXCEPT ![q] = StreamOf(q)']
    BY OthersAlone, OneStream DEF Infer
<1> DEFINE kind == IF breaker[r].state = "CLOSED" THEN "normal" ELSE "probe"
<1>4. StreamOf(q)' = [kind |-> kind, replica |-> r]
    BY <1>1 DEF StreamOf, Holds, Held
<1>5. StreamOf(q) = Breakers!Idle /\ Streams[q] = StreamOf(q)
    BY <1>1, StreamIsIdleOrCall DEF Held
<1>6. Cooled' = [Cooled EXCEPT ![r] = (kind = "normal") /\ Cooled[r]]
    <2>1. ASSUME NEW s \in Replicas
          PROVE  Cooled'[s] = IF s = r THEN (kind = "normal") /\ Cooled[r] ELSE Cooled[s]
        <3>1. CASE s = r
            <4>1. breaker'[r] = AfterAllowRequest(breaker[r])
                BY <1>1, <1>2
            <4>2. ~Rested(breaker'[r])
                BY <1>2, <4>1, AllowUnrests
            <4>3. breaker[r].state = "CLOSED" => ~Rested(breaker[r])
                BY DEF Rested
            <4>4. Cooled'[r] = Rested(breaker'[r]) /\ Cooled[r] = Rested(breaker[r])
                BY <1>2, CooledIsRested
            <4>5. Cooled'[r] = FALSE /\ ((kind = "normal") /\ Cooled[r]) = FALSE
                BY <4>2, <4>3, <4>4 DEF Rested
            <4> QED
                BY <3>1, <4>5
        <3>2. CASE s # r
            <4>1. breaker'[s] = breaker[s]
                BY <1>1, <1>2, <3>2
            <4> QED
                BY <3>2, <4>1 DEF Cooled
        <3> QED
            BY <3>1, <3>2
    <2> QED
        BY <2>1 DEF Cooled
<1> QED
    BY <1>1, <1>3, <1>4, <1>5, <1>6, SameBreaker DEF Breakers!AllowRequest, Streams

\* The outcome that Infer records is the instance's, for the replica it asked.
LEMMA RecordIsRecord ==
    ASSUME Inv, NEW q \in Requests, RecordFailedStream(q) \/ RecordEndedStream(q)
    PROVE  Breakers!RecordFailure(q) \/ Breakers!RecordSuccess(q)
<1> DEFINE r == local[q].selection
<1>1. /\ pc[q] = "record" /\ pc'[q] \in {"loop", "done"}
      /\ \/ breaker' = [breaker EXCEPT ![r] = AfterRecordFailure(breaker[r])]
         \/ breaker' = [breaker EXCEPT ![r] = AfterRecordSuccess(breaker[r])]
    BY DEF RecordFailedStream, RecordEndedStream, NextAttempt, Return, GoTo, Inv, TypeOK
<1>2. r \in Replicas /\ Sound(breaker[r]) /\ breaker \in [Replicas -> Breaker]
    BY <1>1 DEF Inv, TypeOK, Holds, Held
<1>3. /\ Streams' = [Streams EXCEPT ![q] = StreamOf(q)']
      /\ StreamOf(q)' = Breakers!Idle
    BY <1>1, OthersAlone, OneStream DEF Infer, StreamOf, Holds, Held, Breakers!Idle
<1>4. Streams[q] # Breakers!Idle /\ Streams[q].replica = r
    BY <1>1, StreamIsIdleOrCall DEF Held
<1>5. Cooled' = Cooled
    <2>1. \A s \in Replicas \ {r} : breaker'[s] = breaker[s]
        BY <1>1, <1>2
    <2>2. Rested(breaker'[r]) <=> Rested(breaker[r])
        BY <1>1, <1>2, RecordKeepsRest
    <2>3. \A s \in Replicas : Rested(breaker'[s]) = Rested(breaker[s])
        BY <2>1, <2>2 DEF Rested
    <2> QED
        BY <2>3, CooledIsRested
<1> QED
    BY <1>1, <1>3, <1>4, <1>5, SameBreaker
    DEF Breakers!RecordFailure, Breakers!RecordSuccess, Streams

\* So is the passing of a cooldown.
LEMMA CooldownIsCooldown ==
    ASSUME Inv, NEW r \in Replicas, CooldownElapses(r)
    PROVE  Breakers!CooldownElapses(r)
<1>1. /\ breaker[r].state = "OPEN" /\ ~breaker[r].cooled
      /\ breaker' = [breaker EXCEPT ![r] = AfterCooldown(breaker[r])]
      /\ breaker \in [Replicas -> Breaker]
    BY DEF CooldownElapses, Inv, TypeOK
<1>2. breaker'[r].state = "OPEN" /\ breaker'[r].cooled = TRUE
    BY <1>1 DEF AfterCooldown, Breaker
<1>3. \A s \in Replicas \ {r} : breaker'[s] = breaker[s]
    BY <1>1
<1>4. Cooled' = [Cooled EXCEPT ![r] = TRUE]
    BY <1>2, <1>3 DEF Cooled
<1>5. Streams' = Streams
    BY DEF CooldownElapses, Streams, StreamOf, Holds
<1> QED
    BY <1>1, <1>4, <1>5, SameBreaker DEF Breakers!CooldownElapses, Streams

\* Every step of the gateway is a step of the protocol or none.
LEMMA StepIsProtocolStep ==
    Inv /\ [Next]_vars => [Breakers!ManagerNext]_(Breakers!managerVars)
<1> SUFFICES ASSUME Inv, [Next]_vars
             PROVE  [Breakers!ManagerNext]_(Breakers!managerVars)
    OBVIOUS
<1>1. ASSUME Streams' = Streams, UNCHANGED breaker
      PROVE  UNCHANGED Breakers!managerVars
    BY <1>1 DEF Breakers!managerVars, Streams, Cooled
<1>2. ASSUME NEW q \in Requests, Infer(q)
      PROVE  [Breakers!ManagerNext]_(Breakers!managerVars)
    <2>1. CASE RecordFailedStream(q) \/ RecordEndedStream(q)
        BY <2>1, RecordIsRecord DEF Breakers!ManagerNext
    <2>2. CASE Admit(q) /\ Allows(breaker[local[q].selection])
        <3>1. local[q].selection \in Replicas
            BY <2>2 DEF Admit, Inv, TypeOK
        <3> QED
            BY <2>2, <3>1, AdmitIsAllow DEF Breakers!ManagerNext
    <2>3. CASE \/ Dispatch(q) \/ ForwardToken(q) \/ StreamEnds(q) \/ StreamFails(q)
               \/ Release(q) \/ Notify(q)
        BY <1>1, <2>3, StreamGoesOn
    <2>4. CASE \/ ReturnCancelled(q) \/ Select(q) \/ WaitInQueue(q) \/ LeaveQueue(q)
               \/ Reselect(q) \/ ReturnAfterLoop(q)
               \/ Admit(q) /\ ~Allows(breaker[local[q].selection])
        BY <1>1, <2>4, NoStreamYet
    <2> QED
        BY <1>2, <2>1, <2>2, <2>3, <2>4 DEF Infer
<1>3. ASSUME NEW q \in Requests, ClientCancels(q)
      PROVE  UNCHANGED Breakers!managerVars
    BY <1>1, <1>3 DEF ClientCancels, Streams, StreamOf, Holds
<1>4. ASSUME NEW r \in Replicas, RoutabilityChanges(r)
      PROVE  UNCHANGED Breakers!managerVars
    BY <1>1, <1>4 DEF RoutabilityChanges, Streams, StreamOf, Holds
<1>5. ASSUME NEW r \in Replicas, CooldownElapses(r)
      PROVE  Breakers!ManagerNext
    BY <1>5, CooldownIsCooldown DEF Breakers!ManagerNext
<1>6. CASE UNCHANGED vars
    BY <1>1, <1>6 DEF vars, Streams, StreamOf, Holds
<1> QED
    BY <1>2, <1>3, <1>4, <1>5, <1>6 DEF Next, AllReturned

\* Infer implements BreakerManager's protocol: it asks before each stream and
\* records exactly one outcome after it, for the replica it asked about.
THEOREM InferKeepsBreakerProtocol == Spec => KeepsBreakerProtocol
<1>1. ASSUME Init PROVE Breakers!ManagerInit
    <2>1. \A q \in Requests : StreamOf(q) = Breakers!Idle
        BY <1>1 DEF Init, StreamOf, Holds, Held, Breakers!Idle
    <2>2. \A r \in Replicas : breaker[r] = NewBreaker
        BY <1>1 DEF Init
    <2>3. NewBreaker.state # "OPEN"
        BY DEF NewBreaker
    <2>4. Cooled = [r \in Replicas |-> FALSE]
        BY <2>2, <2>3 DEF Cooled
    <2>5. breaker = [r \in Replicas |-> Breakers!NewBreaker]
        BY <1>1, SameBreaker DEF Init
    <2> QED
        BY <2>1, <2>4, <2>5 DEF Breakers!ManagerInit
<1> QED
    BY <1>1, StepIsProtocolStep, Invariance, PTL
    DEF Spec, KeepsBreakerProtocol, Breakers!ManagerSafety

BreakerTheorems == INSTANCE BreakerManagerProofs WITH
                       Callers <- Requests,
                       call    <- [q \in Requests |-> StreamOf(q)],
                       waited  <- Cooled

\* The manager's theorems hold of the gateway's breakers, whose instance in the
\* model is the same as the one that has the theorems.
LEMMA SameManager ==
    KeepsBreakerProtocol => BreakerTheorems!ManagerSafety
<1>1. Breakers!ManagerInit => BreakerTheorems!ManagerInit
    BY DEF Breakers!ManagerInit, BreakerTheorems!ManagerInit, Breakers!Idle, BreakerTheorems!Idle,
           Breakers!NewBreaker, BreakerTheorems!NewBreaker
<1>2. [Breakers!ManagerNext]_(Breakers!managerVars) => [BreakerTheorems!ManagerNext]_(BreakerTheorems!managerVars)
    BY Zenon
    DEF Breakers!managerVars, BreakerTheorems!managerVars,
        Breakers!ManagerNext, BreakerTheorems!ManagerNext,
        Breakers!AllowRequest, BreakerTheorems!AllowRequest,
        Breakers!DispatchHedged, BreakerTheorems!DispatchHedged,
        Breakers!RecordSuccess, BreakerTheorems!RecordSuccess,
        Breakers!RecordFailure, BreakerTheorems!RecordFailure,
        Breakers!ForgetHedged, BreakerTheorems!ForgetHedged,
        Breakers!CooldownElapses, BreakerTheorems!CooldownElapses,
        Breakers!Idle, BreakerTheorems!Idle,
        Breakers!NewBreaker, BreakerTheorems!NewBreaker,
        Breakers!Allows, BreakerTheorems!Allows,
        Breakers!AfterAllowRequest, BreakerTheorems!AfterAllowRequest,
        Breakers!AfterRecordSuccess, BreakerTheorems!AfterRecordSuccess,
        Breakers!AfterRecordFailure, BreakerTheorems!AfterRecordFailure,
        Breakers!AfterCooldown, BreakerTheorems!AfterCooldown,
        Breakers!Recorded, BreakerTheorems!Recorded,
        Breakers!EvaluateState, BreakerTheorems!EvaluateState,
        Breakers!Open, BreakerTheorems!Open,
        Breakers!Slide, BreakerTheorems!Slide,
        Breakers!Failing, BreakerTheorems!Failing,
        Breakers!Failures, BreakerTheorems!Failures,
        Breakers!Cardinality, BreakerTheorems!Cardinality
<1> QED
    BY <1>1, <1>2, PTL DEF KeepsBreakerProtocol, Breakers!ManagerSafety, BreakerTheorems!ManagerSafety

\* Through Infer a degraded replica gets at most one probe per cooldown, whatever
\* the other threads do between a thread's admission and its outcome.
THEOREM InferProbesOncePerCooldown == Spec => Breakers!ProbePerCooldown
<1>1. BreakerTheorems!BreakerAssumption
    BY BreakerAssumption DEF BreakerAssumption, BreakerTheorems!BreakerAssumption
<1>2. BreakerTheorems!ProbePerCooldown => Breakers!ProbePerCooldown
    <2>1. [\A r \in Replicas :
             (\E c \in Requests : BreakerTheorems!AllowRequest(c, r))
             /\ breaker[r].state # "CLOSED" => Cooled[r]]_(BreakerTheorems!managerVars)
          => [\A r \in Replicas :
                (\E c \in Requests : Breakers!AllowRequest(c, r))
                /\ breaker[r].state # "CLOSED" => Cooled[r]]_(Breakers!managerVars)
        BY Zenon
        DEF Breakers!managerVars, BreakerTheorems!managerVars,
            Breakers!AllowRequest, BreakerTheorems!AllowRequest,
            Breakers!Idle, BreakerTheorems!Idle,
            Breakers!Allows, BreakerTheorems!Allows,
            Breakers!AfterAllowRequest, BreakerTheorems!AfterAllowRequest
    <2> QED
        BY <2>1, PTL DEF Breakers!ProbePerCooldown, BreakerTheorems!ProbePerCooldown
<1> QED
    BY <1>1, <1>2, SameManager, InferKeepsBreakerProtocol,
       BreakerTheorems!SafetyProbesOnce, PTL

-----------------------------------------------------------------------------
(* Infer uses the queue as an admission gate                               *)

QueueTheorems == INSTANCE RequestQueueProofs WITH
                     Threads   <- Requests,
                     MaxCalls  <- Cardinality(Requests) * max_retries,
                     MaxNotify <- Cardinality(Requests) * (max_retries + 2)

\* The queue's theorems hold of the gateway's queue.
LEMMA QueueTheoremsApply == QueueTheorems!QueueAssumption
<1>1. IsFiniteSet(Requests) /\ max_retries \in Nat /\ max_size \in Nat
    BY GatewayAssumption DEF GatewayAssumption
<1>2. Cardinality(Requests) \in Nat
    BY <1>1, FS_CardinalityType
<1>3. Cardinality(Requests) * max_retries \in Nat
    BY <1>1, <1>2
<1>4. Cardinality(Requests) * (max_retries + 2) \in Nat
    BY <1>1, <1>2
<1> QED
    BY <1>1, <1>3, <1>4
    DEF QueueTheorems!QueueAssumption, QueueTheorems!IsFiniteSet, IsFiniteSet

\* In the gateway, a thread's step in the queue is a step of the queue.
LEMMA StepIsQueueStep ==
    [Next]_vars => [Queue!QueueNext]_(Queue!queueVars)
<1> SUFFICES ASSUME [Next]_vars PROVE [Queue!QueueNext]_(Queue!queueVars)
    OBVIOUS
<1>1. ASSUME NEW q \in Requests, WaitInQueue(q) \/ LeaveQueue(q) \/ Notify(q)
      PROVE  Queue!QueueNext
    BY <1>1 DEF WaitInQueue, LeaveQueue, Notify, Queue!QueueNext, Queue!QueueStep
<1>2. UNCHANGED queue => UNCHANGED Queue!queueVars
    BY DEF queue, Queue!queueVars
<1>3. ASSUME NEW q \in Requests, Infer(q), ~(WaitInQueue(q) \/ LeaveQueue(q) \/ Notify(q))
      PROVE  UNCHANGED queue
    BY <1>3
    DEF Infer, ReturnCancelled, Select, Reselect, Admit, Dispatch, ForwardToken,
        StreamEnds, StreamFails, Release, RecordFailedStream, RecordEndedStream,
        ReturnAfterLoop
<1>4. CASE \/ \E q \in Requests : ClientCancels(q)
           \/ \E r \in Replicas : RoutabilityChanges(r) \/ CooldownElapses(r)
           \/ AllReturned \/ UNCHANGED vars
    BY <1>2, <1>4 DEF ClientCancels, RoutabilityChanges, CooldownElapses, AllReturned, vars
<1> QED
    BY <1>1, <1>2, <1>3, <1>4 DEF Next

\* The two instances of the queue, the one that the model runs and the one that
\* has the theorems, are the same.
LEMMA SameQueue ==
    /\ Queue!QueueInit => QueueTheorems!QueueInit
    /\ [Queue!QueueNext]_(Queue!queueVars)
          => [QueueTheorems!QueueNext]_(QueueTheorems!queueVars)
<1>1. Queue!QueueInit => QueueTheorems!QueueInit
    BY DEF Queue!QueueInit, QueueTheorems!QueueInit
<1>2. [Queue!QueueNext]_(Queue!queueVars)
        => [QueueTheorems!QueueNext]_(QueueTheorems!queueVars)
    BY Zenon
    DEF Queue!queueVars, QueueTheorems!queueVars,
        Queue!QueueNext, QueueTheorems!QueueNext,
        Queue!QueueStep, QueueTheorems!QueueStep,
        Queue!Quiesced, QueueTheorems!Quiesced,
        Queue!WaitForCapacity, QueueTheorems!WaitForCapacity,
        Queue!RejectFull, QueueTheorems!RejectFull,
        Queue!PassAtOnce, QueueTheorems!PassAtOnce,
        Queue!GoToSleep, QueueTheorems!GoToSleep,
        Queue!TakeTicket, QueueTheorems!TakeTicket,
        Queue!IsFull, QueueTheorems!IsFull,
        Queue!ServedTicket, QueueTheorems!ServedTicket,
        Queue!Move, QueueTheorems!Move, Queue!Resume, QueueTheorems!Resume,
        Queue!ReturnServed, QueueTheorems!ReturnServed,
        Queue!ReturnUnserved, QueueTheorems!ReturnUnserved,
        Queue!DeadlinePasses, QueueTheorems!DeadlinePasses,
        Queue!ReturnAtDeadline, QueueTheorems!ReturnAtDeadline,
        Queue!SpuriousWake, QueueTheorems!SpuriousWake,
        Queue!NotifyServe, QueueTheorems!NotifyServe,
        Queue!NotifyAll, QueueTheorems!NotifyAll,
        Queue!WakeAll, QueueTheorems!WakeAll,
        Queue!TakeResult, QueueTheorems!TakeResult,
        Queue!Returned, QueueTheorems!Returned
<1> QED
    BY <1>1, <1>2

LEMMA SameGate ==
    /\ QueueTheorems!Gate!GateInit => Queue!Gate!GateInit
    /\ [QueueTheorems!Gate!GateNext]_(QueueTheorems!Gate!gateVars)
          => [Queue!Gate!GateNext]_(Queue!Gate!gateVars)
<1> USE DEF Queue!Waiters, QueueTheorems!Waiters, Queue!Waiting, QueueTheorems!Waiting,
            Cardinality, Queue!Cardinality, QueueTheorems!Cardinality
<1>1. QueueTheorems!Gate!GateInit => Queue!Gate!GateInit
    BY DEF Queue!Gate!GateInit, QueueTheorems!Gate!GateInit
<1>2. [QueueTheorems!Gate!GateNext]_(QueueTheorems!Gate!gateVars)
        => [Queue!Gate!GateNext]_(Queue!Gate!gateVars)
    BY Zenon
    DEF Queue!Gate!GateNext, QueueTheorems!Gate!GateNext,
        Queue!Gate!gateVars, QueueTheorems!Gate!gateVars,
        Queue!Gate!PassThrough, QueueTheorems!Gate!PassThrough,
        Queue!Gate!Release, QueueTheorems!Gate!Release,
        Queue!Gate!Admit, QueueTheorems!Gate!Admit,
        Queue!Gate!Grant, QueueTheorems!Gate!Grant,
        Queue!Gate!Abandon, QueueTheorems!Gate!Abandon,
        Queue!Gate!HasRoom, QueueTheorems!Gate!HasRoom,
        Queue!Gate!PermitLeft, QueueTheorems!Gate!PermitLeft,
        Queue!Gate!Cardinality, QueueTheorems!Gate!Cardinality
<1> QED
    BY <1>1, <1>2

LEMMA UsesQueue == Spec => QueueTheorems!QueueSafety
<1>1. Init => Queue!QueueInit
    BY DEF Init
<1> QED
    BY <1>1, StepIsQueueStep, SameQueue, PTL DEF Spec, QueueTheorems!QueueSafety

\* The threads of Infer together implement AdmissionGate: at most max_size of them
\* are in the queue, and each that goes on to select again has a permit of its own.
THEOREM InferKeepsGate == Spec => KeepsGate
BY UsesQueue, QueueTheorems!SafetyImplementsGate, QueueTheoremsApply, SameGate, PTL
DEF QueueTheorems!ImplementsGate, QueueTheorems!Gate!GateSpec, KeepsGate,
    Queue!Gate!GateSpec

\* No thread of Infer sleeps in the queue through its own notification.
THEOREM InferForgetsNoSleeper == Spec => []Queue!NoSleeperForgotten
<1>1. QueueTheorems!NoSleeperForgotten => Queue!NoSleeperForgotten
    BY DEF QueueTheorems!NoSleeperForgotten, Queue!NoSleeperForgotten,
           QueueTheorems!ServedTicket, Queue!ServedTicket
<1> QED
    BY <1>1, UsesQueue, QueueTheorems!SafetyForgetsNoSleeper, QueueTheoremsApply, PTL
=============================================================================
