---------------------------- MODULE RollingUpdate ----------------------------
(***************************************************************************)
(* A rolling update while clients and gossip carry on: RollingUpdater      *)
(* (gateway/rolling_updater.cpp) against the registry, the hash ring, the  *)
(* gateway's membership callback (gateway/main.cpp) run by its two gossip  *)
(* threads, and the replicas' Generate and Drain handlers                  *)
(* (replica/replica_server.cpp).  A step is one critical section or one    *)
(* access to an atomic; RebuildRing is two, a snapshot and a swap.         *)
(*                                                                         *)
(* The gossip protocol is an environment here: the gateway's list may come *)
(* to hold any state of any replica.  Capacity and circuit breakers are    *)
(* the matter of Gateway, and left out.                                    *)
(***************************************************************************)
EXTENDS Integers, Sequences, FiniteSets

CONSTANTS Replicas,       \* replica ids
          replica_ids,    \* the sequence given to Update
          GossipThreads,  \* the gateway's sender and receiver thread
          Calls,          \* Generate calls that gateway threads make, over and over
          Reported,       \* bound: the replicas gossip says something new about
          Volatile        \* bound: the replicas that may crash

None == "none"

ASSUME UpdateAssumption ==
    /\ IsFiniteSet(Calls)
    /\ None \notin Replicas
    /\ replica_ids \in Seq(Replicas)
    /\ replica_ids # <<>>
    /\ Reported \subseteq Replicas
    /\ Volatile \subseteq Replicas

VARIABLES
    gossip_state,  \* registry: gossip_state of each entry, or "NONE"
    draining,      \* registry: the entries whose draining flag is set
    ring,          \* the replicas on the hash ring
    member,        \* the gateway's membership list: the state of each replica
    gossip,        \* each gossip thread: its place in the callback
    updater,       \* the thread that runs Update
    process,       \* each replica's process
    refusing,      \* the processes whose draining_ is set
    active,        \* active_requests_ of each process
    call           \* each call: its place, and its replica

registry == <<gossip_state, draining>>
replica  == <<process, refusing, active>>
vars == <<registry, ring, member, gossip, updater, replica, call>>

MemberState == {"ALIVE", "SUSPECT", "DEAD"}

Idle == [at |-> "idle", id |-> None, state |-> "NONE", changed |-> FALSE, snapshot |-> {}]

\* k is the position in replica_ids.  Histories: marked, SetDraining found an
\* entry; fresh, the replicas that this Update has restarted; result, what the
\* last one returned.
UpdaterAt(place) == [at |-> place, next |-> "idle", k |-> 1, snapshot |-> {},
                     marked |-> FALSE, fresh |-> {}, result |-> "none"]

Call(place, r) == [at |-> place, id |-> r]

\* The gateway has discovered some replicas.
Init ==
    /\ member \in [Replicas -> {"NONE", "ALIVE"}]
    /\ gossip_state = member
    /\ draining = {}
    /\ ring = {r \in Replicas : member[r] = "ALIVE"}
    /\ gossip = [t \in GossipThreads |-> Idle]
    /\ updater = UpdaterAt("idle")
    /\ process = [r \in Replicas |-> "running"]
    /\ refusing = {}
    /\ active = [r \in Replicas |-> 0]
    /\ call = [c \in Calls |-> Call("idle", None)]

-----------------------------------------------------------------------------
(* The registry and the ring                                               *)

Routable(r) == gossip_state[r] \notin {"NONE", "DEAD"} /\ r \notin draining

GetAliveReplicas == {r \in Replicas : Routable(r)}

\* Mutant of SelectByConsistentHash: the ring is trusted.
SelectFromRing == ring

\* The ring may be out of date: every point is looked up in the registry.
SelectByConsistentHash == {r \in ring : Routable(r)}

SelectReplica == IF SelectByConsistentHash # {} THEN SelectByConsistentHash
                 ELSE GetAliveReplicas

-----------------------------------------------------------------------------
(* Gossip                                                                  *)

\* A gossip thread has changed the list, and let go of its lock; a new member
\* counts as one that was DEAD.
Before(r) == IF member[r] = "NONE" THEN "DEAD" ELSE member[r]

Learn(t, r) ==
    /\ gossip[t].at = "idle"
    /\ r \in Reported
    /\ \E s \in MemberState :
          /\ member' = [member EXCEPT ![r] = s]
          /\ gossip' = [gossip EXCEPT ![t] =
                           [Idle EXCEPT !.at = "read", !.id = r,
                                        !.changed = s # Before(r)]]
    /\ UNCHANGED <<registry, ring, updater, replica, call>>

\* The callback looks the member up, and may find a later state.
GetMember(t) ==
    /\ gossip[t].at = "read"
    /\ gossip' = [gossip EXCEPT ![t].at = "report", ![t].state = member[gossip[t].id]]
    /\ UNCHANGED <<registry, ring, member, updater, replica, call>>

\* Mutant of UpdateFromGossip: the entry is replaced.
ReplaceFromGossip(t) ==
    /\ gossip[t].at = "report"
    /\ gossip_state' = [gossip_state EXCEPT ![gossip[t].id] = gossip[t].state]
    /\ draining' = draining \ {gossip[t].id}
    /\ gossip' = [gossip EXCEPT ![t] = IF @.changed THEN [@ EXCEPT !.at = "snapshot"] ELSE Idle]
    /\ UNCHANGED <<ring, member, updater, replica, call>>

UpdateFromGossip(t) ==
    /\ gossip[t].at = "report"
    /\ gossip_state' = [gossip_state EXCEPT ![gossip[t].id] = gossip[t].state]
    /\ gossip' = [gossip EXCEPT ![t] = IF @.changed THEN [@ EXCEPT !.at = "snapshot"] ELSE Idle]
    /\ UNCHANGED <<draining, ring, member, updater, replica, call>>

TakeSnapshot(t) ==
    /\ gossip[t].at = "snapshot"
    /\ gossip' = [gossip EXCEPT ![t].at = "swap", ![t].snapshot = GetAliveReplicas]
    /\ UNCHANGED <<registry, ring, member, updater, replica, call>>

SwapRing(t) ==
    /\ gossip[t].at = "swap"
    /\ ring' = gossip[t].snapshot
    /\ gossip' = [gossip EXCEPT ![t] = Idle]
    /\ UNCHANGED <<registry, member, updater, replica, call>>

GossipStep(t) ==
    \/ \E r \in Replicas : Learn(t, r)
    \/ GetMember(t) \/ UpdateFromGossip(t) \/ TakeSnapshot(t) \/ SwapRing(t)

-----------------------------------------------------------------------------
(* Calls to Generate                                                       *)

GoCall(c, place) == call' = [call EXCEPT ![c].at = place]

\* A gateway thread chooses a replica, and is about to call it.  It has chosen when it
\* has looked the replica up, or, in the second tier, has copied the entries that the
\* choice is then made from; it may be long before it calls.
Select(c) ==
    /\ call[c].at = "idle"
    /\ \E r \in SelectReplica : call' = [call EXCEPT ![c] = Call("sent", r)]
    /\ UNCHANGED <<registry, ring, member, gossip, updater, replica>>

\* Mutant of Generate: draining_ is not looked at.
GenerateAnyway(c) ==
    /\ call[c].at = "sent"
    /\ process[call[c].id] = "running"
    /\ GoCall(c, "accepted")
    /\ UNCHANGED <<registry, ring, member, gossip, updater, replica>>

\* The handler has read draining_, and not yet counted the call.
Generate(c) ==
    /\ call[c].at = "sent"
    /\ process[call[c].id] = "running"
    /\ call[c].id \notin refusing
    /\ GoCall(c, "accepted")
    /\ UNCHANGED <<registry, ring, member, gossip, updater, replica>>

\* Nobody listens, the replica drains, or it injects a fault.
Refused(c) ==
    /\ call[c].at = "sent"
    /\ GoCall(c, "failed")
    /\ UNCHANGED <<registry, ring, member, gossip, updater, replica>>

Count(c) ==
    /\ call[c].at = "accepted"
    /\ active' = [active EXCEPT ![call[c].id] = @ + 1]
    /\ GoCall(c, "generating")
    /\ UNCHANGED <<registry, ring, member, gossip, updater, process, refusing>>

\* Mutant of EndGenerate: a cancelled call stays counted.
EndUncounted(c) ==
    /\ call[c].at = "generating"
    /\ \/ GoCall(c, "done") /\ active' = [active EXCEPT ![call[c].id] = @ - 1]
       \/ GoCall(c, "failed") /\ UNCHANGED active
    /\ UNCHANGED <<registry, ring, member, gossip, updater, process, refusing>>

\* The last token is written, or the client is gone.
EndGenerate(c) ==
    /\ call[c].at = "generating"
    /\ active' = [active EXCEPT ![call[c].id] = @ - 1]
    /\ \/ GoCall(c, "done")
       \/ GoCall(c, "failed")
    /\ UNCHANGED <<registry, ring, member, gossip, updater, process, refusing>>

\* The gateway thread turns to its next attempt, or to its next request.
Settle(c) ==
    /\ call[c].at \in {"done", "failed"}
    /\ call' = [call EXCEPT ![c] = Call("idle", None)]
    /\ UNCHANGED <<registry, ring, member, gossip, updater, replica>>

CallStep(c) ==
    \/ Select(c) \/ Generate(c) \/ Refused(c) \/ Count(c) \/ EndGenerate(c) \/ Settle(c)

-----------------------------------------------------------------------------
(* The update                                                              *)

This == replica_ids[updater.k]

GoUpdater(place) == updater' = [updater EXCEPT !.at = place]

\* RebuildRing(), and then on to the place next.
Rebuild(next) == [updater EXCEPT !.at = "snapshot", !.next = next]

InGenerate(r) == {c \in Calls : call[c].id = r /\ call[c].at \in {"accepted", "generating"}}

\* The process of r ends, and cuts its streams off.
Ends(r, how) ==
    /\ process' = [process EXCEPT ![r] = how]
    /\ active' = [active EXCEPT ![r] = 0]
    /\ refusing' = refusing \ {r}
    /\ call' = [c \in Calls |-> IF c \in InGenerate(r) THEN Call("failed", r) ELSE call[c]]

Crash(r) ==
    /\ r \in Volatile
    /\ process[r] = "running"
    /\ Ends(r, "crashed")
    /\ UNCHANGED <<registry, ring, member, gossip, updater>>

BeginUpdate ==
    /\ updater.at = "idle"
    /\ updater' = UpdaterAt("mark")
    /\ UNCHANGED <<registry, ring, member, gossip, replica, call>>

\* DrainReplica, step 1.
MarkDraining ==
    /\ updater.at = "mark"
    /\ IF gossip_state[This] = "NONE"
       THEN updater' = Rebuild("drain") /\ UNCHANGED draining
       ELSE /\ updater' = [Rebuild("drain") EXCEPT !.marked = TRUE]
            /\ draining' = draining \cup {This}
    /\ UNCHANGED <<gossip_state, ring, member, gossip, replica, call>>

UpdaterSnapshot ==
    /\ updater.at = "snapshot"
    /\ updater' = [updater EXCEPT !.at = "swap", !.snapshot = GetAliveReplicas]
    /\ UNCHANGED <<registry, ring, member, gossip, replica, call>>

UpdaterSwap ==
    /\ updater.at = "swap"
    /\ ring' = updater.snapshot
    /\ updater' = [updater EXCEPT !.at = updater.next, !.snapshot = {}]
    /\ UNCHANGED <<registry, member, gossip, replica, call>>

\* DrainReplica, step 2: the RPC reaches the handler, which refuses new calls.
SendDrain ==
    /\ updater.at = "drain"
    /\ gossip_state[This] # "NONE"
    /\ process[This] = "running"
    /\ refusing' = refusing \cup {This}
    /\ GoUpdater("draining")
    /\ UNCHANGED <<registry, ring, member, gossip, process, active, call>>

\* The handler finds no active request.
Drained ==
    /\ updater.at = "draining"
    /\ process[This] = "running"
    /\ active[This] = 0
    /\ GoUpdater("stop")
    /\ UNCHANGED <<registry, ring, member, gossip, replica, call>>

\* There is no address to send the RPC to, or the process is gone: the replica counts
\* as drained.
NothingToDrain ==
    /\ \/ updater.at = "drain" /\ gossip_state[This] = "NONE"
       \/ updater.at \in {"drain", "draining"} /\ process[This] # "running"
    /\ GoUpdater("stop")
    /\ UNCHANGED <<registry, ring, member, gossip, replica, call>>

\* The RPC is under way, whether or not it has reached the handler.
DrainCalled ==
    \/ updater.at = "drain" /\ gossip_state[This] # "NONE"
    \/ updater.at = "draining"

\* The RPC fails, although the replica runs: it counts as drained all the same.
DrainRpcFails ==
    /\ DrainCalled
    /\ process[This] = "running"
    /\ GoUpdater("stop")
    /\ UNCHANGED <<registry, ring, member, gossip, replica, call>>

\* Mutant of DrainTimeout: the update goes on with the next replica.
DrainTimeoutSkips ==
    /\ DrainCalled
    /\ draining' = draining \ {This}
    /\ updater' = [Rebuild("rejoin") EXCEPT !.marked = FALSE]
    /\ UNCHANGED <<gossip_state, ring, member, gossip, replica, call>>

\* The deadline of the RPC: Update un-drains the entry and returns false.  A
\* process that the RPC had reached still refuses.
DrainTimeout ==
    /\ DrainCalled
    /\ draining' = draining \ {This}
    /\ updater' = [Rebuild("idle") EXCEPT !.marked = FALSE, !.result = "failed"]
    /\ UNCHANGED <<gossip_state, ring, member, gossip, replica, call>>

Stop ==
    /\ updater.at = "stop"
    /\ Ends(This, "stopped")
    /\ GoUpdater("restart")
    /\ UNCHANGED <<registry, ring, member, gossip>>

Restart ==
    /\ updater.at = "restart"
    /\ process' = [process EXCEPT ![This] = "running"]
    /\ updater' = [updater EXCEPT !.at = "clear", !.fresh = @ \cup {This}]
    /\ UNCHANGED <<registry, ring, member, gossip, refusing, active, call>>

ClearDraining ==
    /\ updater.at = "clear"
    /\ draining' = draining \ {This}
    /\ updater' = [Rebuild("rejoin") EXCEPT !.marked = FALSE]
    /\ UNCHANGED <<gossip_state, ring, member, gossip, replica, call>>

\* WaitForRejoin sees the replica ALIVE, or gives up: Update goes on either way.
Rejoin ==
    /\ updater.at = "rejoin"
    /\ updater' = IF updater.k < Len(replica_ids)
                  THEN [updater EXCEPT !.at = "mark", !.k = @ + 1]
                  ELSE [updater EXCEPT !.at = "idle", !.result = "ok"]
    /\ UNCHANGED <<registry, ring, member, gossip, replica, call>>

UpdaterStep ==
    \/ BeginUpdate \/ MarkDraining \/ UpdaterSnapshot \/ UpdaterSwap \/ SendDrain
    \/ Drained \/ NothingToDrain \/ DrainRpcFails \/ DrainTimeout \/ Stop \/ Restart
    \/ ClearDraining \/ Rejoin

-----------------------------------------------------------------------------
Next ==
    \/ UpdaterStep
    \/ \E t \in GossipThreads : GossipStep(t)
    \/ \E c \in Calls : CallStep(c)
    \/ \E r \in Replicas : Crash(r)

Spec == Init /\ [][Next]_vars

\* A handler gets to run, a stream of finitely many tokens ends, and so does
\* the handler's polling once there is nothing to wait for.
Fairness ==
    /\ \A c \in Calls : WF_vars(Count(c)) /\ WF_vars(EndGenerate(c))
    /\ WF_vars(Drained \/ NothingToDrain)

FairSpec == Spec /\ Fairness

-----------------------------------------------------------------------------
(* Properties                                                              *)

GossipPlaces == {"idle", "read", "report", "snapshot", "swap"}
UpdaterPlaces == {"idle", "mark", "snapshot", "swap", "drain", "draining", "stop",
                  "restart", "clear", "rejoin"}
CallPlaces == {"idle", "sent", "accepted", "generating", "done", "failed"}

RollingTypeOK ==
    /\ gossip_state \in [Replicas -> MemberState \cup {"NONE"}]
    /\ draining \subseteq Replicas
    /\ ring \subseteq Replicas
    /\ member \in [Replicas -> MemberState \cup {"NONE"}]
    /\ gossip \in [GossipThreads ->
                    [at : GossipPlaces, id : Replicas \cup {None},
                     state : MemberState \cup {"NONE"}, changed : BOOLEAN,
                     snapshot : SUBSET Replicas]]
    /\ \A t \in GossipThreads : gossip[t].at # "idle" => gossip[t].id \in Replicas
    /\ updater \in [at : UpdaterPlaces, next : {"drain", "rejoin", "idle"},
                    k : DOMAIN replica_ids, snapshot : SUBSET Replicas,
                    marked : BOOLEAN, fresh : SUBSET Replicas,
                    result : {"none", "ok", "failed"}]
    /\ process \in [Replicas -> {"running", "stopped", "crashed"}]
    /\ refusing \subseteq Replicas
    /\ active \in [Replicas -> Nat]
    /\ call \in [Calls -> [at : CallPlaces, id : Replicas \cup {None}]]
    /\ \A c \in Calls : call[c].at # "idle" => call[c].id \in Replicas

\* The registry keeps out of routing the replica that the updater is at, for
\* as long as it is at it, and no other: whatever gossip reports of it in the
\* meantime, also after its restart, the flag stays until the updater clears it
\* (rolling_updater.cpp:48-51), and no way out of an update leaves one set.
OneDraining == draining = IF updater.marked THEN {This} ELSE {}

\* A stale ring does no harm: a gossip thread that took its snapshot early may
\* put a draining replica back on the ring, and yet no lookup in the
\* registry yields it from the moment it is marked until the update is through with it:
\* the only calls it still gets are those chosen before.
NoCallWhileUpdated ==
    [][\A c \in Calls :
         updater.marked /\ call[c].at = "idle" /\ call'[c].at = "sent"
             => call'[c].id # This]_vars

\* active_requests_ counts the streams the process serves, over every end of a
\* stream and every restart; it is what Drain waits for.
CountExact ==
    \A r \in Replicas :
        active[r] = Cardinality({c \in Calls : call[c] = Call("generating", r)})

\* What Update promises when it returns true: it has restarted every replica it
\* was given, each accepts calls, and none is kept out of routing as draining; also
\* after an earlier Update that timed out and left a replica refusing.  (Gossip may
\* still take one for dead: WaitForRejoin gives up in the end.)
UpdatedAll ==
    updater.at = "idle" /\ updater.result = "ok" =>
        \A k \in DOMAIN replica_ids :
            /\ replica_ids[k] \in updater.fresh
            /\ replica_ids[k] \notin draining \cup refusing
            /\ process[replica_ids[k]] \in {"running", "crashed"}

\* A drain comes to an end by itself, without its deadline: a replica that
\* refuses new calls gets rid of its old ones, although clients keep calling
\* (replica_server.cpp:65-67 and 112).
DrainCompletes == updater.at = "draining" ~> updater.at # "draining"

\* Once the replica refuses, the streams that Drain waits for only get fewer,
\* whatever clients send and gossip reports: a call that was on its way when the
\* replica was marked is refused, and a crash does not let new ones in.
DrainOnlyShrinks ==
    [][updater.at = "draining" /\ updater'.at = "draining"
         => InGenerate(This)' \subseteq InGenerate(This)]_vars

\* rolling_updater.cpp:78-81 says that the Drain RPC returns only when all requests in
\* flight have finished, so that it is safe to stop the replica afterwards.
DrainedIsIdle == [][Drained => InGenerate(This) = {}]_vars
=============================================================================
