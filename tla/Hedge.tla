------------------------------- MODULE Hedge ---------------------------------
(***************************************************************************)
(* GatewayServer::InferHedged (gateway/gateway_server.cpp) together with   *)
(* Infer: some of the gateway's requests ask for hedging.  Their thread    *)
(* starts two racer threads, each of which opens a stream to a replica of  *)
(* its own and reads one token; the first to have one is the winner.       *)
(*                                                                         *)
(* What both paths do alike, to stream tokens, give the slot back and      *)
(* notify the queue, are the steps of module Gateway at the places         *)
(* "dispatch", "stream", "release" and "notify".  A stream that fails      *)
(* after it was won ends like one that is complete: InferHedged does not   *)
(* call Finish(), and what Gateway writes to `streamed' then is not read.  *)
(***************************************************************************)
EXTENDS Gateway

CONSTANTS Hedged,     \* the requests that may ask for hedging, request->hedge()
          Silent      \* the replicas that may accept a stream and never answer

ASSUME HedgeAssumption ==
    /\ IsFiniteSet(Replicas)
    /\ Hedged \subseteq Requests
    /\ Silent \subseteq Replicas
    /\ \A q \in Hedged : max_tokens[q] > 0

VARIABLES race,       \* InferHedged's local variables and its racers
          freed       \* history: how often DecrementActive was called

hedgeVars == <<vars, race, freed>>

Racers == {1, 2}
Other(i) == 3 - i

\* phase is a racer's place: it has yet to read its token, has read it, has won
\* the exchange of winner_set, or has ended.  path says which way the request
\* took: hedge() not asked for or not possible, one replica only, or the race.
NoRace == [path |-> "infer", sel |-> [i \in Racers |-> NoReplica],
           phase |-> [i \in Racers |-> "none"], success |-> [i \in Racers |-> FALSE],
           winner_set |-> FALSE, promise |-> 0, winner_id |-> 0]

HedgeInit ==
    /\ Init
    /\ race = [q \in Requests |-> NoRace]
    /\ freed = 0

-----------------------------------------------------------------------------
(* Entering: Infer's dispatch, and the two selections                      *)

\* At the start of Infer, before the loop.
AtEntry(q) == q \in Hedged /\ pc[q] = "loop" /\ race[q] = NoRace /\ local[q] = Fresh

EnterHedged(q) ==
    /\ AtEntry(q)
    /\ \E hedge \in BOOLEAN :
          \/ /\ hedge /\ Cardinality(alive) >= 2
             /\ GoTo(q, "first choice")
             /\ UNCHANGED race
          \/ /\ ~hedge \/ Cardinality(alive) < 2
             /\ race' = [race EXCEPT ![q].path = "fallback"]
             /\ UNCHANGED pc
    /\ UNCHANGED <<local, client, registry, breaker, queue>>

SelectFirst(q) ==
    /\ pc[q] = "first choice"
    /\ \/ /\ \E r \in Selectable(q) : race' = [race EXCEPT ![q].sel[1] = r]
          /\ GoTo(q, "second choice")
          /\ UNCHANGED <<local, status>>
       \/ /\ Selectable(q) = {}
          /\ Return(q, "RESOURCE_EXHAUSTED")
          /\ UNCHANGED race
    /\ UNCHANGED <<cancelled, delivered, registry, breaker, queue>>

\* Without a second replica the first one is streamed from as Infer would.
SelectSecond(q) ==
    LET others == Selectable(q) \ {race[q].sel[1]} IN
    /\ pc[q] = "second choice"
    /\ \/ /\ \E r \in others :
                race' = [race EXCEPT ![q].sel[2] = r, ![q].path = "race"]
          /\ GoTo(q, "count first")
          /\ UNCHANGED local
       \/ /\ others = {}
          /\ race' = [race EXCEPT ![q].path = "single"]
          /\ local' = [local EXCEPT ![q].selection = race[q].sel[1]]
          /\ GoTo(q, "dispatch")
    /\ UNCHANGED <<client, registry, breaker, queue>>

\* "infer" requests that ask for hedging never enter the loop without passing
\* EnterHedged; everybody else runs Infer, up to the recording of an outcome.
RunsInfer(q) ==
    /\ ~AtEntry(q)
    /\ race[q].path \in {"single", "race"} => pc[q] # "record"

-----------------------------------------------------------------------------
(* The race                                                                *)

\* Decrements and increments of InferHedged itself.
Count(q, r, from, to) ==
    /\ pc[q] = from
    /\ active' = [active EXCEPT ![r] = @ + 1]
    /\ GoTo(q, to)
    /\ UNCHANGED <<local, client, alive, breaker, queue>>

Uncount(q, r, from, to) ==
    /\ pc[q] = from
    /\ active' = [active EXCEPT ![r] = @ - 1]
    /\ GoTo(q, to)
    /\ UNCHANGED <<local, client, alive, breaker, queue>>

CountFirst(q) ==
    /\ Count(q, race[q].sel[1], "count first", "count second")
    /\ UNCHANGED race

\* IncrementActive for the second replica; then the racers start.
CountSecond(q) ==
    /\ Count(q, race[q].sel[2], "count second", "race")
    /\ race' = [race EXCEPT ![q].phase = [i \in Racers |-> "reading"]]

\* race_fn: Read returns a token, or FALSE because the stream has ended.
ReadToken(q, i) ==
    /\ race[q].phase[i] = "reading"
    /\ race' = [race EXCEPT ![q].phase[i] = "read", ![q].success[i] = TRUE]
    /\ UNCHANGED vars

ReadFails(q, i) ==
    /\ race[q].phase[i] = "reading"
    /\ race' = [race EXCEPT ![q].phase[i] = "ended"]
    /\ UNCHANGED vars

\* Mutant of Exchange: the flag is only read.
LoadFlag(q, i) ==
    /\ race[q].phase[i] = "read"
    /\ race' = [race EXCEPT ![q].phase[i] = IF race[q].winner_set THEN "ended" ELSE "won"]
    /\ UNCHANGED vars

\* flag->compare_exchange_strong.
Exchange(q, i) ==
    /\ race[q].phase[i] = "read"
    /\ race' = [race EXCEPT
            ![q].phase[i] = IF race[q].winner_set THEN "ended" ELSE "won",
            ![q].winner_set = TRUE]
    /\ UNCHANGED vars

SetPromise(q, i) ==
    /\ race[q].phase[i] = "won"
    /\ race' = [race EXCEPT ![q].phase[i] = "ended", ![q].promise = i]
    /\ UNCHANGED vars

\* winner_future.wait_for: the promise is set, or ten seconds have passed.
WaitForWinner(q) ==
    /\ pc[q] = "race"
    /\ race' = [race EXCEPT ![q].winner_id = race[q].promise]
    /\ GoTo(q, "join")
    /\ UNCHANGED <<local, client, registry, breaker, queue>>

JoinRacers(q) ==
    /\ pc[q] = "join"
    /\ \A i \in Racers : race[q].phase[i] = "ended"
    /\ GoTo(q, IF race[q].winner_id = 0 THEN "drop first" ELSE "drop loser")
    /\ UNCHANGED <<local, client, registry, breaker, queue, race>>

-----------------------------------------------------------------------------
(* Neither replica has won in time                                         *)

\* queue_.NotifyCapacityAvailable().
NotifyFor(q, from, to) ==
    /\ pc[q] = from
    /\ \/ Queue!NotifyServe(q) /\ UNCHANGED pc
       \/ Queue!NotifyAll(q) /\ GoTo(q, to)
    /\ UNCHANGED <<local, client, registry, breaker>>

DropFirst(q) ==
    /\ Uncount(q, race[q].sel[1], "drop first", "drop second")
    /\ UNCHANGED race

DropSecond(q) ==
    /\ Uncount(q, race[q].sel[2], "drop second", "notify twice")
    /\ UNCHANGED race

\* Mutant of NotifyBoth: one notification for two slots.
NotifyOnce(q) ==
    /\ NotifyFor(q, "notify twice", "lost")
    /\ UNCHANGED race

NotifyBoth(q) ==
    /\ \/ NotifyFor(q, "notify twice", "notify again")
       \/ NotifyFor(q, "notify again", "lost")
    /\ UNCHANGED race

ReturnLost(q) ==
    /\ pc[q] = "lost"
    /\ Return(q, "UNAVAILABLE")
    /\ UNCHANGED <<cancelled, delivered, registry, breaker, queue, race>>

-----------------------------------------------------------------------------
(* The winner's stream                                                     *)

Winner(q) == race[q].sel[race[q].winner_id]
Loser(q) == race[q].sel[Other(race[q].winner_id)]

\* Mutant of DropLoser: winner and loser are mixed up.
DropWinner(q) ==
    /\ Uncount(q, Winner(q), "drop loser", "notify loser")
    /\ UNCHANGED race

\* The loser is cancelled and loses its slot.
DropLoser(q) ==
    /\ Uncount(q, Loser(q), "drop loser", "notify loser")
    /\ UNCHANGED race

NotifyLoser(q) ==
    /\ NotifyFor(q, "notify loser", "record winner")
    /\ UNCHANGED race

Success(q, r, from, to) ==
    /\ pc[q] = from
    /\ breaker' = [breaker EXCEPT ![r] = AfterRecordSuccess(@)]
    /\ GoTo(q, to)
    /\ UNCHANGED <<local, client, registry, queue, race>>

RecordWinner(q) ==
    Success(q, Winner(q), "record winner",
            IF race[q].success[Other(race[q].winner_id)] THEN "record loser" ELSE "first token")

RecordLoser(q) == Success(q, Loser(q), "record loser", "first token")

\* Mutant of WriteFirst: the winner is asked again, from the first token on.
WriteFirstAndRestart(q) ==
    /\ pc[q] = "first token"
    /\ delivered' = [delivered EXCEPT ![q] = IF cancelled[q] THEN @ ELSE Append(@, 0)]
    /\ local' = [local EXCEPT ![q].selection = Winner(q)]
    /\ GoTo(q, "stream")
    /\ UNCHANGED <<cancelled, status, registry, breaker, queue, race>>

\* writer->Write of the token the winner has read; what it returns is ignored.
WriteFirst(q) ==
    /\ pc[q] = "first token"
    /\ delivered' = [delivered EXCEPT ![q] = IF cancelled[q] THEN @ ELSE Append(@, 0)]
    /\ local' = [local EXCEPT ![q].selection = Winner(q), ![q].streamed = 1]
    /\ GoTo(q, "stream")
    /\ UNCHANGED <<cancelled, status, registry, breaker, queue, race>>

\* The stream is over and its slot given back.
ReturnWon(q) ==
    /\ pc[q] = "record"
    /\ race[q].path = "race"
    /\ Return(q, "OK")
    /\ UNCHANGED <<cancelled, delivered, registry, breaker, queue, race>>

\* The same when there was one replica only: here the outcome is recorded.
ReturnSingle(q) ==
    LET r == local[q].selection IN
    /\ pc[q] = "record"
    /\ race[q].path = "single"
    /\ \/ /\ local[q].streamed >= 0
          /\ breaker' = [breaker EXCEPT ![r] = AfterRecordSuccess(@)]
          /\ Return(q, "OK")
       \/ /\ local[q].streamed < 0
          /\ breaker' = [breaker EXCEPT ![r] = AfterRecordFailure(@)]
          /\ Return(q, "UNAVAILABLE")
    /\ UNCHANGED <<cancelled, delivered, registry, queue, race>>

-----------------------------------------------------------------------------
InferHedged(q) ==
    \/ EnterHedged(q) \/ SelectFirst(q) \/ SelectSecond(q)
    \/ CountFirst(q) \/ CountSecond(q) \/ WaitForWinner(q) \/ JoinRacers(q)
    \/ DropFirst(q) \/ DropSecond(q) \/ NotifyBoth(q) \/ ReturnLost(q)
    \/ DropLoser(q) \/ NotifyLoser(q) \/ RecordWinner(q) \/ RecordLoser(q)
    \/ WriteFirst(q) \/ ReturnWon(q) \/ ReturnSingle(q)

Reads(q, i) == ReadToken(q, i) \/ ReadFails(q, i)
Signals(q, i) == Exchange(q, i) \/ SetPromise(q, i)

HandlerStep(q) == InferHedged(q) \/ (RunsInfer(q) /\ Infer(q) /\ UNCHANGED race)

EnvironmentStep ==
    /\ \/ \E q \in Requests : ClientCancels(q)
       \/ \E r \in Replicas : RoutabilityChanges(r) \/ CooldownElapses(r)
       \/ AllReturned
    /\ UNCHANGED race

CountFreed == freed' = freed + Cardinality({r \in Replicas : active'[r] < active[r]})

HedgeNext ==
    /\ \/ \E q \in Requests :
            HandlerStep(q) \/ \E i \in Racers : Reads(q, i) \/ Signals(q, i)
       \/ EnvironmentStep
    /\ CountFreed

\* The handlers' threads and the racers are scheduled, ten seconds pass, and a
\* Read ends with a token or without, except on a replica that stays silent: no
\* deadline is set for it.
HedgeFairness ==
    /\ \A q \in Requests : WF_hedgeVars(HandlerStep(q) /\ CountFreed)
    /\ \A q \in Hedged, i \in Racers :
        WF_hedgeVars((Signals(q, i) \/ (race[q].sel[i] \notin Silent /\ Reads(q, i)))
                        /\ CountFreed)

HedgeSpec == HedgeInit /\ [][HedgeNext]_hedgeVars /\ HedgeFairness

-----------------------------------------------------------------------------
(* Properties                                                              *)

RacePlaces == {"first choice", "second choice", "count first", "count second", "race",
               "join", "drop first", "drop second", "notify twice", "notify again", "lost",
               "drop loser", "notify loser", "record winner", "record loser", "first token"}
Paths == {"infer", "fallback", "single", "race"}
Phases == {"none", "reading", "read", "won", "ended"}
Races == [path : Paths, sel : [Racers -> Replicas \cup {NoReplica}],
          phase : [Racers -> Phases], success : [Racers -> BOOLEAN],
          winner_set : BOOLEAN, promise : {0} \cup Racers, winner_id : {0} \cup Racers]

HedgeTypeOK ==
    /\ pc \in [Requests -> Places \cup RacePlaces]
    /\ local \in [Requests -> Locals]
    /\ alive \subseteq Replicas
    /\ active \in [Replicas -> Nat]
    /\ breaker \in [Replicas -> Breaker]
    /\ race \in [Requests -> Races]
    /\ cancelled \in [Requests -> BOOLEAN]
    /\ status \in [Requests -> Statuses]
    /\ delivered \in [Requests -> Seq(Nat)]
    /\ Queue!QueueTypeOK
    /\ freed \in Nat

\* The racers' slots that are counted in active: those of both between the first
\* increment and the decision, then the winner's until it is streamed from.
BothCounted == {"race", "join", "drop first", "drop loser"}
WinnerCounted == {"notify loser", "record winner", "record loser", "first token"}

HoldsSlot(q, i) ==
    \/ pc[q] \in BothCounted
    \/ pc[q] = "count second" /\ i = 1
    \/ pc[q] = "drop second" /\ i = 2
    \/ pc[q] \in WinnerCounted /\ race[q].winner_id = i

RacingOn(r) ==
    {x \in Requests \X Racers : HoldsSlot(x[1], x[2]) /\ race[x[1]].sel[x[2]] = r}

\* The registry's counter is exactly the number of streams open on the replica,
\* of Infer and of both racers, whichever of them wins, loses, fails or answers
\* after the ten seconds.
RaceCountsExact ==
    \A r \in Replicas :
        active[r] = Cardinality(OnReplica(r)) + Cardinality(RacingOn(r))

\* The slots that have been given back and not been told to the queue yet: a
\* request owes a notification until its call has advanced the ticket, and two
\* after a race that is given up.
Owes(q, i) ==
    \/ i = 1 /\ pc[q] \in {"notify", "notify loser", "notify again"} /\ qpc[q] = "out"
    \/ i = 1 /\ pc[q] \in {"drop second", "notify twice"}
    \/ i = 2 /\ pc[q] = "notify twice" /\ qpc[q] = "out"

Untold == {x \in Requests \X Racers : Owes(x[1], x[2])}

\* Every slot that is given back, by whatever path of Infer or InferHedged, is
\* told to the queue, once: a request that waits for a slot is not forgotten,
\* and none is let through twice for the same slot.
EverySlotTold == freed = serving_ticket + Cardinality(Untold)

\* The calls that count as streams of racer i for the breaker of its replica, from
\* its dispatch, which asks no breaker, to the recording of its success, or to
\* where it is dropped without one.
Racing(q, i) ==
    \/ pc[q] \in {"race", "join", "drop loser"}
    \/ pc[q] \in {"count second", "drop first"} /\ i = 1
    \/ pc[q] \in {"drop first", "drop second"} /\ i = 2
    \/ pc[q] \in {"notify loser", "record winner"} /\ i = race[q].winner_id
    \/ /\ pc[q] \in {"notify loser", "record winner", "record loser"}
       /\ i # race[q].winner_id
       /\ race[q].success[i]

CallOf(q, i) ==
    IF Racing(q, i) THEN [kind |-> "hedged", replica |-> race[q].sel[i]]
    ELSE IF i = 2 \/ race[q].path = "race" \/ ~Holds(q) THEN [kind |-> "none"]
    ELSE IF race[q].path = "single"
         THEN [kind |-> "hedged", replica |-> local[q].selection]
    ELSE StreamOf(q)

RaceBreakers == INSTANCE BreakerManager WITH
                    Callers <- Requests \X Racers,
                    call    <- [x \in Requests \X Racers |-> CallOf(x[1], x[2])],
                    waited  <- Cooled

\* With hedging, too, the breakers are used as BreakerManager says: a racer is
\* recorded at most once, as a success and for its own replica, whoever wins; so
\* that what holds of breakers there holds here, and a race does no more than to
\* add stale outcomes.
RaceKeepsBreakerProtocol == RaceBreakers!ManagerSafety

\* Nobody goes on to select on air: behind every request that the queue has let
\* through there is a slot of its own that some request has given back.
GrantsBackedBySlots == Cardinality(granted) <= freed

\* The promise is set at most once (set_value throws the second time), by a
\* racer that has a token; a request never streams from a racer that has none.
OneWinner ==
    \A q \in Requests :
        /\ Cardinality({i \in Racers : race[q].phase[i] = "won"})
             + (IF race[q].promise = 0 THEN 0 ELSE 1) <= 1
        /\ race[q].promise # 0 => race[q].success[race[q].promise]

\* A hedged request is answered from one stream, in order and without a token
\* twice, although two streams produce tokens for it; and a race that is given
\* up leaves no trace: a client that is told UNAVAILABLE has been sent nothing,
\* also when a racer had its token after the wait.
HedgedAnswer ==
    \A q \in Requests :
        /\ race[q].path \in {"single", "race"} =>
              \A k \in DOMAIN delivered[q] : delivered[q][k] = k - 1
        /\ race[q].path = "race" /\ status[q] = "UNAVAILABLE" => delivered[q] = <<>>

\* gateway_server.h:64-65 says a hedged request streams from whichever replica
\* produces the first token faster; here: once the wait has ended with a winner.
WinnerIsStreamed ==
    \A q \in Requests :
        race[q].winner_id # 0 ~> (delivered[q] # <<>> \/ cancelled[q])
=============================================================================
