--------------------------- MODULE MembershipList ---------------------------
(***************************************************************************)
(* class MembershipList of gossip/membership_list.{h,cpp}: the methods as  *)
(* functions on one node's list.  Each method runs under the list's mutex, *)
(* so a call is one step of whoever makes it.                              *)
(*                                                                         *)
(* An entry's address is not part of it: every member has one for good.    *)
(* The load metadata that travels with an update, and suspect_time, are    *)
(* left out.                                                               *)
(***************************************************************************)
EXTENDS Integers, Sequences

CONSTANTS Members,               \* member ids
          kMaxPiggybackSends,    \* an entry is dropped after this many sends
          kMaxPiggybackBuffer,   \* entries the buffer holds
          max_piggyback_updates  \* entries attached to one message

ASSUME ListAssumption ==
    /\ kMaxPiggybackSends \in Nat \ {0}
    /\ kMaxPiggybackBuffer \in Nat \ {0}
    /\ max_piggyback_updates \in Nat \ {0}

\* The order in which, at one incarnation, a state overrides another; a member
\* that is not in the list is overridden by any update.
Strength == [UNKNOWN |-> -1, ALIVE |-> 0, SUSPECT |-> 1, DEAD |-> 2]

MemberState == {"ALIVE", "SUSPECT", "DEAD"}

MemberInfo == [state : MemberState \cup {"UNKNOWN"}, incarnation : Nat]
Info(s, i) == [state |-> s, incarnation |-> i]
Unknown    == Info("UNKNOWN", 0)

MembershipUpdate == [id : Members, info : [state : MemberState, incarnation : Nat]]
Update(m, i) == [id |-> m, info |-> i]

List == [members : [Members -> MemberInfo],
         my_incarnation : Nat,
         buffer : Seq([update : MembershipUpdate, send_count : Nat])]

EmptyList == [members |-> [m \in Members |-> Unknown],
              my_incarnation |-> 0,
              buffer |-> <<>>]

\* What update conflict resolution lets through: a higher incarnation, or a
\* stronger state at the same one.
Overrides(new, old) ==
    \/ old.state = "UNKNOWN"
    \/ new.incarnation > old.incarnation
    \/ new.incarnation = old.incarnation /\ Strength[new.state] > Strength[old.state]

\* Mutant of Queued: the buffer is trimmed one entry late.
QueuedLate(buffer, u) ==
    Append(IF Len(buffer) > kMaxPiggybackBuffer THEN Tail(buffer) ELSE buffer,
           [update |-> u, send_count |-> 0])

\* QueueUpdate: the oldest entry makes room for the new one.
Queued(buffer, u) ==
    Append(IF Len(buffer) >= kMaxPiggybackBuffer THEN Tail(buffer) ELSE buffer,
           [update |-> u, send_count |-> 0])

\* Enter m as i, and tell the others.
Set(l, m, i) == [l EXCEPT !.members[m] = i, !.buffer = Queued(@, Update(m, i))]

\* Mutant of ApplyUpdate: a stale DEAD is believed.
ApplyUpdateOrDead(l, u) ==
    IF Overrides(u.info, l.members[u.id]) \/ u.info.state = "DEAD"
    THEN Set(l, u.id, u.info) ELSE l

ApplyUpdate(l, u) ==
    IF Overrides(u.info, l.members[u.id]) THEN Set(l, u.id, u.info) ELSE l

\* Mutant of MarkSuspect: it increments the incarnation.
MarkSuspectLater(l, m) ==
    IF l.members[m].state = "ALIVE"
    THEN Set(l, m, Info("SUSPECT", l.members[m].incarnation + 1))
    ELSE l

MarkSuspect(l, m) ==
    IF l.members[m].state = "ALIVE"
    THEN Set(l, m, Info("SUSPECT", l.members[m].incarnation))
    ELSE l

MarkDead(l, m) ==
    IF l.members[m].state \in {"ALIVE", "SUSPECT"}
    THEN Set(l, m, Info("DEAD", l.members[m].incarnation))
    ELSE l

AddMember(l, m) ==
    IF l.members[m] = Unknown THEN Set(l, m, Info("ALIVE", 0)) ELSE l

\* Mutant of IncrementMyIncarnation: the node's own entry stays what it is.
IncrementQuietly(l, me) == [l EXCEPT !.my_incarnation = @ + 1]

IncrementMyIncarnation(l, me) ==
    LET i == l.my_incarnation + 1
    IN  Set([l EXCEPT !.my_incarnation = i], me, Info("ALIVE", i))

\* GetRandomAlivePeer and GetMembersByState never return the node itself.
Peers(l, me) == {m \in Members \ {me} : l.members[m].state \in {"ALIVE", "SUSPECT"}}
Suspects(l, me) == {m \in Members \ {me} : l.members[m].state = "SUSPECT"}

\* GetUpdatesForPiggyback: the oldest entries, each counted as sent once more.
Attached(l) ==
    LET n == IF Len(l.buffer) < max_piggyback_updates
             THEN Len(l.buffer) ELSE max_piggyback_updates
    IN  [k \in 1 .. n |-> l.buffer[k].update]

Counted(l) ==
    [k \in DOMAIN l.buffer |->
        IF k <= max_piggyback_updates
        THEN [l.buffer[k] EXCEPT !.send_count = @ + 1]
        ELSE l.buffer[k]]

Spent(entry) == entry.send_count >= kMaxPiggybackSends

\* Entries leave from the front, up to the first that is not spent.
Unspent(buffer) ==
    LET fresh == {k \in DOMAIN buffer : ~Spent(buffer[k])}
        first == CHOOSE k \in fresh : \A j \in fresh : k <= j
    IN  IF fresh = {} THEN <<>> ELSE SubSeq(buffer, first, Len(buffer))

AfterAttached(l) == [l EXCEPT !.buffer = Unspent(Counted(l))]
=============================================================================
