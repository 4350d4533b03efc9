----------------------------- MODULE SwimProofs ------------------------------
(***************************************************************************)
(* Theorems about Swim for every set of nodes and members, all bounds, any *)
(* number of rounds, restarts and datagrams, and every buffer size.        *)
(***************************************************************************)
EXTENDS Swim, SequenceTheorems, WellFoundedInduction, TLAPS

-----------------------------------------------------------------------------
(* The methods of MembershipList                                           *)

GoodList(l) == l \in List /\ Len(l.buffer) <= kMaxPiggybackBuffer

\* The updates that l has in its buffer.
Rumours(l) == {l.buffer[k].update : k \in DOMAIN l.buffer}

Entry == [update : MembershipUpdate, send_count : Nat]
Claim == [state : MemberState, incarnation : Nat]

\* l has become k by a change to m's entry, which the buffer tells of, or not at all.
Entered(l, k, m) ==
    /\ GoodList(k)
    /\ k.my_incarnation = l.my_incarnation
    /\ \A x \in Members \ {m} : k.members[x] = l.members[x]
    /\ \A u \in Rumours(k) : u \in Rumours(l) \/ u = Update(m, k.members[m])

LEMMA ClaimTyped ==
    /\ \A s \in MemberState, i \in Nat : Info(s, i) \in Claim
    /\ \A m \in Members, i \in Claim : Update(m, i) \in MembershipUpdate
    /\ Claim \subseteq MemberInfo
    /\ Unknown \in MemberInfo
BY DEF Info, Claim, Update, MembershipUpdate, MemberInfo, Unknown

LEMMA RumoursTyped ==
    ASSUME NEW l, GoodList(l)
    PROVE  Rumours(l) \subseteq MembershipUpdate
<1>1. l.buffer \in Seq(Entry)
    BY DEF GoodList, List, Entry
<1>2. \A k \in DOMAIN l.buffer : l.buffer[k] \in Entry
    BY <1>1, LenProperties, ElementOfSeq
<1> QED
    BY <1>2 DEF Rumours, Entry

\* Every nonempty set of natural numbers has a least element.
LEMMA Least ==
    ASSUME NEW S, S \subseteq Nat, S # {}
    PROVE  \E x \in S : \A y \in S : x <= y
<1> DEFINE R == {ss \in Nat \X Nat : ss[1] < ss[2]}
<1>1. IsWellFoundedOn(R, Nat)
    BY NatLessThanWellFounded DEF OpToRel
<1> HIDE DEF R
<1>2. \E x \in S : \A y \in S : <<y, x>> \notin R
    BY <1>1, WFMin, Zenon
<1>3. \A x, y \in S : <<y, x>> \notin R => x <= y
    BY DEF R
<1> QED
    BY <1>2, <1>3

\* QueueUpdate puts one update in, and nothing else.
LEMMA QueuedGood ==
    ASSUME NEW b \in Seq(Entry), Len(b) <= kMaxPiggybackBuffer, NEW u \in MembershipUpdate
    PROVE  /\ Queued(b, u) \in Seq(Entry)
           /\ Len(Queued(b, u)) <= kMaxPiggybackBuffer
           /\ \A k \in DOMAIN Queued(b, u) :
                 \/ Queued(b, u)[k].update = u
                 \/ \E j \in DOMAIN b : Queued(b, u)[k].update = b[j].update
<1> DEFINE e == [update |-> u, send_count |-> 0]
           t == IF Len(b) >= kMaxPiggybackBuffer THEN Tail(b) ELSE b
<1>1. e \in Entry /\ e.update = u
    BY DEF Entry
<1>2. /\ t \in Seq(Entry)
      /\ Len(t) + 1 <= kMaxPiggybackBuffer
      /\ \A k \in 1 .. Len(t) : \E j \in 1 .. Len(b) : t[k] = b[j]
    <2>1. CASE Len(b) >= kMaxPiggybackBuffer
        <3>1. b # <<>>
            BY <2>1, EmptySeq, ListAssumption
        <3>2. /\ t = Tail(b) /\ Tail(b) \in Seq(Entry) /\ Len(Tail(b)) = Len(b) - 1
              /\ \A i \in 1 .. Len(Tail(b)) : Tail(b)[i] = b[i + 1]
            BY <2>1, <3>1, HeadTailProperties
        <3>3. Len(b) \in Nat
            BY LenProperties
        <3> HIDE DEF t
        <3>4. Len(t) = Len(b) - 1 /\ \A i \in 1 .. Len(t) : t[i] = b[i + 1]
            BY <3>2
        <3>5. t \in Seq(Entry) /\ Len(t) + 1 <= kMaxPiggybackBuffer
            BY <3>2, <3>3, <3>4, ListAssumption
        <3> QED
            BY <3>3, <3>4, <3>5
    <2>2. CASE ~(Len(b) >= kMaxPiggybackBuffer)
        <3>1. t = b /\ Len(b) \in Nat
            BY <2>2, LenProperties
        <3> HIDE DEF t
        <3> QED
            BY <2>2, <3>1, ListAssumption
    <2> QED
        BY <2>1, <2>2
<1>3. Queued(b, u) = Append(t, e)
    BY DEF Queued
<1> HIDE DEF t, e
<1>4. /\ Append(t, e) \in Seq(Entry)
      /\ Len(Append(t, e)) = Len(t) + 1
      /\ \A i \in 1 .. Len(t) : Append(t, e)[i] = t[i]
      /\ Append(t, e)[Len(t) + 1] = e
    BY <1>1, <1>2, AppendProperties
<1>5. Len(t) \in Nat /\ DOMAIN b = 1 .. Len(b) /\ DOMAIN Append(t, e) = 1 .. Len(t) + 1
    BY <1>2, <1>4, LenProperties
<1>6. ASSUME NEW k \in 1 .. Len(t) + 1
      PROVE  \/ Append(t, e)[k].update = u
             \/ \E j \in 1 .. Len(b) : Append(t, e)[k].update = b[j].update
    <2>1. CASE k = Len(t) + 1
        BY <1>1, <1>4, <2>1
    <2>2. CASE k \in 1 .. Len(t)
        BY <1>2, <1>4, <2>2
    <2> QED
        BY <1>5, <2>1, <2>2
<1> QED
    BY <1>2, <1>3, <1>4, <1>5, <1>6

LEMMA SetGood ==
    ASSUME NEW l, GoodList(l), NEW m \in Members, NEW i \in Claim
    PROVE  /\ Entered(l, Set(l, m, i), m)
           /\ Set(l, m, i).members[m] = i
<1> DEFINE b == l.buffer
           u == Update(m, i)
           q == Queued(b, u)
           k == Set(l, m, i)
<1>1. u \in MembershipUpdate /\ l \in List
    BY ClaimTyped DEF GoodList
<1>2. b \in Seq(Entry) /\ Len(b) <= kMaxPiggybackBuffer
      /\ l.members \in [Members -> MemberInfo]
    BY DEF GoodList, List, Entry
<1>3. k = [l EXCEPT !.members[m] = i, !.buffer = q]
    BY DEF Set
<1> HIDE DEF b, u
<1>4. /\ q \in Seq(Entry)
      /\ Len(q) <= kMaxPiggybackBuffer
      /\ \A j \in DOMAIN q : \/ q[j].update = u
                             \/ \E h \in DOMAIN b : q[j].update = b[h].update
    BY <1>1, <1>2, QueuedGood
<1> HIDE DEF q, k
<1>5. [l.members EXCEPT ![m] = i] \in [Members -> MemberInfo]
    BY <1>2, ClaimTyped
<1>6. /\ k \in List
      /\ k.members = [l.members EXCEPT ![m] = i]
      /\ k.buffer = q
      /\ k.my_incarnation = l.my_incarnation
    <2>1. /\ k.members = [l.members EXCEPT ![m] = i]
          /\ k.buffer = q
          /\ k.my_incarnation = l.my_incarnation
        BY <1>1, <1>3 DEF List
    <2> DEFINE M == [Members -> MemberInfo]
               B == Seq(Entry)
    <2>2. List = [members : M, my_incarnation : Nat, buffer : B]
        BY DEF List, Entry
    <2>3. [l.members EXCEPT ![m] = i] \in M /\ q \in B
        BY <1>4, <1>5
    <2> HIDE DEF M, B
    <2>4. k \in List
        BY <1>1, <1>3, <2>2, <2>3
    <2> QED
        BY <2>1, <2>4
<1>7. k.members[m] = i /\ \A x \in Members \ {m} : k.members[x] = l.members[x]
    BY <1>2, <1>6
<1>8. \A v \in Rumours(k) : v \in Rumours(l) \/ v = Update(m, k.members[m])
    BY <1>4, <1>6, <1>7 DEF Rumours, b, u
<1> QED
    BY <1>4, <1>6, <1>7, <1>8 DEF Entered, GoodList, k

LEMMA NotEntered == \A l, m : GoodList(l) => Entered(l, l, m)
BY DEF Entered

LEMMA AddMemberGood ==
    ASSUME NEW l, GoodList(l), NEW m \in Members
    PROVE  /\ Entered(l, AddMember(l, m), m)
           /\ l.members[m] = Unknown => AddMember(l, m).members[m] = Info("ALIVE", 0)
           /\ l.members[m] # Unknown => AddMember(l, m) = l
<1>1. Info("ALIVE", 0) \in Claim
    BY ClaimTyped DEF MemberState
<1> QED
    BY <1>1, SetGood, NotEntered DEF AddMember

\* The failure detector strengthens a belief, at the same incarnation.
LEMMA MarkGood ==
    ASSUME NEW l, GoodList(l), NEW m \in Members,
           NEW k \in {MarkSuspect(l, m), MarkDead(l, m)}
    PROVE  /\ Entered(l, k, m)
           /\ k.members[m].incarnation = l.members[m].incarnation
           /\ NotOlder(k.members[m], l.members[m])
<1>1. l.members[m] \in MemberInfo
    BY DEF GoodList, List
<1>2. \A s \in MemberState : /\ Info(s, l.members[m].incarnation) \in Claim
                             /\ Info(s, l.members[m].incarnation).incarnation
                                    = l.members[m].incarnation
                             /\ Info(s, l.members[m].incarnation).state = s
    BY <1>1, ClaimTyped DEF MemberInfo, Info
<1>3. CASE k = l
    BY <1>1, <1>3, NotEntered DEF NotOlder, MemberInfo, MemberState, Strength
<1>4. CASE l.members[m].state = "ALIVE"
           /\ k = Set(l, m, Info("SUSPECT", l.members[m].incarnation))
    <2>1. Entered(l, k, m) /\ k.members[m] = Info("SUSPECT", l.members[m].incarnation)
        BY <1>2, <1>4, SetGood DEF MemberState
    <2> QED
        BY <1>2, <1>4, <2>1 DEF NotOlder, MemberState, Strength
<1>5. CASE l.members[m].state \in {"ALIVE", "SUSPECT"}
           /\ k = Set(l, m, Info("DEAD", l.members[m].incarnation))
    <2>1. Entered(l, k, m) /\ k.members[m] = Info("DEAD", l.members[m].incarnation)
        BY <1>2, <1>5, SetGood DEF MemberState
    <2> QED
        BY <1>2, <1>5, <2>1 DEF NotOlder, MemberState, Strength
<1> QED
    BY <1>3, <1>4, <1>5 DEF MarkSuspect, MarkDead

\* An update is taken over as it is, if it is newer, or not at all.
LEMMA ApplyGood ==
    ASSUME NEW l, GoodList(l), NEW u \in MembershipUpdate
    PROVE  /\ Entered(l, ApplyUpdate(l, u), u.id)
           /\ IF Overrides(u.info, l.members[u.id])
              THEN ApplyUpdate(l, u).members[u.id] = u.info
              ELSE ApplyUpdate(l, u) = l
           /\ NotOlder(ApplyUpdate(l, u).members[u.id], l.members[u.id])
<1>1. u.id \in Members /\ u.info \in Claim /\ l.members[u.id] \in MemberInfo
    BY DEF GoodList, List, MembershipUpdate, Claim
<1>2. CASE Overrides(u.info, l.members[u.id])
    <2>1. /\ Entered(l, ApplyUpdate(l, u), u.id)
          /\ ApplyUpdate(l, u).members[u.id] = u.info
        BY <1>1, <1>2, SetGood DEF ApplyUpdate
    <2>2. NotOlder(u.info, l.members[u.id])
        BY <1>1, <1>2 DEF Overrides, NotOlder, Claim, MemberInfo, MemberState, Strength
    <2> QED
        BY <1>2, <2>1, <2>2
<1>3. CASE ~Overrides(u.info, l.members[u.id])
    <2>1. ApplyUpdate(l, u) = l
        BY <1>3 DEF ApplyUpdate
    <2>2. NotOlder(l.members[u.id], l.members[u.id])
        BY <1>1 DEF NotOlder, MemberInfo, MemberState, Strength
    <2> QED
        BY <1>3, <2>1, <2>2, NotEntered
<1> QED
    BY <1>2, <1>3

LEMMA IncrementGood ==
    ASSUME NEW l, GoodList(l), NEW n \in Members
    PROVE  LET k == IncrementMyIncarnation(l, n)
           IN  /\ GoodList(k)
               /\ k.my_incarnation = l.my_incarnation + 1
               /\ k.members[n] = Info("ALIVE", l.my_incarnation + 1)
               /\ \A x \in Members \ {n} : k.members[x] = l.members[x]
               /\ \A u \in Rumours(k) : u \in Rumours(l) \/ u = Update(n, k.members[n])
<1> DEFINE i == l.my_incarnation + 1
           h == [l EXCEPT !.my_incarnation = i]
           k == Set(h, n, Info("ALIVE", i))
<1>1. /\ GoodList(h) /\ h.my_incarnation = i
      /\ h.members = l.members /\ h.buffer = l.buffer /\ i \in Nat
    BY DEF GoodList, List
<1>2. Info("ALIVE", i) \in Claim
    BY <1>1, ClaimTyped DEF MemberState
<1>3. Rumours(h) = Rumours(l)
    BY <1>1 DEF Rumours
<1> HIDE DEF h
<1>4. Entered(h, k, n) /\ k.members[n] = Info("ALIVE", i)
    BY <1>1, <1>2, SetGood
<1>5. IncrementMyIncarnation(l, n) = k
    BY DEF IncrementMyIncarnation, h
<1> HIDE DEF k
<1> QED
    BY <1>1, <1>3, <1>4, <1>5 DEF Entered

\* The rumours of a message are from the buffer.
LEMMA AttachedGood ==
    ASSUME NEW l, GoodList(l)
    PROVE  /\ Attached(l) \in Seq(MembershipUpdate)
           /\ \A k \in DOMAIN Attached(l) : Attached(l)[k] \in Rumours(l)
<1> DEFINE b == l.buffer
           n == IF Len(b) < max_piggyback_updates THEN Len(b) ELSE max_piggyback_updates
<1>1. /\ b \in Seq(Entry) /\ Len(b) \in Nat /\ DOMAIN b = 1 .. Len(b)
      /\ \A k \in 1 .. Len(b) : b[k] \in Entry
    <2>1. b \in Seq(Entry)
        BY DEF GoodList, List, Entry
    <2> HIDE DEF b
    <2> QED
        BY <2>1, LenProperties, ElementOfSeq
<1>2. n \in Nat /\ n <= Len(b)
    BY <1>1, ListAssumption
<1>3. Attached(l) = [k \in 1 .. n |-> b[k].update]
    BY DEF Attached
<1>4. \A k \in 1 .. n : b[k].update \in MembershipUpdate /\ b[k].update \in Rumours(l)
    BY <1>1, <1>2 DEF Entry, Rumours
<1> HIDE DEF n, b
<1> QED
    BY <1>2, <1>3, <1>4

\* Sending counts the entries and drops those that are spent.
LEMMA CountedGood ==
    ASSUME NEW l, GoodList(l)
    PROVE  /\ Counted(l) \in Seq(Entry)
           /\ Len(Counted(l)) = Len(l.buffer)
           /\ \A k \in DOMAIN Counted(l) : Counted(l)[k].update \in Rumours(l)
<1> DEFINE b == l.buffer
           e(k) == IF k <= max_piggyback_updates
                   THEN [b[k] EXCEPT !.send_count = @ + 1] ELSE b[k]
<1>1. /\ b \in Seq(Entry) /\ Len(b) \in Nat /\ DOMAIN b = 1 .. Len(b)
      /\ \A k \in 1 .. Len(b) : b[k] \in Entry
    <2>1. b \in Seq(Entry)
        BY DEF GoodList, List, Entry
    <2> HIDE DEF b
    <2> QED
        BY <2>1, LenProperties, ElementOfSeq
<1>2. Counted(l) = [k \in 1 .. Len(b) |-> e(k)]
    BY <1>1 DEF Counted
<1>3. \A k \in 1 .. Len(b) : e(k) \in Entry /\ e(k).update = b[k].update
    BY <1>1 DEF Entry
<1>4. \A k \in 1 .. Len(b) : b[k].update \in Rumours(l)
    BY <1>1 DEF Rumours
<1> HIDE DEF e, b
<1>5. Counted(l) \in Seq(Entry) /\ Len(Counted(l)) = Len(b)
    BY <1>1, <1>2, <1>3
<1> QED
    BY <1>2, <1>3, <1>4, <1>5 DEF b

LEMMA UnspentGood ==
    ASSUME NEW b \in Seq(Entry)
    PROVE  /\ Unspent(b) \in Seq(Entry)
           /\ Len(Unspent(b)) <= Len(b)
           /\ \A k \in DOMAIN Unspent(b) : \E j \in DOMAIN b : Unspent(b)[k] = b[j]
<1> DEFINE fresh == {k \in DOMAIN b : ~Spent(b[k])}
           first == CHOOSE k \in fresh : \A j \in fresh : k <= j
<1>1. Len(b) \in Nat /\ DOMAIN b = 1 .. Len(b) /\ \A k \in 1 .. Len(b) : b[k] \in Entry
    BY LenProperties, ElementOfSeq
<1>2. CASE fresh = {}
    <2>1. Unspent(b) = <<>>
        BY <1>2 DEF Unspent
    <2> QED
        BY <1>1, <2>1, EmptySeq
<1>3. CASE fresh # {}
    <2>1. Unspent(b) = SubSeq(b, first, Len(b))
        BY <1>3 DEF Unspent
    <2>2. \E k \in fresh : \A j \in fresh : k <= j
        <3>1. fresh \subseteq Nat
            BY <1>1
        <3> HIDE DEF fresh
        <3> QED
            BY <1>3, <3>1, Least
    <2>3. first \in 1 .. Len(b)
        BY <1>1, <2>2
    <2> HIDE DEF first, fresh
    <2>4. /\ SubSeq(b, first, Len(b)) \in Seq(Entry)
          /\ Len(SubSeq(b, first, Len(b))) = Len(b) - first + 1
          /\ \A i \in 1 .. Len(b) - first + 1 : SubSeq(b, first, Len(b))[i] = b[first + i - 1]
        BY <1>1, <2>3, SubSeqProperties
    <2>5. DOMAIN Unspent(b) = 1 .. Len(b) - first + 1
        BY <2>1, <2>4, LenProperties
    <2>6. \A i \in 1 .. Len(b) - first + 1 :
             first + i - 1 \in 1 .. Len(b) /\ Unspent(b)[i] = b[first + i - 1]
        BY <1>1, <2>1, <2>3, <2>4
    <2> QED
        BY <1>1, <2>1, <2>3, <2>4, <2>5, <2>6
<1> QED
    BY <1>2, <1>3

LEMMA AfterAttachedGood ==
    ASSUME NEW l, GoodList(l)
    PROVE  /\ GoodList(AfterAttached(l))
           /\ AfterAttached(l).members = l.members
           /\ AfterAttached(l).my_incarnation = l.my_incarnation
           /\ Rumours(AfterAttached(l)) \subseteq Rumours(l)
<1> DEFINE k == AfterAttached(l)
           q == Unspent(Counted(l))
<1>1. /\ q \in Seq(Entry)
      /\ Len(q) <= Len(l.buffer)
      /\ \A j \in DOMAIN q : q[j].update \in Rumours(l)
    BY CountedGood, UnspentGood
<1>2. l \in List /\ k = [l EXCEPT !.buffer = q]
    BY DEF AfterAttached, GoodList
<1>3. Len(l.buffer) \in Nat /\ Len(q) \in Nat /\ Len(l.buffer) <= kMaxPiggybackBuffer
    BY <1>1, <1>2, LenProperties DEF GoodList, List
<1> HIDE DEF k, q
<1>4. /\ k.members = l.members /\ k.buffer = q /\ k.my_incarnation = l.my_incarnation
    BY <1>2 DEF List
<1>5. k \in List
    BY <1>1, <1>2 DEF List, Entry
<1>6. GoodList(k)
    BY <1>1, <1>3, <1>4, <1>5, ListAssumption DEF GoodList
<1> QED
    BY <1>1, <1>4, <1>6 DEF Rumours, k

-----------------------------------------------------------------------------
(* Types                                                                   *)

\* A PING_REQ names a target, a message at hand is the node's own, a thread that
\* waits as a proxy does so for a PING_REQ; a node that is down, or has not been
\* started, has no threads at work.
MessageOK(m) == m.type = "PING_REQ" => m.target \in Members

Places(n) ==
    /\ AtHand(n) => receiver[n].msg.to = n /\ MessageOK(receiver[n].msg)
    /\ receiver[n].at = "proxy" => receiver[n].msg.type = "PING_REQ"
    /\ n \notin up => sender[n].at = "join"
    /\ sender[n].at = "join" => receiver[n].at = "off"

TypeInv ==
    /\ SwimTypeOK
    /\ \A n \in Nodes : Places(n)
    /\ \A msg \in net : MessageOK(msg)
    /\ \A n \in Nodes : lives[n] > 0

\* Nothing but n's part of the state changes, and messages are sent or received.
PlacesOK(n, s, r, u) ==
    /\ r.at \in {"apply", "proxy"} => r.msg.to = n /\ MessageOK(r.msg)
    /\ r.at = "proxy" => r.msg.type = "PING_REQ"
    /\ n \notin u => s.at = "join"
    /\ s.at = "join" => r.at = "off"

NodeOK(n) ==
    /\ GoodList(list[n]) /\ sender[n] \in Sender /\ receiver[n] \in Receiver
    /\ pending[n] \subseteq Nat /\ acked[n] \subseteq Nat \X Nodes
    /\ next_seq[n] \in Nat /\ lives[n] \in Nat \ {0} /\ issued[n] \in Nat
    /\ PlacesOK(n, sender[n], receiver[n], up)
    /\ Probing(n) => sender[n].peer \in Members

OnlyNode(n) ==
    /\ list' = [list EXCEPT ![n] = list'[n]]
    /\ sender' = [sender EXCEPT ![n] = sender'[n]]
    /\ receiver' = [receiver EXCEPT ![n] = receiver'[n]]
    /\ pending' = [pending EXCEPT ![n] = pending'[n]]
    /\ acked' = [acked EXCEPT ![n] = acked'[n]]
    /\ next_seq' = [next_seq EXCEPT ![n] = next_seq'[n]]
    /\ lives' = [lives EXCEPT ![n] = lives'[n]]
    /\ issued' = [issued EXCEPT ![n] = issued'[n]]
    /\ up' \subseteq Nodes
    /\ \A m \in Nodes \ {n} : m \in up' <=> m \in up

LEMMA NodeTyped ==
    ASSUME TypeInv
    PROVE  /\ list \in [Nodes -> List] /\ sender \in [Nodes -> Sender]
           /\ receiver \in [Nodes -> Receiver] /\ pending \in [Nodes -> SUBSET Nat]
           /\ acked \in [Nodes -> SUBSET (Nat \X Nodes)] /\ next_seq \in [Nodes -> Nat]
           /\ lives \in [Nodes -> Nat] /\ issued \in [Nodes -> Nat] /\ up \subseteq Nodes
           /\ \A n \in Nodes : NodeOK(n)
<1>1. /\ list \in [Nodes -> List] /\ sender \in [Nodes -> Sender]
      /\ receiver \in [Nodes -> Receiver] /\ pending \in [Nodes -> SUBSET Nat]
      /\ acked \in [Nodes -> SUBSET (Nat \X Nodes)] /\ next_seq \in [Nodes -> Nat]
      /\ lives \in [Nodes -> Nat] /\ issued \in [Nodes -> Nat] /\ up \subseteq Nodes
    BY DEF TypeInv, SwimTypeOK
<1>2. ASSUME NEW n \in Nodes
      PROVE  NodeOK(n)
    <2>1. GoodList(list[n])
        BY DEF TypeInv, SwimTypeOK, GoodList
    <2>2. PlacesOK(n, sender[n], receiver[n], up) /\ (Probing(n) => sender[n].peer \in Members)
        BY DEF TypeInv, SwimTypeOK, Places, PlacesOK, AtHand
    <2>3. lives[n] \in Nat \ {0}
        BY <1>1 DEF TypeInv
    <2> QED
        BY <1>1, <2>1, <2>2, <2>3 DEF NodeOK
<1> QED
    BY <1>1, <1>2

LEMMA TypedStep ==
    ASSUME TypeInv, NEW n \in Nodes, OnlyNode(n), NodeOK(n)',
           \A msg \in net' \ net :
              msg \in GossipMessage /\ msg.updates # <<>> /\ MessageOK(msg)
    PROVE  TypeInv'
<1>1. /\ list \in [Nodes -> List] /\ sender \in [Nodes -> Sender]
      /\ receiver \in [Nodes -> Receiver] /\ pending \in [Nodes -> SUBSET Nat]
      /\ acked \in [Nodes -> SUBSET (Nat \X Nodes)] /\ next_seq \in [Nodes -> Nat]
      /\ lives \in [Nodes -> Nat] /\ issued \in [Nodes -> Nat]
    BY DEF TypeInv, SwimTypeOK
<1>2. /\ list' \in [Nodes -> List]
      /\ \A m \in Nodes : Len(list'[m].buffer) <= kMaxPiggybackBuffer
    BY <1>1 DEF TypeInv, SwimTypeOK, GoodList, OnlyNode, NodeOK
<1>3. sender' \in [Nodes -> Sender] /\ receiver' \in [Nodes -> Receiver]
    BY <1>1 DEF OnlyNode, NodeOK
<1>4. /\ pending' \in [Nodes -> SUBSET Nat] /\ acked' \in [Nodes -> SUBSET (Nat \X Nodes)]
      /\ next_seq' \in [Nodes -> Nat] /\ issued' \in [Nodes -> Nat]
    BY <1>1 DEF OnlyNode, NodeOK
<1>5. lives' \in [Nodes -> Nat] /\ \A m \in Nodes : lives'[m] > 0
    <2>1. lives'[n] \in Nat /\ lives'[n] > 0
        BY DEF NodeOK
    <2>2. lives' = [lives EXCEPT ![n] = lives'[n]] /\ \A m \in Nodes : lives[m] > 0
        BY DEF OnlyNode, TypeInv
    <2> QED
        BY <1>1, <2>1, <2>2
<1>6. \A m \in Nodes : Probing(m)' => sender'[m].peer \in Members
    BY <1>1 DEF TypeInv, SwimTypeOK, Probing, OnlyNode, NodeOK
<1>7. /\ net' \subseteq {msg \in GossipMessage : msg.updates # <<>>}
      /\ \A msg \in net' : MessageOK(msg)
    BY DEF TypeInv, SwimTypeOK
<1>8. ASSUME NEW m \in Nodes
      PROVE  Places(m)'
    <2>1. CASE m = n
        BY <2>1 DEF NodeOK, Places, PlacesOK, AtHand, MessageOK
    <2>2. CASE m # n
        <3>1. /\ sender'[m] = sender[m] /\ receiver'[m] = receiver[m]
              /\ m \in up' <=> m \in up
            BY <1>1, <2>2 DEF OnlyNode
        <3> QED
            BY <3>1 DEF TypeInv, Places, AtHand, MessageOK
    <2> QED
        BY <2>1, <2>2
<1> QED
    BY <1>2, <1>3, <1>4, <1>5, <1>6, <1>7, <1>8 DEF TypeInv, SwimTypeOK, OnlyNode

\* The message that SendMessage puts together.
IsMessage(msg, n, type, to, target, seq) ==
    /\ msg \in GossipMessage /\ msg.updates # <<>>
    /\ msg.type = type /\ msg.from = n /\ msg.to = to
    /\ msg.target = target /\ msg.seq = seq
    /\ \A k \in DOMAIN msg.updates :
          \/ msg.updates[k] \in Rumours(list[n])
          \/ msg.updates[k] = Update(n, Info("ALIVE", list[n].my_incarnation))

LEMMA MessageTyped ==
    ASSUME TypeInv, NEW n \in Nodes, NEW type \in MessageType, NEW to \in Nodes,
           NEW target \in Members \cup {None}, NEW seq \in Nat
    PROVE  IsMessage(Message(n, type, to, target, seq), n, type, to, target, seq)
<1> DEFINE own == Update(n, Info("ALIVE", list[n].my_incarnation))
           att == Attached(list[n])
           ups == Append(att, own)
           msg == Message(n, type, to, target, seq)
<1>1. att \in Seq(MembershipUpdate) /\ \A k \in DOMAIN att : att[k] \in Rumours(list[n])
    BY NodeTyped, AttachedGood DEF NodeOK
<1>2. own \in MembershipUpdate
    <2>1. list[n].my_incarnation \in Nat /\ n \in Members
        BY NodeTyped, SwimAssumption DEF List
    <2> QED
        BY <2>1, ClaimTyped DEF MemberState
<1>3. /\ msg.updates = ups
      /\ msg.type = type /\ msg.from = n /\ msg.to = to
      /\ msg.target = target /\ msg.seq = seq
      /\ ups \in Seq(MembershipUpdate) => msg \in GossipMessage
    BY DEF Message, GossipMessage
<1> HIDE DEF own, att, msg
<1>4. /\ ups \in Seq(MembershipUpdate) /\ ups # <<>> /\ Len(ups) = Len(att) + 1
      /\ \A i \in 1 .. Len(att) : ups[i] = att[i]
      /\ ups[Len(att) + 1] = own
    BY <1>1, <1>2, AppendProperties
<1>5. Len(att) \in Nat /\ DOMAIN att = 1 .. Len(att) /\ DOMAIN ups = 1 .. Len(att) + 1
    BY <1>1, <1>4, LenProperties
<1> HIDE DEF ups
<1>6. \A k \in DOMAIN ups : ups[k] \in Rumours(list[n]) \/ ups[k] = own
    BY <1>1, <1>4, <1>5
<1>7. IsMessage(msg, n, type, to, target, seq)
    BY <1>3, <1>4, <1>6 DEF own, IsMessage
<1> QED
    BY <1>7 DEF msg

\* Sending: the buffer is counted down, and the message is under way or lost.
LEMMA SendGood ==
    ASSUME TypeInv, NEW msg, msg.from \in Nodes, Send(msg)
    PROVE  /\ list' = [list EXCEPT ![msg.from] = AfterAttached(list[msg.from])]
           /\ net' \subseteq net \cup {msg}
BY DEF Send, TypeInv, SwimTypeOK

LEMMA PlaceTyped ==
    \A place \in SenderPlaces : SenderAt(place) \in Sender /\ SenderAt(place).at = place
BY DEF SenderAt, Sender

\* The sender's locals when it has pinged m, and when it has asked p.
Pinged(m, q) == [SenderAt("direct") EXCEPT !.peer = m, !.seq = q]
AlsoAsked(s, p, q) == [s EXCEPT !.asked = @ \cup {p}, !.indirect = @ \cup {q}]

LEMMA PingedTyped ==
    ASSUME NEW m \in Members, NEW q \in Nat
    PROVE  /\ Pinged(m, q) \in Sender /\ Pinged(m, q).at = "direct"
           /\ Pinged(m, q).peer = m /\ Pinged(m, q).seq = q /\ Pinged(m, q).indirect = {}
BY DEF Pinged, SenderAt, Sender, SenderPlaces

LEMMA AskingTyped ==
    ASSUME NEW s \in Sender
    PROVE  /\ Asking(s) \in Sender /\ Asking(s).at \in {"asking", "indirect"}
           /\ Asking(s).peer = s.peer /\ Asking(s).seq = s.seq
           /\ Asking(s).indirect = s.indirect
BY DEF Asking, Sender, SenderPlaces

LEMMA AlsoAskedTyped ==
    ASSUME NEW s \in Sender, NEW p \in Members, NEW q \in Nat
    PROVE  /\ AlsoAsked(s, p, q) \in Sender
           /\ AlsoAsked(s, p, q).peer = s.peer /\ AlsoAsked(s, p, q).seq = s.seq
           /\ AlsoAsked(s, p, q).indirect = s.indirect \cup {q}
BY DEF AlsoAsked, Sender

LEMMA ReceiverTyped ==
    ASSUME NEW n \in Nodes
    PROVE  \A place \in ReceiverPlaces :
              ReceiverAt(n, place) \in Receiver /\ ReceiverAt(n, place).at = place
<1>1. NoMessage(n) \in GossipMessage
    BY EmptySeq DEF NoMessage, GossipMessage, MessageType
<1> QED
    BY <1>1 DEF ReceiverAt, Receiver

\* A list as NewInstance starts from.
LEMMA EmptyGood == GoodList(EmptyList) /\ Rumours(EmptyList) = {}
<1>1. EmptyList \in List
    BY ClaimTyped, EmptySeq DEF EmptyList, List
<1>2. EmptyList.buffer = <<>>
    BY DEF EmptyList
<1> QED
    BY <1>1, <1>2, EmptySeq, ListAssumption DEF GoodList, Rumours

\* A probe is a message with a new number.
Probed(n, type, m, target) ==
    \E msg : /\ IsMessage(msg, n, type, addr[m], target, next_seq[n])
             /\ net' \subseteq net \cup {msg}

LEMMA ProbeGood ==
    ASSUME TypeInv, NEW n \in Nodes, NEW type \in MessageType, NEW m \in Members,
           NEW target \in Members \cup {None}, Probe(n, type, m, target)
    PROVE  /\ Probed(n, type, m, target)
           /\ list' = [list EXCEPT ![n] = AfterAttached(list[n])]
           /\ GoodList(list'[n])
           /\ pending' = [pending EXCEPT ![n] = pending[n] \cup {next_seq[n]}]
           /\ next_seq' = [next_seq EXCEPT ![n] = next_seq[n] + 1]
           /\ acked' = acked
           /\ pending'[n] = pending[n] \cup {next_seq[n]} /\ pending'[n] \subseteq Nat
           /\ next_seq'[n] = next_seq[n] + 1 /\ next_seq'[n] \in Nat
<1> DEFINE to == addr[m]
           seq == next_seq[n]
           msg == Message(n, type, to, target, seq)
<1>1. to \in Nodes /\ seq \in Nat /\ pending[n] \subseteq Nat
    BY SwimAssumption, NodeTyped
<1>2. /\ Send(msg)
      /\ pending' = [pending EXCEPT ![n] = pending[n] \cup {next_seq[n]}]
      /\ next_seq' = [next_seq EXCEPT ![n] = next_seq[n] + 1]
      /\ acked' = acked
    BY DEF Probe
<1> HIDE DEF to, seq
<1>3. IsMessage(msg, n, type, to, target, seq)
    BY <1>1, MessageTyped
<1> HIDE DEF msg
<1>4. net' \subseteq net \cup {msg} /\ list' = [list EXCEPT ![n] = AfterAttached(list[n])]
    BY <1>2, <1>3, SendGood DEF IsMessage
<1>5. GoodList(list'[n])
    BY <1>4, NodeTyped, AfterAttachedGood DEF NodeOK
<1>6. Probed(n, type, m, target)
    BY <1>3, <1>4 DEF Probed, to, seq
<1>7. /\ pending'[n] = pending[n] \cup {next_seq[n]}
      /\ next_seq'[n] = next_seq[n] + 1
    BY <1>2, NodeTyped
<1> QED
    BY <1>1, <1>2, <1>4, <1>5, <1>6, <1>7 DEF seq

LEMMA ProcessOnly ==
    ASSUME TypeInv, NEW n \in Nodes, NEW msg, Process(n, msg)
    PROVE  /\ list' = [list EXCEPT ![n] = list'[n]]
           /\ receiver' = [receiver EXCEPT ![n] = receiver'[n]]
           /\ issued' = [issued EXCEPT ![n] = issued'[n]]
BY NodeTyped DEF Process, GoReceiver

\* A step of n changes nothing of the other nodes'.
LEMMA OnlyThatNode ==
    ASSUME TypeInv, NEW n \in Nodes, NodeStep(n)
    PROVE  OnlyNode(n)
<1> USE NodeTyped DEF OnlyNode, GoSender, GoReceiver, acks, life
<1>1. CASE Crash(n) \/ Construct(n) \/ Start(n)
    BY <1>1 DEF Crash, Construct, Start
<1>2. ASSUME NEW m \in Members, JoinSeed(n, m) PROVE OnlyNode(n)
    BY <1>2 DEF JoinSeed
<1>3. CASE NobodyToPing(n) \/ DirectTimeout(n) \/ NobodyToAsk(n) \/ ScanSuspects(n)
    BY <1>3 DEF NobodyToPing, DirectTimeout, NobodyToAsk, ScanSuspects, PromoteLater
<1>4. CASE DirectAck(n) \/ Promote(n)
    BY <1>4 DEF DirectAck, Promote, Erase, PromoteLater
<1>5. CASE IndirectWaitEnds(n)
    BY <1>5 DEF IndirectWaitEnds, Erase
<1>6. CASE Ping(n)
    <2>1. PICK m \in Members : Probe(n, "PING", m, None)
        BY <1>6 DEF Ping, Peers
    <2>2. /\ list' = [list EXCEPT ![n] = AfterAttached(list[n])]
          /\ pending' = [pending EXCEPT ![n] = pending[n] \cup {next_seq[n]}]
          /\ next_seq' = [next_seq EXCEPT ![n] = next_seq[n] + 1]
          /\ acked' = acked
        BY <2>1, ProbeGood DEF MessageType
    <2> QED
        BY <1>6, <2>2 DEF Ping
<1>7. CASE AskProxy(n)
    <2>1. PICK m \in Members : Probe(n, "PING_REQ", m, sender[n].peer)
        BY <1>7 DEF AskProxy, Proxies, Peers
    <2>2. sender[n].peer \in Members \cup {None}
        BY DEF NodeOK, Sender
    <2>3. /\ list' = [list EXCEPT ![n] = AfterAttached(list[n])]
          /\ pending' = [pending EXCEPT ![n] = pending[n] \cup {next_seq[n]}]
          /\ next_seq' = [next_seq EXCEPT ![n] = next_seq[n] + 1]
          /\ acked' = acked
        BY <2>1, <2>2, ProbeGood DEF MessageType
    <2> QED
        BY <1>7, <2>3 DEF AskProxy
<1>8. CASE Receive(n) \/ ProcessNext(n)
    BY <1>8, ProcessOnly DEF Receive, ProcessNext
<1>9. CASE HandlePing(n)
    BY <1>9 DEF HandlePing, Send, Message
<1>10. CASE HandlePingReq(n)
    BY <1>10 DEF HandlePingReq, Probe, Send, Message
<1>11. CASE ProxyWaitEnds(n)
    BY <1>11 DEF ProxyWaitEnds, Send, Erase, Message
<1>12. CASE HandleAck(n)
    BY <1>12 DEF HandleAck
<1> QED
    BY <1>1, <1>2, <1>3, <1>4, <1>5, <1>6, <1>7, <1>8, <1>9, <1>10, <1>11, <1>12
    DEF NodeStep, SenderStep, ReceiverStep

LEMMA LifeTyped ==
    ASSUME TypeInv, NEW n \in Nodes,
           Crash(n) \/ Construct(n) \/ Start(n) \/ \E m \in Members : JoinSeed(n, m)
    PROVE  NodeOK(n)' /\ net' = net
<1>1. CASE Crash(n)
    <2>1. /\ SenderAt("join") \in Sender /\ SenderAt("join").at = "join"
          /\ ReceiverAt(n, "off") \in Receiver /\ ReceiverAt(n, "off").at = "off"
        BY PlaceTyped, ReceiverTyped DEF SenderPlaces, ReceiverPlaces
    <2>2. /\ sender'[n] = SenderAt("join") /\ receiver'[n] = ReceiverAt(n, "off")
          /\ list'[n] = EmptyList /\ pending'[n] = {} /\ acked'[n] = {}
          /\ UNCHANGED <<next_seq, net, lives, issued>>
        BY <1>1, NodeTyped DEF Crash, GoSender, GoReceiver
    <2>3. PlacesOK(n, sender[n], receiver[n], up)'
        BY <2>1, <2>2 DEF PlacesOK
    <2> QED
        BY <2>1, <2>2, <2>3, NodeTyped, EmptyGood DEF NodeOK, Probing
<1>2. CASE Construct(n)
    <2>1. GoodList(AddMember(EmptyList, n))
        BY EmptyGood, AddMemberGood, SwimAssumption DEF Entered
    <2>2. /\ list'[n] = AddMember(EmptyList, n)
          /\ lives'[n] = lives[n] + 1 /\ next_seq'[n] = 1
          /\ UNCHANGED <<sender, receiver, pending, acked, net, issued>>
        BY <1>2, NodeTyped DEF Construct, acks
    <2>3. sender[n].at = "join" /\ PlacesOK(n, sender[n], receiver[n], up)'
        BY <1>2, <2>2, NodeTyped DEF Construct, NodeOK, PlacesOK
    <2>4. lives'[n] \in Nat \ {0}
        BY <2>2, NodeTyped
    <2> QED
        BY <2>1, <2>2, <2>3, <2>4, NodeTyped DEF NodeOK, Probing
<1>3. CASE Start(n)
    <2>1. /\ SenderAt("idle") \in Sender /\ SenderAt("idle").at = "idle"
          /\ ReceiverAt(n, "listen") \in Receiver /\ ReceiverAt(n, "listen").at = "listen"
        BY PlaceTyped, ReceiverTyped DEF SenderPlaces, ReceiverPlaces
    <2>2. /\ sender'[n] = SenderAt("idle") /\ receiver'[n] = ReceiverAt(n, "listen")
          /\ n \in up
          /\ UNCHANGED <<list, pending, acked, next_seq, net, up, lives, issued>>
        BY <1>3, NodeTyped DEF Start, GoSender, GoReceiver, acks, life
    <2>3. PlacesOK(n, sender[n], receiver[n], up)'
        BY <2>1, <2>2 DEF PlacesOK
    <2> QED
        BY <2>1, <2>2, <2>3, NodeTyped DEF NodeOK, Probing
<1>4. ASSUME NEW m \in Members, JoinSeed(n, m)
      PROVE  NodeOK(n)' /\ net' = net
    <2>1. GoodList(AddMember(list[n], m))
        BY NodeTyped, AddMemberGood DEF Entered, NodeOK
    <2>2. /\ list'[n] = AddMember(list[n], m)
          /\ UNCHANGED <<sender, receiver, pending, acked, net, next_seq, lives, up, issued>>
        BY <1>4, NodeTyped DEF JoinSeed, acks, life
    <2>3. PlacesOK(n, sender[n], receiver[n], up)'
        BY <2>2, NodeTyped DEF NodeOK
    <2> QED
        BY <2>1, <2>2, <2>3, NodeTyped DEF NodeOK, Probing
<1> QED
    BY <1>1, <1>2, <1>3, <1>4

\* A sender that is not at "join" runs, and may go anywhere else.
LEMMA SenderMoves ==
    ASSUME TypeInv, NEW n \in Nodes, sender[n].at # "join",
           sender'[n] \in Sender, sender'[n].at # "join", receiver' = receiver, up' = up
    PROVE  PlacesOK(n, sender[n], receiver[n], up)'
BY NodeTyped DEF NodeOK, PlacesOK

LEMMA PromoteTyped ==
    ASSUME TypeInv, NEW n \in Nodes, NEW S \in SUBSET Members, PromoteLater(n, S)
    PROVE  /\ sender'[n] \in Sender /\ sender'[n].at \in {"idle", "promote"}
           /\ sender'[n].overdue = S
<1> DEFINE place == IF S = {} THEN "idle" ELSE "promote"
           s == [SenderAt(place) EXCEPT !.overdue = S]
<1>1. s \in Sender /\ s.at \in {"idle", "promote"} /\ s.overdue = S
    BY DEF SenderAt, Sender, SenderPlaces
<1>2. sender'[n] = s
    BY NodeTyped DEF PromoteLater, GoSender
<1> HIDE DEF s
<1> QED
    BY <1>1, <1>2

LEMMA SenderStepTyped ==
    ASSUME TypeInv, NEW n \in Nodes, SenderStep(n)
    PROVE  /\ NodeOK(n)'
           /\ \A msg \in net' \ net :
                 msg \in GossipMessage /\ msg.updates # <<>> /\ MessageOK(msg)
<1>1. CASE NobodyToPing(n) \/ DirectAck(n)
    <2>1. SenderAt("scan") \in Sender /\ SenderAt("scan").at = "scan"
        BY PlaceTyped DEF SenderPlaces
    <2>2. /\ sender'[n] = SenderAt("scan") /\ sender[n].at \in {"idle", "direct"}
          /\ pending'[n] \subseteq pending[n] /\ acked'[n] \subseteq acked[n]
          /\ UNCHANGED <<list, receiver, next_seq, net, lives, up, issued>>
        BY <1>1, NodeTyped DEF NobodyToPing, DirectAck, Erase, GoSender, acks, life
    <2>3. PlacesOK(n, sender[n], receiver[n], up)'
        BY <2>1, <2>2, SenderMoves
    <2> QED
        BY <2>1, <2>2, <2>3, NodeTyped DEF NodeOK, Probing
<1>2. CASE DirectTimeout(n) \/ NobodyToAsk(n)
    <2>1. sender[n] \in Sender /\ sender[n].peer \in Members
        BY <1>2, NodeTyped DEF DirectTimeout, NobodyToAsk, NodeOK, Probing
    <2>2. /\ sender'[n] \in Sender /\ sender'[n].at \in {"asking", "indirect"}
          /\ sender'[n].peer = sender[n].peer
        <3>1. CASE DirectTimeout(n)
            <4>1. sender'[n] = Asking(sender[n])
                BY <3>1, NodeTyped DEF DirectTimeout, GoSender
            <4> QED
                BY <2>1, <4>1, AskingTyped
        <3>2. CASE NobodyToAsk(n)
            <4>1. sender'[n] = [sender[n] EXCEPT !.at = "indirect"]
                BY <3>2, NodeTyped DEF NobodyToAsk, GoSender
            <4> QED
                BY <2>1, <4>1 DEF Sender, SenderPlaces
        <3> QED
            BY <1>2, <3>1, <3>2
    <2>3. /\ sender[n].at # "join"
          /\ UNCHANGED <<list, receiver, pending, acked, next_seq, net, lives, up, issued>>
        BY <1>2 DEF DirectTimeout, NobodyToAsk, acks, life
    <2>4. PlacesOK(n, sender[n], receiver[n], up)'
        BY <2>2, <2>3, SenderMoves
    <2> QED
        BY <2>1, <2>2, <2>3, <2>4, NodeTyped DEF NodeOK, Probing
<1>3. CASE IndirectWaitEnds(n)
    <2>1. SenderAt("scan") \in Sender /\ SenderAt("scan").at = "scan"
        BY PlaceTyped DEF SenderPlaces
    <2>2. sender[n].peer \in Members
        BY <1>3, NodeTyped DEF IndirectWaitEnds, NodeOK, Probing
    <2>3. /\ sender'[n] = SenderAt("scan") /\ sender[n].at = "indirect"
          /\ list'[n] \in {list[n], MarkSuspect(list[n], sender[n].peer)}
          /\ pending'[n] \subseteq pending[n] /\ acked'[n] \subseteq acked[n]
          /\ UNCHANGED <<receiver, next_seq, net, lives, up, issued>>
        BY <1>3, NodeTyped DEF IndirectWaitEnds, Erase, GoSender, life
    <2>4. GoodList(list'[n])
        BY <2>2, <2>3, NodeTyped, MarkGood DEF NodeOK, Entered
    <2>5. PlacesOK(n, sender[n], receiver[n], up)'
        BY <2>1, <2>3, SenderMoves
    <2> QED
        BY <2>1, <2>3, <2>4, <2>5, NodeTyped DEF NodeOK, Probing
<1>4. CASE ScanSuspects(n) \/ Promote(n)
    <2>1. \E S \in SUBSET Members : PromoteLater(n, S)
        <3>1. sender[n].overdue \subseteq Members
            BY NodeTyped DEF NodeOK, Sender
        <3> QED
            BY <1>4, <3>1 DEF ScanSuspects, Promote, Suspects
    <2>2. sender'[n] \in Sender /\ sender'[n].at \in {"idle", "promote"}
        BY <2>1, PromoteTyped
    <2>3. GoodList(list'[n])
        <3>1. CASE ScanSuspects(n)
            BY <3>1, NodeTyped DEF ScanSuspects, NodeOK
        <3>2. CASE Promote(n)
            <4>1. PICK m \in sender[n].overdue : list' = [list EXCEPT ![n] = MarkDead(@, m)]
                BY <3>2 DEF Promote
            <4>2. m \in Members /\ list'[n] = MarkDead(list[n], m)
                BY <4>1, NodeTyped DEF NodeOK, Sender
            <4> QED
                BY <4>2, NodeTyped, MarkGood DEF NodeOK, Entered
        <3> QED
            BY <1>4, <3>1, <3>2
    <2>4. /\ sender[n].at \in {"scan", "promote"}
          /\ UNCHANGED <<receiver, pending, acked, next_seq, net, lives, up, issued>>
        BY <1>4 DEF ScanSuspects, Promote, acks, life
    <2>5. PlacesOK(n, sender[n], receiver[n], up)'
        BY <2>2, <2>4, SenderMoves
    <2> QED
        BY <2>2, <2>3, <2>4, <2>5, NodeTyped DEF NodeOK, Probing
<1>5. CASE Ping(n)
    <2>1. PICK m \in Members :
             /\ Probe(n, "PING", m, None)
             /\ GoSender(n, [SenderAt("direct") EXCEPT !.peer = m, !.seq = next_seq[n]])
        BY <1>5 DEF Ping, Peers
    <2>2. /\ Probed(n, "PING", m, None)
          /\ GoodList(list'[n]) /\ pending'[n] \subseteq Nat /\ next_seq'[n] \in Nat
          /\ acked' = acked
        BY <2>1, ProbeGood DEF MessageType
    <2>3. sender'[n] \in Sender /\ sender'[n].at = "direct" /\ sender'[n].peer \in Members
        <3>1. sender'[n] = Pinged(m, next_seq[n]) /\ next_seq[n] \in Nat
            BY <2>1, NodeTyped DEF GoSender, Pinged
        <3> QED
            BY <3>1, PingedTyped
    <2>4. sender[n].at = "idle" /\ UNCHANGED <<receiver, lives, up, issued>>
        BY <1>5 DEF Ping, life
    <2>5. PlacesOK(n, sender[n], receiver[n], up)'
        BY <2>3, <2>4, SenderMoves
    <2>6. NodeOK(n)'
        BY <2>2, <2>3, <2>4, <2>5, NodeTyped DEF NodeOK, Probing
    <2> QED
        BY <2>2, <2>6 DEF Probed, IsMessage, MessageOK
<1>6. CASE AskProxy(n)
    <2>1. PICK p \in Members :
             /\ Probe(n, "PING_REQ", p, sender[n].peer)
             /\ GoSender(n, Asking([sender[n] EXCEPT !.asked = @ \cup {p},
                                                     !.indirect = @ \cup {next_seq[n]}]))
        BY <1>6 DEF AskProxy, Proxies, Peers
    <2>2. sender[n] \in Sender /\ sender[n].peer \in Members /\ sender[n].at = "asking"
        BY <1>6, NodeTyped DEF AskProxy, NodeOK, Probing
    <2>3. /\ Probed(n, "PING_REQ", p, sender[n].peer)
          /\ GoodList(list'[n]) /\ pending'[n] \subseteq Nat /\ next_seq'[n] \in Nat
          /\ acked' = acked
        BY <2>1, <2>2, ProbeGood DEF MessageType
    <2>4. /\ sender'[n] \in Sender /\ sender'[n].at \in {"asking", "indirect"}
          /\ sender'[n].peer \in Members
        <3>1. /\ sender'[n] = Asking(AlsoAsked(sender[n], p, next_seq[n]))
              /\ next_seq[n] \in Nat
            BY <2>1, NodeTyped DEF GoSender, AlsoAsked
        <3>2. /\ AlsoAsked(sender[n], p, next_seq[n]) \in Sender
              /\ AlsoAsked(sender[n], p, next_seq[n]).peer = sender[n].peer
            BY <2>2, <3>1, AlsoAskedTyped
        <3> QED
            BY <2>2, <3>1, <3>2, AskingTyped
    <2>5. UNCHANGED <<receiver, lives, up, issued>>
        BY <1>6 DEF AskProxy, life
    <2>6. PlacesOK(n, sender[n], receiver[n], up)'
        BY <2>2, <2>4, <2>5, SenderMoves
    <2>7. NodeOK(n)'
        BY <2>3, <2>4, <2>5, <2>6, NodeTyped DEF NodeOK, Probing
    <2> QED
        BY <2>2, <2>3, <2>7 DEF Probed, IsMessage, MessageOK
<1> QED
    BY <1>1, <1>2, <1>3, <1>4, <1>5, <1>6 DEF SenderStep

\* A message one of whose updates has been applied.
Handed(n, msg) == [ReceiverAt(n, "apply") EXCEPT !.msg = [msg EXCEPT !.updates = Tail(@)]]

LEMMA HandedTyped ==
    ASSUME NEW n \in Nodes, NEW msg \in GossipMessage, msg.updates # <<>>
    PROVE  /\ Handed(n, msg) \in Receiver /\ Handed(n, msg).at = "apply"
           /\ Handed(n, msg).msg.type = msg.type /\ Handed(n, msg).msg.to = msg.to
           /\ Handed(n, msg).msg.from = msg.from /\ Handed(n, msg).msg.seq = msg.seq
           /\ Handed(n, msg).msg.target = msg.target
           /\ Handed(n, msg).msg.updates = Tail(msg.updates)
           /\ Head(msg.updates) \in MembershipUpdate
           /\ \A k \in DOMAIN Tail(msg.updates) :
                 k + 1 \in DOMAIN msg.updates /\ Tail(msg.updates)[k] = msg.updates[k + 1]
           /\ 1 \in DOMAIN msg.updates /\ Head(msg.updates) = msg.updates[1]
<1> DEFINE ups == msg.updates
           m == [msg EXCEPT !.updates = Tail(ups)]
<1>1. ups \in Seq(MembershipUpdate) /\ ups # <<>>
    BY DEF GossipMessage
<1>2. /\ Head(ups) \in MembershipUpdate /\ Tail(ups) \in Seq(MembershipUpdate)
      /\ Len(Tail(ups)) = Len(ups) - 1
      /\ \A i \in 1 .. Len(Tail(ups)) : Tail(ups)[i] = ups[i + 1]
    <2> HIDE DEF ups
    <2> QED
        BY <1>1, HeadTailProperties
<1>3. /\ Len(ups) \in Nat /\ Len(ups) # 0
      /\ DOMAIN ups = 1 .. Len(ups) /\ DOMAIN Tail(ups) = 1 .. Len(Tail(ups))
    <2> HIDE DEF ups
    <2> QED
        BY <1>1, <1>2, LenProperties, EmptySeq
<1>4. Head(ups) = ups[1]
    <2> HIDE DEF ups
    <2> QED
        BY <1>1
<1>5. /\ m \in GossipMessage
      /\ m.type = msg.type /\ m.to = msg.to /\ m.from = msg.from /\ m.seq = msg.seq
      /\ m.target = msg.target /\ m.updates = Tail(ups)
    BY <1>2 DEF GossipMessage
<1>6. Handed(n, msg) = [at |-> "apply", msg |-> m, probe_seq |-> 0]
    BY DEF Handed, ReceiverAt
<1>7. \A k \in DOMAIN Tail(ups) : k + 1 \in DOMAIN ups /\ Tail(ups)[k] = ups[k + 1]
    <2> HIDE DEF ups
    <2> QED
        BY <1>2, <1>3
<1>8. 1 \in DOMAIN ups
    <2> HIDE DEF ups
    <2> QED
        BY <1>3
<1> HIDE DEF m, ups
<1>9. /\ Handed(n, msg) \in Receiver /\ Handed(n, msg).at = "apply"
      /\ Handed(n, msg).msg = m
    BY <1>5, <1>6 DEF Receiver, ReceiverPlaces
<1> QED
    BY <1>2, <1>4, <1>5, <1>7, <1>8, <1>9 DEF ups

\* The list after CheckSelfRefutation.
Refuted(n, u) == IF Accuses(n, u) THEN IncrementMyIncarnation(list[n], n) ELSE list[n]

LEMMA ProcessGood ==
    ASSUME TypeInv, NEW n \in Nodes, NEW msg \in GossipMessage, msg.updates # <<>>,
           Process(n, msg)
    PROVE  /\ GoodList(Refuted(n, Head(msg.updates)))
           /\ list'[n] = ApplyUpdate(Refuted(n, Head(msg.updates)), Head(msg.updates))
           /\ GoodList(list'[n])
           /\ receiver'[n] = Handed(n, msg)
           /\ issued'[n] = IF Refuted(n, Head(msg.updates)).my_incarnation > issued[n]
                           THEN Refuted(n, Head(msg.updates)).my_incarnation ELSE issued[n]
           /\ issued'[n] \in Nat
<1> DEFINE u == Head(msg.updates)
           l == Refuted(n, u)
<1>1. u \in MembershipUpdate
    BY HandedTyped
<1>2. /\ list' = [list EXCEPT ![n] = ApplyUpdate(l, u)]
      /\ receiver' = [receiver EXCEPT ![n] = Handed(n, msg)]
      /\ issued' = [issued EXCEPT ![n] = IF l.my_incarnation > issued[n]
                                         THEN l.my_incarnation ELSE issued[n]]
    BY DEF Process, GoReceiver, Handed, Refuted
<1> HIDE DEF u
<1>3. GoodList(l)
    BY NodeTyped, IncrementGood, SwimAssumption DEF Refuted, NodeOK
<1>4. l.my_incarnation \in Nat
    BY <1>3 DEF GoodList, List
<1> HIDE DEF l
<1>5. /\ list'[n] = ApplyUpdate(l, u)
      /\ receiver'[n] = Handed(n, msg)
      /\ issued'[n] = IF l.my_incarnation > issued[n] THEN l.my_incarnation ELSE issued[n]
    BY <1>2, NodeTyped
<1>6. GoodList(list'[n])
    BY <1>1, <1>3, <1>5, ApplyGood DEF Entered
<1> QED
    BY <1>3, <1>4, <1>5, <1>6, NodeTyped DEF l, u

\* A receiver thread that runs may go to any place that suits its message.
LEMMA ReceiverMoves ==
    ASSUME TypeInv, NEW n \in Nodes, receiver[n].at # "off", sender' = sender, up' = up,
           receiver'[n].at \in {"apply", "proxy"} =>
              receiver'[n].msg.to = n /\ MessageOK(receiver'[n].msg),
           receiver'[n].at = "proxy" => receiver'[n].msg.type = "PING_REQ"
    PROVE  PlacesOK(n, sender[n], receiver[n], up)'
BY NodeTyped DEF NodeOK, PlacesOK

LEMMA ListenTyped ==
    ASSUME NEW n \in Nodes
    PROVE  ReceiverAt(n, "listen") \in Receiver /\ ReceiverAt(n, "listen").at = "listen"
BY ReceiverTyped DEF ReceiverPlaces

LEMMA ReceiverStepTyped ==
    ASSUME TypeInv, NEW n \in Nodes, ReceiverStep(n)
    PROVE  /\ NodeOK(n)'
           /\ \A msg \in net' \ net :
                 msg \in GossipMessage /\ msg.updates # <<>> /\ MessageOK(msg)
<1>0. /\ receiver[n] \in Receiver /\ receiver[n].msg \in GossipMessage
      /\ receiver[n].msg.from \in Nodes /\ receiver[n].msg.seq \in Nat
      /\ receiver[n].msg.target \in Members \cup {None}
      /\ AtHand(n) => receiver[n].msg.to = n /\ MessageOK(receiver[n].msg)
    BY NodeTyped DEF NodeOK, PlacesOK, AtHand, Receiver, GossipMessage
<1>1. CASE Receive(n) \/ ProcessNext(n)
    <2>1. PICK msg \in GossipMessage :
             /\ msg.updates # <<>> /\ msg.to = n /\ MessageOK(msg)
             /\ Process(n, msg)
        BY <1>0, <1>1 DEF Receive, ProcessNext, TypeInv, SwimTypeOK, AtHand
    <2>2. /\ GoodList(list'[n]) /\ receiver'[n] = Handed(n, msg) /\ issued'[n] \in Nat
        BY <2>1, ProcessGood
    <2>3. /\ receiver'[n] \in Receiver /\ receiver'[n].at = "apply"
          /\ receiver'[n].msg.to = n /\ MessageOK(receiver'[n].msg)
        BY <2>1, <2>2, HandedTyped DEF MessageOK
    <2>4. /\ receiver[n].at # "off"
          /\ UNCHANGED <<sender, pending, acked, next_seq, lives, up>>
          /\ net' \subseteq net
        BY <1>1 DEF Receive, ProcessNext, acks, life
    <2>5. PlacesOK(n, sender[n], receiver[n], up)'
        BY <2>3, <2>4, ReceiverMoves
    <2> QED
        BY <2>2, <2>3, <2>4, <2>5, NodeTyped DEF NodeOK, Probing
<1>2. CASE HandleAck(n)
    <2>1. receiver'[n] = ReceiverAt(n, "listen")
        BY <1>2, NodeTyped DEF HandleAck, GoReceiver
    <2>2. acked'[n] \subseteq Nat \X Nodes
        BY <1>0, <1>2, NodeTyped DEF HandleAck
    <2>3. /\ receiver[n].at # "off"
          /\ UNCHANGED <<list, sender, pending, next_seq, net, lives, up, issued>>
        BY <1>2 DEF HandleAck, Handling, life
    <2>4. PlacesOK(n, sender[n], receiver[n], up)'
        BY <2>1, <2>3, ListenTyped, ReceiverMoves
    <2> QED
        BY <2>1, <2>2, <2>3, <2>4, NodeTyped, ListenTyped DEF NodeOK, Probing
<1>3. CASE HandlePing(n) \/ ProxyWaitEnds(n)
    <2> DEFINE from == receiver[n].msg.from
               seq == receiver[n].msg.seq
               msg == Message(n, "ACK", from, None, seq)
    <2>1. \/ Send(msg)
          \/ UNCHANGED <<list, net>>
        BY <1>3 DEF HandlePing, ProxyWaitEnds
    <2>2. IsMessage(msg, n, "ACK", from, None, seq)
        <3> HIDE DEF from, seq
        <3>1. from \in Nodes /\ seq \in Nat
            BY <1>0 DEF from, seq
        <3> QED
            BY <3>1, MessageTyped DEF MessageType
    <2> HIDE DEF msg
    <2>3. GoodList(list'[n]) /\ net' \subseteq net \cup {msg}
        <3>1. CASE UNCHANGED <<list, net>>
            BY <3>1, NodeTyped DEF NodeOK
        <3>2. CASE Send(msg)
            <4>1. /\ list' = [list EXCEPT ![n] = AfterAttached(list[n])]
                  /\ net' \subseteq net \cup {msg}
                BY <2>2, <3>2, SendGood DEF IsMessage
            <4> QED
                BY <4>1, NodeTyped, AfterAttachedGood DEF NodeOK
        <3> QED
            BY <2>1, <3>1, <3>2
    <2>4. /\ receiver'[n] = ReceiverAt(n, "listen") /\ receiver[n].at # "off"
          /\ pending'[n] \subseteq pending[n] /\ acked'[n] \subseteq acked[n]
          /\ UNCHANGED <<sender, next_seq, lives, up, issued>>
        BY <1>3, NodeTyped DEF HandlePing, ProxyWaitEnds, Handling, GoReceiver, Erase,
           acks, life
    <2>5. PlacesOK(n, sender[n], receiver[n], up)'
        BY <2>4, ListenTyped, ReceiverMoves
    <2>6. NodeOK(n)'
        BY <2>3, <2>4, <2>5, NodeTyped, ListenTyped DEF NodeOK, Probing
    <2> QED
        BY <2>2, <2>3, <2>6 DEF IsMessage, MessageOK
<1>4. CASE HandlePingReq(n)
    <2>1. /\ receiver[n].at = "apply" /\ receiver[n].msg.type = "PING_REQ"
          /\ UNCHANGED <<sender, lives, up, issued>>
        BY <1>4 DEF HandlePingReq, Handling, life
    <2>2. receiver[n].msg.target \in Members
        BY <1>0, <2>1 DEF AtHand, MessageOK
    <2>3. CASE GoReceiver(n, ReceiverAt(n, "listen")) /\ UNCHANGED <<list, acks, next_seq, net>>
        <3>1. receiver'[n] = ReceiverAt(n, "listen")
            BY <2>3, NodeTyped DEF GoReceiver
        <3>2. PlacesOK(n, sender[n], receiver[n], up)'
            BY <2>1, <3>1, ListenTyped, ReceiverMoves
        <3> QED
            BY <2>1, <2>3, <3>1, <3>2, NodeTyped, ListenTyped DEF NodeOK, Probing, acks
    <2>4. CASE /\ Probe(n, "PING", receiver[n].msg.target, None)
               /\ GoReceiver(n, [receiver[n] EXCEPT !.at = "proxy", !.probe_seq = next_seq[n]])
        <3> DEFINE m == receiver[n].msg.target
        <3>1. Probe(n, "PING", m, None) /\ m \in Members
            BY <2>2, <2>4
        <3> HIDE DEF m
        <3>2. /\ Probed(n, "PING", m, None)
              /\ GoodList(list'[n]) /\ pending'[n] \subseteq Nat /\ next_seq'[n] \in Nat
              /\ acked' = acked
            BY <3>1, ProbeGood DEF MessageType
        <3>3. /\ receiver'[n] \in Receiver /\ receiver'[n].at = "proxy"
              /\ receiver'[n].msg = receiver[n].msg
            <4>1. receiver'[n] = [receiver[n] EXCEPT !.at = "proxy", !.probe_seq = next_seq[n]]
                BY <2>4, NodeTyped DEF GoReceiver
            <4>2. next_seq[n] \in Nat
                BY NodeTyped
            <4> QED
                BY <1>0, <4>1, <4>2 DEF Receiver, ReceiverPlaces
        <3>4. PlacesOK(n, sender[n], receiver[n], up)'
            BY <1>0, <2>1, <3>3, ReceiverMoves DEF AtHand
        <3>5. NodeOK(n)'
            BY <2>1, <3>2, <3>3, <3>4, NodeTyped DEF NodeOK, Probing
        <3> QED
            BY <3>2, <3>5 DEF Probed, IsMessage, MessageOK
    <2> QED
        BY <1>4, <2>3, <2>4 DEF HandlePingReq
<1> QED
    BY <1>1, <1>2, <1>3, <1>4 DEF ReceiverStep

LEMMA TypeStep == TypeInv /\ [Next]_vars => TypeInv'
<1> SUFFICES ASSUME TypeInv, [Next]_vars
             PROVE  TypeInv'
    OBVIOUS
<1>1. ASSUME NEW n \in Nodes, NodeStep(n)
      PROVE  TypeInv'
    <2>1. OnlyNode(n)
        BY <1>1, OnlyThatNode
    <2>2. /\ NodeOK(n)'
          /\ \A msg \in net' \ net :
                msg \in GossipMessage /\ msg.updates # <<>> /\ MessageOK(msg)
        BY <1>1, LifeTyped, SenderStepTyped, ReceiverStepTyped DEF NodeStep
    <2> QED
        BY <2>1, <2>2, TypedStep
<1>2. CASE UNCHANGED vars
    BY <1>2
    DEF vars, acks, life, TypeInv, SwimTypeOK, Places, Probing, AtHand
<1> QED
    BY <1>1, <1>2 DEF Next, Quiesced

LEMMA TypeInit == Init => TypeInv
<1> SUFFICES ASSUME Init PROVE TypeInv
    OBVIOUS
<1>1. ASSUME NEW n \in Nodes
      PROVE  GoodList(list[n])
    <2> DEFINE ms == [m \in Members |-> IF m \in Known[n] THEN Info("ALIVE", 0) ELSE Unknown]
    <2>1. ms \in [Members -> MemberInfo]
        BY ClaimTyped DEF MemberState
    <2>2. list[n] = [members |-> ms, my_incarnation |-> 0, buffer |-> <<>>]
        BY DEF Init, EmptyList
    <2> HIDE DEF ms
    <2> QED
        BY <2>1, <2>2, EmptySeq, ListAssumption DEF GoodList, List
<1>2. list \in [Nodes -> List] /\ \A n \in Nodes : Len(list[n].buffer) <= kMaxPiggybackBuffer
    BY <1>1 DEF Init, GoodList
<1>3. /\ sender \in [Nodes -> Sender] /\ \A n \in Nodes : sender[n].at = "idle"
      /\ receiver \in [Nodes -> Receiver] /\ \A n \in Nodes : receiver[n].at = "listen"
    BY PlaceTyped, ListenTyped DEF Init, SenderPlaces
<1>4. /\ pending \in [Nodes -> SUBSET Nat] /\ acked \in [Nodes -> SUBSET (Nat \X Nodes)]
      /\ next_seq \in [Nodes -> Nat] /\ lives \in [Nodes -> Nat]
      /\ issued \in [Nodes -> Nat] /\ \A n \in Nodes : lives[n] > 0
    BY DEF Init
<1>5. net = {} /\ up = Nodes
    BY DEF Init
<1>6. \A n \in Nodes : Places(n) /\ ~Probing(n)
    BY <1>3, <1>5 DEF Places, AtHand, Probing
<1>7. SwimTypeOK
    BY <1>2, <1>3, <1>4, <1>5, <1>6 DEF SwimTypeOK
<1> QED
    BY <1>4, <1>5, <1>6, <1>7 DEF TypeInv

LEMMA Typed == Spec => []TypeInv
BY TypeInit, TypeStep, PTL DEF Spec

\* Type correctness of the gossip protocol: the piggyback buffers keep to their
\* bound, and a thread waits only for the ACK of a member it has chosen.
THEOREM SwimTypeCorrect == Spec => []SwimTypeOK
<1>1. TypeInv => SwimTypeOK
    BY DEF TypeInv
<1> QED
    BY <1>1, Typed, PTL

-----------------------------------------------------------------------------
(* What a step does to a node's list                                       *)

\* Every update that msg carries is a rumour of n's buffer, or n's own entry.
News(n, msg) ==
    \A k \in DOMAIN msg.updates :
        \/ msg.updates[k] \in Rumours(list[n])
        \/ msg.updates[k] = Update(n, Info("ALIVE", list[n].my_incarnation))

\* n applies the first update of msg, which it has received.
Applies(n, msg) ==
    LET u == Head(msg.updates) IN
    /\ msg \in GossipMessage /\ msg.updates # <<>>
    /\ msg \in net \/ (AtHand(n) /\ msg = receiver[n].msg)
    /\ list'[n] = ApplyUpdate(Refuted(n, u), u)
    /\ receiver'[n] = Handed(n, msg)
    /\ issued'[n] = IF Refuted(n, u).my_incarnation > issued[n]
                    THEN Refuted(n, u).my_incarnation ELSE issued[n]
    /\ UNCHANGED <<sender, lives, up>>
    /\ net' \subseteq net

\* n leaves its list, sends, marks a member it suspects or promotes, or learns of
\* a seed.
Tells(n) ==
    /\ list'[n] = AfterAttached(list[n])
    /\ \E msg : News(n, msg) /\ net' \subseteq net \cup {msg}
Marks(n) ==
    /\ \E m \in Members :
          /\ (Probing(n) /\ m = sender[n].peer) \/ m \in sender[n].overdue
          /\ list'[n] \in {MarkSuspect(list[n], m), MarkDead(list[n], m)}
    /\ net' = net
Learns(n) ==
    /\ \E m \in Members : list'[n] = AddMember(list[n], m)
    /\ net' = net

Works(n) ==
    /\ UNCHANGED <<issued, lives, up>>
    /\ AtHand(n)' => AtHand(n) /\ receiver'[n].msg = receiver[n].msg
    /\ \/ list'[n] = list[n] /\ net' \subseteq net
       \/ Tells(n) \/ Marks(n) \/ Learns(n)

LEMMA LifeWorks ==
    ASSUME TypeInv, NEW n \in Nodes, Start(n) \/ \E m \in Members : JoinSeed(n, m)
    PROVE  Works(n)
<1>1. CASE Start(n)
    BY <1>1, NodeTyped, ReceiverTyped
    DEF Start, GoReceiver, Works, AtHand, ReceiverPlaces, life
<1>2. ASSUME NEW m \in Members, JoinSeed(n, m)
      PROVE  Works(n)
    BY <1>2, NodeTyped DEF JoinSeed, Works, Learns, AtHand, life
<1> QED
    BY <1>1, <1>2

LEMMA ProbeTells ==
    ASSUME TypeInv, NEW n \in Nodes, NEW type \in MessageType, NEW m \in Members,
           NEW target \in Members \cup {None}, Probe(n, type, m, target)
    PROVE  Tells(n)
<1>1. /\ Probed(n, type, m, target)
      /\ list' = [list EXCEPT ![n] = AfterAttached(list[n])]
    BY ProbeGood
<1>2. list'[n] = AfterAttached(list[n])
    BY <1>1, NodeTyped
<1> QED
    BY <1>1, <1>2 DEF Probed, IsMessage, Tells, News

LEMMA SenderWorks ==
    ASSUME TypeInv, NEW n \in Nodes, SenderStep(n)
    PROVE  Works(n)
<1>1. CASE \/ NobodyToPing(n) \/ DirectAck(n) \/ DirectTimeout(n)
           \/ NobodyToAsk(n) \/ ScanSuspects(n)
    <2>1. UNCHANGED <<list, net, receiver, issued, lives, up>>
        BY <1>1 DEF NobodyToPing, DirectAck, DirectTimeout, NobodyToAsk, ScanSuspects,
           life
    <2> QED
        BY <2>1 DEF Works, AtHand
<1>2. CASE Ping(n)
    <2>1. PICK m \in Members : Probe(n, "PING", m, None)
        BY <1>2 DEF Ping, Peers
    <2>2. Tells(n)
        BY <2>1, ProbeTells DEF MessageType
    <2> QED
        BY <1>2, <2>2 DEF Ping, Works, AtHand, life
<1>3. CASE AskProxy(n)
    <2>1. PICK m \in Members : Probe(n, "PING_REQ", m, sender[n].peer)
        BY <1>3 DEF AskProxy, Proxies, Peers
    <2>2. sender[n].peer \in Members \cup {None}
        BY NodeTyped DEF NodeOK, Sender
    <2>3. Tells(n)
        BY <2>1, <2>2, ProbeTells DEF MessageType
    <2> QED
        BY <1>3, <2>3 DEF AskProxy, Works, AtHand, life
<1>4. CASE IndirectWaitEnds(n)
    <2>1. Probing(n) /\ sender[n].peer \in Members
        BY <1>4, NodeTyped DEF IndirectWaitEnds, Probing, NodeOK
    <2>2. /\ list'[n] = list[n] \/ list'[n] = MarkSuspect(list[n], sender[n].peer)
          /\ UNCHANGED <<net, receiver, issued, lives, up>>
        BY <1>4, NodeTyped DEF IndirectWaitEnds, life
    <2> QED
        BY <2>1, <2>2 DEF Works, Marks, AtHand
<1>5. CASE Promote(n)
    <2>1. PICK m \in sender[n].overdue : list' = [list EXCEPT ![n] = MarkDead(@, m)]
        BY <1>5 DEF Promote
    <2>2. m \in Members /\ list'[n] = MarkDead(list[n], m)
        BY <2>1, NodeTyped DEF NodeOK, Sender
    <2>3. UNCHANGED <<net, receiver, issued, lives, up>>
        BY <1>5 DEF Promote, life
    <2> QED
        BY <2>1, <2>2, <2>3 DEF Works, Marks, AtHand
<1> QED
    BY <1>1, <1>2, <1>3, <1>4, <1>5 DEF SenderStep

LEMMA ReceiverWorks ==
    ASSUME TypeInv, NEW n \in Nodes, ReceiverStep(n)
    PROVE  Works(n) \/ \E msg : Applies(n, msg)
<1>0. /\ receiver[n] \in Receiver /\ receiver[n].msg \in GossipMessage
      /\ receiver[n].msg.from \in Nodes /\ receiver[n].msg.seq \in Nat
      /\ receiver[n].msg.target \in Members \cup {None}
      /\ AtHand(n) => MessageOK(receiver[n].msg)
    BY NodeTyped DEF NodeOK, PlacesOK, AtHand, Receiver, GossipMessage
<1>1. CASE Receive(n) \/ ProcessNext(n)
    <2>1. PICK msg \in GossipMessage :
             /\ msg.updates # <<>>
             /\ msg \in net \/ (AtHand(n) /\ msg = receiver[n].msg)
             /\ Process(n, msg)
        BY <1>0, <1>1 DEF Receive, ProcessNext, TypeInv, SwimTypeOK, AtHand
    <2>2. UNCHANGED <<sender, lives, up>> /\ net' \subseteq net
        BY <1>1 DEF Receive, ProcessNext, life
    <2>3. Applies(n, msg)
        BY <2>1, <2>2, ProcessGood DEF Applies
    <2> QED
        BY <2>3
<1>2. CASE HandleAck(n)
    <2>1. UNCHANGED <<list, net, issued, lives, up>> /\ receiver'[n] = ReceiverAt(n, "listen")
        BY <1>2, NodeTyped DEF HandleAck, GoReceiver, life
    <2> QED
        BY <2>1, ListenTyped DEF Works, AtHand
<1>3. CASE HandlePing(n) \/ ProxyWaitEnds(n)
    <2> DEFINE from == receiver[n].msg.from
               seq == receiver[n].msg.seq
               msg == Message(n, "ACK", from, None, seq)
    <2>1. Send(msg) \/ UNCHANGED <<list, net>>
        BY <1>3 DEF HandlePing, ProxyWaitEnds
    <2>2. IsMessage(msg, n, "ACK", from, None, seq)
        <3> HIDE DEF from, seq
        <3>1. from \in Nodes /\ seq \in Nat
            BY <1>0 DEF from, seq
        <3> QED
            BY <3>1, MessageTyped DEF MessageType
    <2> HIDE DEF msg
    <2>3. Tells(n) \/ UNCHANGED <<list, net>>
        <3>1. CASE Send(msg)
            <4>1. /\ list' = [list EXCEPT ![n] = AfterAttached(list[n])]
                  /\ net' \subseteq net \cup {msg}
                BY <2>2, <3>1, SendGood DEF IsMessage
            <4> QED
                BY <2>2, <4>1, NodeTyped DEF Tells, News, IsMessage
        <3> QED
            BY <2>1, <3>1
    <2>4. receiver'[n] = ReceiverAt(n, "listen") /\ UNCHANGED <<issued, lives, up>>
        BY <1>3, NodeTyped DEF HandlePing, ProxyWaitEnds, GoReceiver, life
    <2> QED
        BY <2>3, <2>4, ListenTyped DEF Works, AtHand
<1>4. CASE HandlePingReq(n)
    <2>1. AtHand(n) /\ receiver[n].msg.target \in Members
        BY <1>0, <1>4 DEF HandlePingReq, Handling, AtHand, MessageOK
    <2>2. UNCHANGED <<issued, lives, up>>
        BY <1>4 DEF HandlePingReq, life
    <2>3. CASE GoReceiver(n, ReceiverAt(n, "listen")) /\ UNCHANGED <<list, net>>
        <3>1. receiver'[n] = ReceiverAt(n, "listen")
            BY <2>3, NodeTyped DEF GoReceiver
        <3> QED
            BY <2>2, <2>3, <3>1, ListenTyped DEF Works, AtHand
    <2>4. CASE /\ Probe(n, "PING", receiver[n].msg.target, None)
               /\ GoReceiver(n, [receiver[n] EXCEPT !.at = "proxy", !.probe_seq = next_seq[n]])
        <3> DEFINE m == receiver[n].msg.target
        <3>1. Probe(n, "PING", m, None) /\ m \in Members
            BY <2>1, <2>4
        <3> HIDE DEF m
        <3>2. Tells(n)
            BY <3>1, ProbeTells DEF MessageType
        <3>3. receiver'[n].msg = receiver[n].msg
            BY <1>0, <2>4, NodeTyped DEF GoReceiver, Receiver
        <3> QED
            BY <2>1, <2>2, <3>2, <3>3 DEF Works
    <2> QED
        BY <1>4, <2>3, <2>4 DEF HandlePingReq, acks
<1> QED
    BY <1>1, <1>2, <1>3, <1>4 DEF ReceiverStep

LEMMA StepWorks ==
    ASSUME TypeInv, NEW n \in Nodes, NodeStep(n)
    PROVE  Crash(n) \/ Construct(n) \/ Works(n) \/ \E msg : Applies(n, msg)
BY LifeWorks, SenderWorks, ReceiverWorks DEF NodeStep

LEMMA ApplyAtOther ==
    ASSUME TypeInv, NEW n \in Nodes, NEW msg, Applies(n, msg), NEW m \in Members \ {n}
    PROVE  NotOlder(list'[n].members[m], list[n].members[m])
<1> DEFINE u == Head(msg.updates)
           l == Refuted(n, u)
<1>1. u \in MembershipUpdate /\ list'[n] = ApplyUpdate(l, u)
    BY HandedTyped DEF Applies
<1> HIDE DEF u
<1>2. GoodList(l) /\ l.members[m] = list[n].members[m]
    BY NodeTyped, IncrementGood, SwimAssumption DEF Refuted, NodeOK
<1> HIDE DEF l
<1>3. u.id \in Members /\ l.members[m] \in MemberInfo
    BY <1>1, <1>2 DEF GoodList, List, MembershipUpdate
<1>4. CASE m = u.id
    BY <1>1, <1>2, <1>4, ApplyGood
<1>5. CASE m # u.id
    <2>1. list'[n].members[m] = list[n].members[m]
        BY <1>1, <1>2, <1>5, ApplyGood DEF Entered
    <2> QED
        BY <1>2, <1>3, <2>1 DEF NotOlder, MemberInfo, MemberState, Strength
<1> QED
    BY <1>4, <1>5

LEMMA NotOlderItself == \A i \in MemberInfo : NotOlder(i, i)
BY DEF NotOlder, MemberInfo, MemberState, Strength

\* Whatever rumours arrive, and whatever its own failure detector adds, a running
\* node's belief about another member never goes back.
THEOREM BeliefsGoForward == Spec => NeverRegresses
<1> DEFINE Forward == \A n \in up \cap up' : \A m \in Members \ {n} :
                          NotOlder(list'[n].members[m], list[n].members[m])
<1>1. TypeInv /\ [Next]_vars => Forward
    <2> SUFFICES ASSUME TypeInv, [Next]_vars, NEW n \in up \cap up', NEW m \in Members \ {n}
                 PROVE  NotOlder(list'[n].members[m], list[n].members[m])
        BY Zenon
    <2>1. n \in Nodes /\ GoodList(list[n]) /\ list[n].members[m] \in MemberInfo
        BY NodeTyped DEF NodeOK, GoodList, List
    <2>2. CASE list'[n].members[m] = list[n].members[m]
        BY <2>1, <2>2, NotOlderItself
    <2>3. ASSUME NEW x \in Nodes, NodeStep(x), x # n
          PROVE  list'[n] = list[n]
        BY <2>1, <2>3, OnlyThatNode, NodeTyped DEF OnlyNode
    <2>4. ASSUME NodeStep(n)
          PROVE  NotOlder(list'[n].members[m], list[n].members[m])
        <3>1. ~Crash(n) /\ ~Construct(n)
            BY <2>1 DEF Crash, Construct
        <3>2. ASSUME NEW msg, Applies(n, msg)
              PROVE  NotOlder(list'[n].members[m], list[n].members[m])
            BY <2>1, <3>2, ApplyAtOther
        <3>3. CASE Tells(n)
            BY <2>1, <2>2, <3>3, AfterAttachedGood DEF Tells
        <3>4. CASE Marks(n)
            <4>1. PICK y \in Members : list'[n] \in {MarkSuspect(list[n], y), MarkDead(list[n], y)}
                BY <3>4 DEF Marks
            <4>2. /\ Entered(list[n], list'[n], y)
                  /\ NotOlder(list'[n].members[y], list[n].members[y])
                BY <2>1, <4>1, MarkGood
            <4> QED
                BY <2>2, <4>2 DEF Entered
        <3>5. CASE Learns(n)
            <4>1. PICK y \in Members : list'[n] = AddMember(list[n], y)
                BY <3>5 DEF Learns
            <4>2. /\ Entered(list[n], list'[n], y)
                  /\ list[n].members[y] # Unknown => list'[n] = list[n]
                BY <2>1, <4>1, AddMemberGood
            <4>3. CASE y = m /\ list[n].members[m] = Unknown
                BY <4>3 DEF NotOlder, Unknown, Info
            <4> QED
                BY <2>2, <4>2, <4>3 DEF Entered
        <3> QED
            BY <2>1, <2>2, <2>4, <3>1, <3>2, <3>3, <3>4, <3>5, StepWorks DEF Works
    <2> QED
        BY <2>2, <2>3, <2>4 DEF Next, Quiesced, vars
<1> HIDE DEF Forward
<1>2. Spec => [][Forward]_vars
    BY <1>1, Typed, PTL DEF Spec
<1> QED
    BY <1>2 DEF NeverRegresses, Forward

-----------------------------------------------------------------------------
(* Incarnations                                                            *)

\* What IncarnationsIssued says of one list, of a set of updates, and of it all,
\* when the nodes have been at is.
SourcedBy(is, m, i) == i <= IF m \in Nodes THEN is[m] ELSE 0

HeardBy(is, u) == SourcedBy(is, u.id, u.info.incarnation)

ListSourced(is, l) ==
    /\ \A m \in Members : SourcedBy(is, m, l.members[m].incarnation)
    /\ \A u \in Rumours(l) : HeardBy(is, u)

NodeSourced(is, n) ==
    /\ list[n].my_incarnation <= is[n]
    /\ ListSourced(is, list[n])
    /\ AtHand(n) => \A k \in DOMAIN receiver[n].msg.updates :
                        HeardBy(is, receiver[n].msg.updates[k])

NetSourced(is) == \A msg \in net : \A k \in DOMAIN msg.updates : HeardBy(is, msg.updates[k])

SourceInv == (\A n \in Nodes : NodeSourced(issued, n)) /\ NetSourced(issued)

LEMMA SourceMeans ==
    ASSUME TypeInv
    PROVE  SourceInv <=> IncarnationsIssued
<1>1. \A m, i : Sourced(m, i) <=> SourcedBy(issued, m, i)
    BY DEF Sourced, SourcedBy
<1>2. ASSUME NEW n \in Nodes
      PROVE  AllSourced([k \in DOMAIN list[n].buffer |-> list[n].buffer[k].update])
                <=> \A u \in Rumours(list[n]) : HeardBy(issued, u)
    BY <1>1 DEF AllSourced, HeardBy, Rumours
<1>3. \A ups : AllSourced(ups) <=> \A k \in DOMAIN ups : HeardBy(issued, ups[k])
    BY <1>1 DEF AllSourced, HeardBy
<1> QED
    BY <1>1, <1>2, <1>3
    DEF SourceInv, NetSourced, NodeSourced, ListSourced, IncarnationsIssued

\* Incarnations are only counted up.
LEMMA SourcedLater ==
    ASSUME NEW is \in [Nodes -> Nat], NEW js \in [Nodes -> Nat],
           \A n \in Nodes : is[n] <= js[n]
    PROVE  /\ \A m : \A i \in Nat : SourcedBy(is, m, i) => SourcedBy(js, m, i)
           /\ \A u \in MembershipUpdate : HeardBy(is, u) => HeardBy(js, u)
           /\ \A l : GoodList(l) /\ ListSourced(is, l) => ListSourced(js, l)
<1>1. \A m : \A i \in Nat : SourcedBy(is, m, i) => SourcedBy(js, m, i)
    BY DEF SourcedBy
<1>2. \A u \in MembershipUpdate : HeardBy(is, u) => HeardBy(js, u)
    BY <1>1 DEF HeardBy, MembershipUpdate
<1>3. ASSUME NEW l, GoodList(l), ListSourced(is, l)
      PROVE  ListSourced(js, l)
    <2>1. \A u \in Rumours(l) : u \in MembershipUpdate
        BY <1>3, RumoursTyped
    <2>2. \A m \in Members : l.members[m].incarnation \in Nat
        BY <1>3 DEF GoodList, List, MemberInfo
    <2> QED
        BY <1>1, <1>2, <1>3, <2>1, <2>2 DEF ListSourced
<1> QED
    BY <1>1, <1>2, <1>3

LEMMA EnteredSourced ==
    ASSUME NEW is, NEW l, NEW k, NEW m \in Members, ListSourced(is, l), Entered(l, k, m),
           SourcedBy(is, m, k.members[m].incarnation)
    PROVE  ListSourced(is, k)
BY DEF ListSourced, Entered, HeardBy, Update

LEMMA ZeroSourced ==
    ASSUME NEW is \in [Nodes -> Nat]
    PROVE  /\ \A m : SourcedBy(is, m, 0)
           /\ ListSourced(is, EmptyList)
<1>1. \A m : SourcedBy(is, m, 0)
    BY DEF SourcedBy
<1>2. \A m \in Members : EmptyList.members[m].incarnation = 0
    BY DEF EmptyList, Unknown, Info
<1> QED
    BY <1>1, <1>2, EmptyGood DEF ListSourced

LEMMA AddedSourced ==
    ASSUME NEW is \in [Nodes -> Nat], NEW l, GoodList(l), ListSourced(is, l),
           NEW m \in Members
    PROVE  ListSourced(is, AddMember(l, m))
<1>1. CASE l.members[m] = Unknown
    <2>1. /\ Entered(l, AddMember(l, m), m)
          /\ AddMember(l, m).members[m].incarnation = 0
        BY <1>1, AddMemberGood DEF Info
    <2> QED
        BY <2>1, ZeroSourced, EnteredSourced
<1>2. CASE l.members[m] # Unknown
    BY <1>2, AddMemberGood
<1> QED
    BY <1>1, <1>2

\* A message of n repeats what n has heard, and says where n is.
LEMMA NewsSourced ==
    ASSUME NEW n \in Nodes, NEW msg, News(n, msg), NodeSourced(issued, n)
    PROVE  \A k \in DOMAIN msg.updates : HeardBy(issued, msg.updates[k])
BY DEF News, NodeSourced, ListSourced, HeardBy, SourcedBy, Update, Info

\* Where n is after it has heard u, and what it then takes over.
LEMMA AppliedSourced ==
    ASSUME TypeInv, SourceInv, NEW n \in Nodes, NEW msg, Applies(n, msg), OnlyNode(n)
    PROVE  /\ \A x \in Nodes : issued[x] <= issued'[x]
           /\ NodeSourced(issued, n)'
<1> DEFINE u == Head(msg.updates)
           l == Refuted(n, u)
<1>1. /\ u \in MembershipUpdate /\ \A k \in DOMAIN msg.updates : HeardBy(issued, msg.updates[k])
      /\ HeardBy(issued, u)
    BY HandedTyped DEF Applies, SourceInv, NodeSourced, NetSourced
<1>2. /\ issued \in [Nodes -> Nat] /\ issued' = [issued EXCEPT ![n] = issued'[n]]
      /\ GoodList(list[n]) /\ list[n].my_incarnation \in Nat
    BY NodeTyped DEF OnlyNode, NodeOK, GoodList, List
<1>3. /\ list'[n] = ApplyUpdate(l, u)
      /\ receiver'[n] = Handed(n, msg)
      /\ issued'[n] = IF l.my_incarnation > issued[n] THEN l.my_incarnation ELSE issued[n]
    BY DEF Applies
<1> HIDE DEF u
<1>4. /\ GoodList(l) /\ l.my_incarnation \in Nat
      /\ \/ l = list[n]
         \/ /\ l.members[n].incarnation = l.my_incarnation
            /\ \A x \in Members \ {n} : l.members[x] = list[n].members[x]
            /\ \A v \in Rumours(l) : v \in Rumours(list[n]) \/ v = Update(n, l.members[n])
    <2>1. CASE Accuses(n, u)
        <3>1. l = IncrementMyIncarnation(list[n], n)
            BY <2>1 DEF Refuted
        <3>2. n \in Members
            BY SwimAssumption
        <3> HIDE DEF l
        <3>3. /\ GoodList(l) /\ l.my_incarnation = list[n].my_incarnation + 1
              /\ l.members[n] = Info("ALIVE", list[n].my_incarnation + 1)
              /\ \A x \in Members \ {n} : l.members[x] = list[n].members[x]
              /\ \A v \in Rumours(l) :
                    v \in Rumours(list[n]) \/ v = Update(n, l.members[n])
            BY <1>2, <3>1, <3>2, IncrementGood, Zenon
        <3>4. l.members[n].incarnation = l.my_incarnation
            BY <3>3 DEF Info
        <3>5. l.my_incarnation \in Nat
            BY <1>2, <3>3
        <3> QED
            BY <3>3, <3>4, <3>5
    <2>2. CASE ~Accuses(n, u)
        BY <1>2, <2>2 DEF Refuted
    <2> QED
        BY <2>1, <2>2
<1> HIDE DEF l
<1>5. /\ issued'[n] \in Nat /\ issued[n] <= issued'[n] /\ l.my_incarnation <= issued'[n]
    BY <1>2, <1>3, <1>4
<1>6. issued' \in [Nodes -> Nat] /\ \A x \in Nodes : issued[x] <= issued'[x]
    BY <1>2, <1>5
<1>7. ListSourced(issued', list[n])
    BY <1>2, <1>6, SourcedLater DEF SourceInv, NodeSourced
<1>8. ListSourced(issued', l)
    <2>1. CASE l = list[n]
        BY <1>7, <2>1
    <2>2. CASE /\ l.members[n].incarnation = l.my_incarnation
               /\ \A x \in Members \ {n} : l.members[x] = list[n].members[x]
               /\ \A v \in Rumours(l) : v \in Rumours(list[n]) \/ v = Update(n, l.members[n])
        <3>1. SourcedBy(issued', n, l.members[n].incarnation)
            BY <1>5, <2>2 DEF SourcedBy
        <3> QED
            BY <1>7, <2>2, <3>1 DEF ListSourced, HeardBy, Update
    <2> QED
        BY <1>4, <2>1, <2>2
<1>9. HeardBy(issued', u) /\ u.id \in Members
    BY <1>1, <1>2, <1>6, SourcedLater DEF MembershipUpdate
<1>10. ListSourced(issued', list'[n]) /\ list'[n].my_incarnation = l.my_incarnation
    <2>1. CASE list'[n] = l
        BY <1>8, <2>1
    <2>2. CASE list'[n].members[u.id] = u.info
        BY <1>1, <1>3, <1>4, <1>8, <1>9, <2>2, ApplyGood, EnteredSourced DEF HeardBy,
           Entered
    <2> QED
        BY <1>1, <1>3, <1>4, <2>1, <2>2, ApplyGood
<1>11. \A k \in DOMAIN receiver'[n].msg.updates :
            HeardBy(issued', receiver'[n].msg.updates[k])
    <2>1. \A k \in DOMAIN receiver'[n].msg.updates :
              /\ receiver'[n].msg.updates[k] = msg.updates[k + 1]
              /\ k + 1 \in DOMAIN msg.updates
        BY <1>3, HandedTyped DEF Applies
    <2>2. \A k \in DOMAIN msg.updates : msg.updates[k] \in MembershipUpdate
        BY ElementOfSeq, LenProperties DEF Applies, GossipMessage
    <2> QED
        BY <1>1, <1>2, <1>6, <2>1, <2>2, SourcedLater
<1>12. NodeSourced(issued, n)'
    BY <1>5, <1>10, <1>11 DEF NodeSourced
<1> QED
    BY <1>6, <1>12

LEMMA SourceInit == Init => SourceInv
<1> SUFFICES ASSUME Init PROVE SourceInv
    OBVIOUS
<1>1. TypeInv /\ issued \in [Nodes -> Nat] /\ \A m : SourcedBy(issued, m, 0)
    BY TypeInit, ZeroSourced DEF Init
<1>2. ASSUME NEW n \in Nodes
      PROVE  NodeSourced(issued, n)
    <2>1. /\ list[n].my_incarnation = 0 /\ list[n].buffer = <<>>
          /\ \A m \in Members : list[n].members[m].incarnation = 0
        BY DEF Init, EmptyList, Unknown, Info
    <2>2. ~AtHand(n)
        BY ListenTyped DEF Init, AtHand
    <2>3. Rumours(list[n]) = {}
        <3>1. \A b : b = <<>> => DOMAIN b = {}
            OBVIOUS
        <3> QED
            BY <2>1, <3>1, Zenon DEF Rumours
    <2>4. issued[n] = 0
        BY DEF Init
    <2> QED
        BY <1>1, <2>1, <2>2, <2>3, <2>4 DEF NodeSourced, ListSourced
<1> QED
    BY <1>2 DEF Init, SourceInv, NetSourced

LEMMA WorksSourced ==
    ASSUME TypeInv, SourceInv, NEW n \in Nodes, OnlyNode(n),
           Crash(n) \/ Construct(n) \/ Works(n)
    PROVE  /\ issued' = issued
           /\ NodeSourced(issued, n)'
           /\ \A msg \in net' \ net : \A k \in DOMAIN msg.updates :
                  HeardBy(issued, msg.updates[k])
<1>0. /\ issued \in [Nodes -> Nat] /\ GoodList(list[n]) /\ NodeSourced(issued, n)
      /\ list[n].my_incarnation \in Nat
    BY NodeTyped DEF SourceInv, NodeOK, GoodList, List
<1>1. /\ issued' = issued
      /\ AtHand(n)' => AtHand(n) /\ receiver'[n].msg = receiver[n].msg
      /\ ListSourced(issued, list'[n])
      /\ list'[n].my_incarnation \in {0, list[n].my_incarnation}
      /\ \/ net' \subseteq net
         \/ \E msg : News(n, msg) /\ net' \subseteq net \cup {msg}
    <2>1. CASE Crash(n)
        <3>1. list'[n] = EmptyList /\ receiver'[n] = ReceiverAt(n, "off")
            BY <2>1, NodeTyped DEF Crash, GoReceiver
        <3>2. ~AtHand(n)' /\ EmptyList.my_incarnation = 0
            BY <3>1, ReceiverTyped DEF AtHand, ReceiverPlaces, EmptyList
        <3> QED
            BY <1>0, <2>1, <3>1, <3>2, ZeroSourced DEF Crash
    <2>2. CASE Construct(n)
        <3>1. n \in Members /\ EmptyList.my_incarnation = 0
            BY SwimAssumption DEF EmptyList
        <3>2. list'[n] = AddMember(EmptyList, n)
            BY <2>2, NodeTyped DEF Construct
        <3>3. /\ ListSourced(issued, list'[n])
              /\ list'[n].my_incarnation = 0
            BY <1>0, <3>1, <3>2, ZeroSourced, EmptyGood, AddedSourced, AddMemberGood
            DEF Entered
        <3> QED
            BY <2>2, <3>3 DEF Construct, AtHand
    <2>3. CASE Works(n)
        <3>1. CASE list'[n] = list[n] /\ net' \subseteq net
            BY <1>0, <2>3, <3>1 DEF Works, NodeSourced
        <3>2. CASE Tells(n)
            <4>1. /\ ListSourced(issued, list'[n])
                  /\ list'[n].my_incarnation = list[n].my_incarnation
                BY <1>0, <3>2, AfterAttachedGood DEF Tells, NodeSourced, ListSourced
            <4> QED
                BY <2>3, <3>2, <4>1 DEF Works, Tells
        <3>3. CASE Marks(n)
            <4>1. PICK m \in Members : list'[n] \in {MarkSuspect(list[n], m), MarkDead(list[n], m)}
                BY <3>3 DEF Marks
            <4>2. /\ Entered(list[n], list'[n], m)
                  /\ list'[n].members[m].incarnation = list[n].members[m].incarnation
                BY <1>0, <4>1, MarkGood
            <4>3. ListSourced(issued, list[n])
                BY <1>0 DEF NodeSourced
            <4>4. SourcedBy(issued, m, list'[n].members[m].incarnation)
                BY <4>2, <4>3 DEF ListSourced
            <4>5. ListSourced(issued, list'[n])
                BY <4>2, <4>3, <4>4, EnteredSourced
            <4> QED
                BY <2>3, <3>3, <4>2, <4>5 DEF Works, Marks, Entered
        <3>4. CASE Learns(n)
            <4>1. PICK m \in Members : list'[n] = AddMember(list[n], m)
                BY <3>4 DEF Learns
            <4>2. /\ ListSourced(issued, list'[n])
                  /\ list'[n].my_incarnation = list[n].my_incarnation
                BY <1>0, <4>1, AddedSourced, AddMemberGood DEF NodeSourced, Entered
            <4> QED
                BY <2>3, <3>4, <4>2 DEF Works, Learns
        <3> QED
            BY <2>3, <3>1, <3>2, <3>3, <3>4 DEF Works
    <2> QED
        BY <2>1, <2>2, <2>3
<1>2. list'[n].my_incarnation <= issued'[n]
    BY <1>0, <1>1 DEF NodeSourced
<1>3. NodeSourced(issued, n)'
    BY <1>0, <1>1, <1>2 DEF NodeSourced
<1> QED
    BY <1>0, <1>1, <1>3, NewsSourced

LEMMA SourceStep == TypeInv /\ TypeInv' /\ SourceInv /\ [Next]_vars => SourceInv'
<1> SUFFICES ASSUME TypeInv, TypeInv', SourceInv, [Next]_vars
             PROVE  SourceInv'
    OBVIOUS
<1>1. ASSUME NEW n \in Nodes, NodeStep(n)
      PROVE  SourceInv'
    <2>1. /\ OnlyNode(n) /\ issued \in [Nodes -> Nat] /\ issued' \in [Nodes -> Nat]
          /\ list' = [list EXCEPT ![n] = list'[n]]
          /\ receiver' = [receiver EXCEPT ![n] = receiver'[n]]
        BY <1>1, OnlyThatNode DEF TypeInv, SwimTypeOK, OnlyNode
    <2>2. /\ \A x \in Nodes : issued[x] <= issued'[x]
          /\ NodeSourced(issued, n)'
          /\ \A msg \in net' \ net : \A k \in DOMAIN msg.updates :
                 HeardBy(issued, msg.updates[k])
        <3>1. CASE \E msg : Applies(n, msg)
            BY <2>1, <3>1, AppliedSourced DEF Applies
        <3>2. CASE Crash(n) \/ Construct(n) \/ Works(n)
            <4>1. /\ issued' = issued /\ NodeSourced(issued, n)'
                  /\ \A msg \in net' \ net : \A k \in DOMAIN msg.updates :
                         HeardBy(issued, msg.updates[k])
                BY <2>1, <3>2, WorksSourced
            <4> QED
                BY <2>1, <4>1
        <3> QED
            BY <1>1, <3>1, <3>2, StepWorks
    <2>3. ASSUME NEW x \in Nodes
          PROVE  NodeSourced(issued, x)'
        <3>1. CASE x = n
            BY <2>2, <3>1
        <3>2. CASE x # n
            <4>1. list'[x] = list[x] /\ receiver'[x] = receiver[x]
                BY <2>1, <3>2, NodeTyped
            <4>2. /\ NodeSourced(issued, x) /\ GoodList(list[x])
                  /\ list[x].my_incarnation \in Nat /\ issued[x] <= issued'[x]
                BY <2>2, NodeTyped DEF SourceInv, NodeOK, GoodList, List
            <4>3. ListSourced(issued', list[x])
                BY <2>1, <2>2, <4>2, SourcedLater DEF NodeSourced
            <4>4. \A k \in DOMAIN receiver[x].msg.updates :
                      receiver[x].msg.updates[k] \in MembershipUpdate
                <5>1. receiver[x].msg.updates \in Seq(MembershipUpdate)
                    BY NodeTyped DEF NodeOK, Receiver, GossipMessage
                <5> QED
                    BY <5>1, ElementOfSeq, LenProperties
            <4>5. AtHand(x) => \A k \in DOMAIN receiver[x].msg.updates :
                                   HeardBy(issued', receiver[x].msg.updates[k])
                BY <2>1, <2>2, <4>2, <4>4, SourcedLater DEF NodeSourced
            <4>6. list[x].my_incarnation <= issued'[x]
                BY <2>1, <4>2 DEF NodeSourced
            <4> QED
                BY <4>1, <4>3, <4>5, <4>6 DEF NodeSourced, AtHand
        <3> QED
            BY <3>1, <3>2
    <2>4. NetSourced(issued)'
        <3>1. ASSUME NEW msg \in net', NEW k \in DOMAIN msg.updates
              PROVE  HeardBy(issued', msg.updates[k])
            <4>1. HeardBy(issued, msg.updates[k])
                BY <2>2 DEF SourceInv, NetSourced
            <4>2. msg.updates \in Seq(MembershipUpdate)
                BY DEF TypeInv, SwimTypeOK, GossipMessage
            <4>3. msg.updates[k] \in MembershipUpdate
                BY <4>2, ElementOfSeq, LenProperties
            <4> QED
                BY <2>1, <2>2, <4>1, <4>3, SourcedLater
        <3> QED
            BY <3>1 DEF NetSourced
    <2> QED
        BY <2>3, <2>4 DEF SourceInv
<1>2. CASE UNCHANGED vars
    BY <1>2 DEF vars, acks, life, SourceInv, NodeSourced, NetSourced, AtHand
<1> QED
    BY <1>1, <1>2 DEF Next, Quiesced

LEMMA Sourcing == Spec => [](TypeInv /\ SourceInv)
<1>1. Spec => []TypeInv
    BY Typed
<1>2. Spec => Init /\ [][Next]_vars
    BY DEF Spec
<1> QED
    BY <1>1, <1>2, SourceInit, SourceStep, PTL

\* No list, rumour or message, whatever is lost or outlives its sender, gives a
\* member an incarnation that it has not had itself.
THEOREM IncarnationsSourced == Spec => []IncarnationsIssued
<1>1. TypeInv /\ SourceInv => IncarnationsIssued
    BY SourceMeans
<1> QED
    BY <1>1, Sourcing, PTL

-----------------------------------------------------------------------------
(* A node's view of itself                                                 *)

\* The failure detector never works on the node itself.
PeerOK(n) ==
    /\ Probing(n) => sender[n].peer # n
    /\ n \notin sender[n].overdue

SelfOK(n) ==
    n \in up /\ lives[n] = 1 =>
        /\ list[n].members[n] = Info("ALIVE", list[n].my_incarnation)
        /\ issued[n] = list[n].my_incarnation

SelfInv == \A n \in Nodes : PeerOK(n) /\ SelfOK(n)

LEMMA SenderAtPeer ==
    ASSUME NEW n \in Nodes, NEW place \in SenderPlaces \ {"direct", "asking", "indirect"},
           sender'[n] = SenderAt(place)
    PROVE  PeerOK(n)'
BY DEF SenderAt, PeerOK, Probing

LEMMA PromotePeer ==
    ASSUME TypeInv, NEW n \in Nodes, NEW S \in SUBSET (Members \ {n}), PromoteLater(n, S)
    PROVE  PeerOK(n)'
<1>1. sender'[n].at \in {"idle", "promote"} /\ sender'[n].overdue = S
    BY PromoteTyped
<1> QED
    BY <1>1 DEF PeerOK, Probing

LEMMA PeerStep ==
    ASSUME TypeInv, NEW n \in Nodes, NodeStep(n), PeerOK(n)
    PROVE  PeerOK(n)'
<1>0. sender[n] \in Sender /\ n \in Members
    BY NodeTyped, SwimAssumption DEF NodeOK
<1>1. CASE sender' = sender
    BY <1>1 DEF PeerOK, Probing
<1>2. CASE Crash(n) \/ Start(n) \/ NobodyToPing(n) \/ DirectAck(n) \/ IndirectWaitEnds(n)
    <2>1. \E place \in {"join", "idle", "scan"} : sender'[n] = SenderAt(place)
        BY <1>2, NodeTyped
        DEF Crash, Start, NobodyToPing, DirectAck, IndirectWaitEnds, GoSender
    <2> QED
        BY <2>1, SenderAtPeer DEF SenderPlaces
<1>3. CASE Ping(n)
    <2>1. PICK m \in Members \ {n} : sender'[n] = Pinged(m, next_seq[n])
        BY <1>3, NodeTyped DEF Ping, Peers, GoSender, Pinged
    <2> QED
        BY <2>1 DEF Pinged, SenderAt, PeerOK, Probing
<1>4. CASE DirectTimeout(n) \/ NobodyToAsk(n) \/ AskProxy(n)
    <2>1. Probing(n) /\ sender'[n].peer = sender[n].peer /\ sender'[n].overdue = sender[n].overdue
        <3>1. CASE DirectTimeout(n)
            BY <1>0, <3>1, NodeTyped DEF DirectTimeout, GoSender, Asking, Probing,
               Sender
        <3>2. CASE NobodyToAsk(n)
            BY <1>0, <3>2, NodeTyped DEF NobodyToAsk, GoSender, Probing, Sender
        <3>3. CASE AskProxy(n)
            BY <1>0, <3>3, NodeTyped DEF AskProxy, GoSender, Asking, Probing, Sender
        <3> QED
            BY <1>4, <3>1, <3>2, <3>3
    <2> QED
        BY <2>1 DEF PeerOK
<1>5. CASE ScanSuspects(n)
    BY <1>5, PromotePeer DEF ScanSuspects, Suspects
<1>6. CASE Promote(n)
    <2>1. sender[n].overdue \subseteq Members \ {n}
        BY <1>0 DEF Sender, PeerOK
    <2>2. PICK m : PromoteLater(n, sender[n].overdue \ {m})
        BY <1>6 DEF Promote
    <2> QED
        BY <2>1, <2>2, PromotePeer
<1>7. CASE ReceiverStep(n) \/ Construct(n) \/ \E m \in Members : JoinSeed(n, m)
    <2>1. sender' = sender
        BY <1>7 DEF ReceiverStep, Receive, ProcessNext, HandlePing, HandlePingReq,
                    ProxyWaitEnds, HandleAck, Construct, JoinSeed
    <2> QED
        BY <1>1, <2>1
<1> QED
    BY <1>2, <1>3, <1>4, <1>5, <1>6, <1>7 DEF NodeStep, SenderStep

\* What is said of n is not newer than n is: so n takes nothing over, once it has
\* outbid what accuses it.
LEMMA AppliedSelf ==
    ASSUME TypeInv, SourceInv, NEW n \in Nodes, NEW msg, Applies(n, msg), SelfOK(n),
           n \in up, lives[n] = 1
    PROVE  /\ list'[n].members[n] = Info("ALIVE", list'[n].my_incarnation)
           /\ issued'[n] = list'[n].my_incarnation
<1> DEFINE u == Head(msg.updates)
           l == Refuted(n, u)
           i == list[n].my_incarnation
<1>1. /\ u \in MembershipUpdate /\ HeardBy(issued, u)
      /\ list'[n] = ApplyUpdate(l, u)
      /\ issued'[n] = IF l.my_incarnation > issued[n] THEN l.my_incarnation ELSE issued[n]
    BY HandedTyped DEF Applies, SourceInv, NodeSourced, NetSourced
<1>2. /\ GoodList(list[n]) /\ i \in Nat /\ n \in Members
      /\ list[n].members[n] = Info("ALIVE", i) /\ issued[n] = i
    BY NodeTyped, SwimAssumption DEF NodeOK, GoodList, List, SelfOK
<1> HIDE DEF u
<1>3. /\ GoodList(l) /\ l.members[n] = Info("ALIVE", l.my_incarnation)
      /\ IF Accuses(n, u) THEN l.my_incarnation = i + 1 ELSE l.my_incarnation = i
    <2>1. CASE Accuses(n, u)
        <3>1. l = IncrementMyIncarnation(list[n], n)
            BY <2>1 DEF Refuted
        <3> HIDE DEF l, i
        <3>2. /\ GoodList(l) /\ l.my_incarnation = list[n].my_incarnation + 1
              /\ l.members[n] = Info("ALIVE", list[n].my_incarnation + 1)
            BY <1>2, <3>1, IncrementGood, Zenon
        <3> QED
            BY <2>1, <3>2 DEF i
    <2>2. CASE ~Accuses(n, u)
        BY <1>2, <2>2 DEF Refuted
    <2> QED
        BY <2>1, <2>2
<1>4. u.id = n => u.info.incarnation <= i
    BY <1>1, <1>2 DEF HeardBy, SourcedBy
<1>5. /\ u.info.incarnation \in Nat /\ u.info.state \in MemberState
      /\ Accuses(n, u) <=> /\ u.id = n /\ u.info.state \in {"SUSPECT", "DEAD"}
                           /\ u.info.incarnation >= i
    BY <1>1 DEF Accuses, MembershipUpdate
<1> HIDE DEF l, i
<1>6. list'[n].members[n] = l.members[n] /\ list'[n].my_incarnation = l.my_incarnation
    <2>1. CASE u.id # n
        BY <1>1, <1>2, <1>3, <2>1, ApplyGood DEF Entered
    <2>2. CASE u.id = n
        <3>1. ~Overrides(u.info, l.members[n])
            BY <1>2, <1>3, <1>4, <1>5, <2>2 DEF Overrides, Info, MemberState, Strength
        <3> QED
            BY <1>1, <1>3, <2>2, <3>1, ApplyGood
    <2> QED
        BY <2>1, <2>2
<1>7. issued'[n] = l.my_incarnation
    BY <1>1, <1>2, <1>3
<1> QED
    BY <1>3, <1>6, <1>7

LEMMA SelfStep ==
    ASSUME TypeInv, SourceInv, NEW n \in Nodes, NodeStep(n), PeerOK(n), SelfOK(n)
    PROVE  SelfOK(n)'
<1>1. CASE Crash(n) \/ Construct(n)
    <2>1. ~(n \in up' /\ lives'[n] = 1)
        BY <1>1, NodeTyped DEF Crash, Construct, NodeOK
    <2> QED
        BY <2>1 DEF SelfOK
<1>2. CASE \E msg : Applies(n, msg)
    <2>1. up' = up /\ lives' = lives
        BY <1>2 DEF Applies
    <2> QED
        BY <1>2, <2>1, AppliedSelf DEF SelfOK
<1>3. CASE Works(n)
    <2> SUFFICES ASSUME n \in up', lives'[n] = 1
                 PROVE  /\ list'[n].members[n] = Info("ALIVE", list'[n].my_incarnation)
                        /\ issued'[n] = list'[n].my_incarnation
        BY DEF SelfOK
    <2>1. /\ list[n].members[n] = Info("ALIVE", list[n].my_incarnation)
          /\ issued'[n] = list[n].my_incarnation
          /\ GoodList(list[n]) /\ n \in Members
        BY <1>3, NodeTyped, SwimAssumption DEF Works, SelfOK, NodeOK
    <2>2. list'[n].members[n] = list[n].members[n]
          /\ list'[n].my_incarnation = list[n].my_incarnation
        <3>1. CASE Tells(n)
            BY <2>1, <3>1, AfterAttachedGood DEF Tells
        <3>2. CASE Marks(n)
            <4>1. PICK m \in Members \ {n} :
                     list'[n] \in {MarkSuspect(list[n], m), MarkDead(list[n], m)}
                BY <3>2 DEF Marks, PeerOK
            <4>2. Entered(list[n], list'[n], m)
                BY <2>1, <4>1, MarkGood
            <4> QED
                BY <2>1, <4>2 DEF Entered
        <3>3. CASE Learns(n)
            <4>1. PICK m \in Members : list'[n] = AddMember(list[n], m)
                BY <3>3 DEF Learns
            <4>2. /\ Entered(list[n], list'[n], m)
                  /\ list[n].members[m] # Unknown => list'[n] = list[n]
                BY <2>1, <4>1, AddMemberGood
            <4>3. list[n].members[n] # Unknown
                BY <2>1 DEF Unknown, Info
            <4> QED
                BY <2>1, <4>2, <4>3 DEF Entered
        <3> QED
            BY <1>3, <3>1, <3>2, <3>3 DEF Works
    <2> QED
        BY <2>1, <2>2
<1> QED
    BY <1>1, <1>2, <1>3, StepWorks

LEMMA SelfInit == Init => SelfInv
<1> SUFFICES ASSUME Init, NEW n \in Nodes PROVE PeerOK(n) /\ SelfOK(n)
    BY DEF SelfInv
<1>1. n \in Known[n] /\ n \in Members
    BY SwimAssumption
<1>2. list[n].members[n] = Info("ALIVE", 0) /\ list[n].my_incarnation = 0 /\ issued[n] = 0
    BY <1>1 DEF Init, EmptyList
<1>3. sender[n] = SenderAt("idle")
    BY DEF Init
<1> QED
    BY <1>2, <1>3 DEF PeerOK, SelfOK, Probing, SenderAt

LEMMA SelfInvStep == TypeInv /\ SourceInv /\ SelfInv /\ [Next]_vars => SelfInv'
<1> SUFFICES ASSUME TypeInv, SourceInv, SelfInv, [Next]_vars, NEW x \in Nodes
             PROVE  (PeerOK(x) /\ SelfOK(x))'
    BY DEF SelfInv
<1>1. PeerOK(x) /\ SelfOK(x)
    BY DEF SelfInv
<1>2. ASSUME NEW n \in Nodes, NodeStep(n)
      PROVE  (PeerOK(x) /\ SelfOK(x))'
    <2>1. CASE x = n
        BY <1>1, <1>2, <2>1, PeerStep, SelfStep
    <2>2. CASE x # n
        <3>1. /\ list'[x] = list[x] /\ sender'[x] = sender[x] /\ issued'[x] = issued[x]
              /\ lives'[x] = lives[x]
              /\ x \in up' <=> x \in up
            BY <1>2, <2>2, OnlyThatNode, NodeTyped DEF OnlyNode
        <3> QED
            BY <1>1, <3>1 DEF PeerOK, SelfOK, Probing
    <2> QED
        BY <2>1, <2>2
<1>3. CASE UNCHANGED vars
    BY <1>1, <1>3 DEF vars, acks, life, PeerOK, SelfOK, Probing
<1> QED
    BY <1>2, <1>3 DEF Next, Quiesced

LEMMA Selves == Spec => [](TypeInv /\ SelfInv)
<1>1. Spec => Init /\ [][Next]_vars
    BY DEF Spec
<1> QED
    BY <1>1, Sourcing, SelfInit, SelfInvStep, PTL

\* Every accusation is answered: a node that has not restarted is ALIVE in its own
\* list, at its current incarnation, whatever it is told of itself.
THEOREM SelfAliveHolds == Spec => []SelfAlive
<1>1. TypeInv /\ SelfInv => SelfAlive
    BY NodeTyped DEF SelfInv, SelfOK, SelfAlive
<1> QED
    BY <1>1, Selves, PTL

-----------------------------------------------------------------------------
(* The pending ACKs                                                        *)

\* What is registered, for either thread; numbers are handed out in order, and no
\* number serves both threads.
Sought(n) == IF Probing(n) THEN {sender[n].seq} \cup sender[n].indirect ELSE {}
Relayed(n) == IF receiver[n].at = "proxy" THEN {receiver[n].probe_seq} ELSE {}

PendingOK(n) ==
    /\ pending[n] = Sought(n) \cup Relayed(n)
    /\ Sought(n) \cap Relayed(n) = {}
    /\ \A a \in acked[n] : a[1] \in pending[n]
    /\ \A q \in pending[n] : q < next_seq[n]
    /\ sender[n].at = "direct" => sender[n].indirect = {}

LEMMA PendingMeans == TypeInv /\ (\A n \in Nodes : PendingOK(n)) => PendingExact
BY DEF PendingOK, PendingExact, Sought, Relayed

LEMMA PlaceSeeksNothing ==
    ASSUME NEW n \in Nodes, NEW place \in SenderPlaces \ {"direct", "asking", "indirect"},
           sender'[n] = SenderAt(place)
    PROVE  Sought(n)' = {} /\ sender'[n].at # "direct"
BY DEF SenderAt, Sought, Probing

LEMMA PromoteSeeksNothing ==
    ASSUME TypeInv, NEW n \in Nodes, NEW S \in SUBSET Members, PromoteLater(n, S)
    PROVE  Sought(n)' = {} /\ sender'[n].at # "direct"
BY PromoteTyped DEF Sought, Probing

LEMMA ListenRelaysNothing ==
    ASSUME NEW n \in Nodes, NEW place \in {"off", "listen"},
           receiver'[n] = ReceiverAt(n, place)
    PROVE  Relayed(n)' = {}
BY DEF ReceiverAt, Relayed

\* What is registered stays as it is, or loses what its thread sought or relayed.
LEMMA EraseGood ==
    ASSUME TypeInv, NEW n \in Nodes, NEW seqs, Erase(n, seqs)
    PROVE  /\ pending'[n] = pending[n] \ seqs
           /\ acked'[n] = {a \in acked[n] : a[1] \notin seqs}
BY NodeTyped DEF Erase

LEMMA PendingSender ==
    ASSUME TypeInv, NEW n \in Nodes, SenderStep(n), PendingOK(n)
    PROVE  PendingOK(n)'
<1>0. /\ sender[n] \in Sender /\ next_seq[n] \in Nat /\ sender[n].seq \in Nat
      /\ sender[n].indirect \subseteq Nat
      /\ pending[n] \subseteq Nat
    BY NodeTyped DEF NodeOK, Sender
<1>1. CASE NobodyToPing(n) \/ ScanSuspects(n) \/ Promote(n)
    <2>1. Sought(n)' = {} /\ sender'[n].at # "direct"
        <3>1. CASE NobodyToPing(n)
            BY <3>1, NodeTyped, PlaceSeeksNothing DEF NobodyToPing, GoSender,
               SenderPlaces
        <3>2. CASE ScanSuspects(n)
            BY <3>2, PromoteSeeksNothing DEF ScanSuspects, Suspects
        <3>3. CASE Promote(n)
            <4>1. \A m : sender[n].overdue \ {m} \subseteq Members
                BY <1>0 DEF Sender
            <4> QED
                BY <3>3, <4>1, PromoteSeeksNothing DEF Promote
        <3> QED
            BY <1>1, <3>1, <3>2, <3>3
    <2>2. Sought(n) = {} /\ UNCHANGED <<receiver, pending, acked, next_seq>>
        BY <1>1 DEF NobodyToPing, ScanSuspects, Promote, Sought, Probing, acks
    <2> QED
        BY <2>1, <2>2 DEF PendingOK, Relayed
<1>2. CASE DirectAck(n) \/ IndirectWaitEnds(n)
    <2>1. Sought(n)' = {} /\ sender'[n].at # "direct"
        <3>1. sender'[n] = SenderAt("scan")
            BY <1>2, NodeTyped DEF DirectAck, IndirectWaitEnds, GoSender
        <3> QED
            BY <3>1, PlaceSeeksNothing DEF SenderPlaces
    <2>2. Erase(n, Sought(n)) /\ UNCHANGED <<receiver, next_seq>>
        BY <1>2 DEF DirectAck, IndirectWaitEnds, Sought, Probing, PendingOK
    <2>3. /\ pending'[n] = pending[n] \ Sought(n)
          /\ acked'[n] = {a \in acked[n] : a[1] \notin Sought(n)}
        BY <2>2, EraseGood
    <2>4. Relayed(n)' = Relayed(n)
        BY <2>2 DEF Relayed
    <2> QED
        BY <2>1, <2>2, <2>3, <2>4 DEF PendingOK
<1>3. CASE DirectTimeout(n) \/ NobodyToAsk(n)
    <2>1. /\ Sought(n)' = Sought(n) /\ sender'[n].at # "direct"
        <3>1. CASE DirectTimeout(n)
            <4>1. sender'[n] = Asking(sender[n]) /\ sender[n].at = "direct"
                BY <3>1, NodeTyped DEF DirectTimeout, GoSender
            <4>2. /\ sender'[n].at \in {"asking", "indirect"}
                  /\ sender'[n].seq = sender[n].seq
                  /\ sender'[n].indirect = sender[n].indirect
                BY <1>0, <4>1, AskingTyped
            <4> QED
                BY <4>1, <4>2 DEF Sought, Probing
        <3>2. CASE NobodyToAsk(n)
            <4>1. /\ sender'[n] = [sender[n] EXCEPT !.at = "indirect"]
                  /\ sender[n].at = "asking"
                BY <3>2, NodeTyped DEF NobodyToAsk, GoSender
            <4> QED
                BY <1>0, <4>1 DEF Sought, Probing, Sender
        <3> QED
            BY <1>3, <3>1, <3>2
    <2>2. UNCHANGED <<receiver, pending, acked, next_seq>>
        BY <1>3 DEF DirectTimeout, NobodyToAsk, acks
    <2> QED
        BY <2>1, <2>2 DEF PendingOK, Relayed
<1>4. CASE Ping(n) \/ AskProxy(n)
    <2>1. /\ Sought(n)' = Sought(n) \cup {next_seq[n]}
          /\ sender'[n].at = "direct" => sender'[n].indirect = {}
        <3>1. CASE Ping(n)
            <4>1. PICK m \in Members : sender'[n] = Pinged(m, next_seq[n])
                BY <3>1, NodeTyped DEF Ping, Peers, GoSender, Pinged
            <4>2. /\ sender'[n].at = "direct" /\ sender'[n].seq = next_seq[n]
                  /\ sender'[n].indirect = {}
                BY <1>0, <4>1, PingedTyped
            <4>3. sender[n].at = "idle"
                BY <3>1 DEF Ping
            <4> QED
                BY <4>2, <4>3 DEF Sought, Probing
        <3>2. CASE AskProxy(n)
            <4>1. PICK p \in Members :
                     sender'[n] = Asking(AlsoAsked(sender[n], p, next_seq[n]))
                BY <3>2, NodeTyped DEF AskProxy, Proxies, Peers, GoSender, AlsoAsked
            <4>2. /\ sender'[n].at \in {"asking", "indirect"}
                  /\ sender'[n].seq = sender[n].seq
                  /\ sender'[n].indirect = sender[n].indirect \cup {next_seq[n]}
                BY <1>0, <4>1, AskingTyped, AlsoAskedTyped
            <4>3. sender[n].at = "asking"
                BY <3>2 DEF AskProxy
            <4> QED
                BY <4>2, <4>3 DEF Sought, Probing
        <3> QED
            BY <1>4, <3>1, <3>2
    <2>2. /\ pending'[n] = pending[n] \cup {next_seq[n]} /\ next_seq'[n] = next_seq[n] + 1
          /\ acked' = acked
        <3>1. PICK m \in Members, type \in {"PING", "PING_REQ"},
                   target \in {None, sender[n].peer} : Probe(n, type, m, target)
            BY <1>4 DEF Ping, AskProxy, Proxies, Peers
        <3>2. target \in Members \cup {None} /\ type \in MessageType
            BY <1>0 DEF Sender, MessageType
        <3> QED
            BY <3>1, <3>2, ProbeGood
    <2>3. receiver' = receiver
        BY <1>4 DEF Ping, AskProxy
    <2>4. Relayed(n)' = Relayed(n)
        BY <2>3 DEF Relayed
    <2> QED
        BY <1>0, <2>1, <2>2, <2>4 DEF PendingOK
<1> QED
    BY <1>1, <1>2, <1>3, <1>4 DEF SenderStep

LEMMA PendingReceiver ==
    ASSUME TypeInv, NEW n \in Nodes, ReceiverStep(n), PendingOK(n)
    PROVE  PendingOK(n)'
<1>0. next_seq[n] \in Nat /\ pending[n] \subseteq Nat /\ receiver[n] \in Receiver
    BY NodeTyped DEF NodeOK
<1>1. sender' = sender
    BY DEF ReceiverStep, Receive, ProcessNext, HandlePing, HandlePingReq,
           ProxyWaitEnds, HandleAck
<1>2. Sought(n)' = Sought(n)
    BY <1>1 DEF Sought, Probing
<1>3. CASE Receive(n) \/ ProcessNext(n) \/ HandlePing(n)
    <2>1. receiver[n].at \in {"listen", "apply"} /\ UNCHANGED <<pending, acked, next_seq>>
        BY <1>3 DEF Receive, ProcessNext, HandlePing, Handling, acks
    <2>2. receiver'[n].at \in {"apply", "listen"}
        BY <1>0, <1>3, NodeTyped
        DEF Receive, ProcessNext, HandlePing, Process, GoReceiver, ReceiverAt
    <2> QED
        BY <1>1, <1>2, <2>1, <2>2 DEF PendingOK, Relayed
<1>4. CASE HandleAck(n)
    <2>1. /\ receiver[n].at = "apply" /\ UNCHANGED <<pending, next_seq>>
          /\ receiver'[n] = ReceiverAt(n, "listen")
          /\ \A a \in acked'[n] : a \in acked[n] \/ a[1] \in pending[n]
        BY <1>4, NodeTyped DEF HandleAck, Handling, GoReceiver
    <2> QED
        BY <1>1, <1>2, <2>1, ListenTyped DEF PendingOK, Relayed
<1>5. CASE ProxyWaitEnds(n)
    <2>1. Erase(n, Relayed(n)) /\ next_seq' = next_seq
          /\ receiver'[n] = ReceiverAt(n, "listen")
        BY <1>5, NodeTyped DEF ProxyWaitEnds, Relayed, GoReceiver
    <2>2. /\ pending'[n] = pending[n] \ Relayed(n)
          /\ acked'[n] = {a \in acked[n] : a[1] \notin Relayed(n)}
        BY <2>1, EraseGood
    <2>3. Relayed(n)' = {}
        BY <2>1, ListenTyped DEF Relayed
    <2> QED
        BY <1>1, <1>2, <2>1, <2>2, <2>3 DEF PendingOK
<1>6. CASE HandlePingReq(n)
    <2>1. Relayed(n) = {}
        BY <1>6 DEF HandlePingReq, Handling, Relayed
    <2>2. CASE GoReceiver(n, ReceiverAt(n, "listen")) /\ UNCHANGED <<acks, next_seq>>
        <3>1. receiver'[n] = ReceiverAt(n, "listen")
            BY <2>2, NodeTyped DEF GoReceiver
        <3> QED
            BY <1>1, <1>2, <2>1, <2>2, <3>1, ListenTyped DEF PendingOK, Relayed, acks
    <2>3. CASE /\ Probe(n, "PING", receiver[n].msg.target, None)
               /\ GoReceiver(n, [receiver[n] EXCEPT !.at = "proxy", !.probe_seq = next_seq[n]])
        <3>1. receiver[n].msg.target \in Members
            BY <1>6, NodeTyped DEF HandlePingReq, Handling, NodeOK, PlacesOK, MessageOK
        <3>2. /\ pending'[n] = pending[n] \cup {next_seq[n]}
              /\ next_seq'[n] = next_seq[n] + 1 /\ acked' = acked
            BY <2>3, <3>1, ProbeGood DEF MessageType
        <3>3. Relayed(n)' = {next_seq[n]}
            BY <1>0, <2>3, NodeTyped DEF GoReceiver, Receiver, Relayed
        <3> QED
            BY <1>0, <1>1, <1>2, <2>1, <3>2, <3>3 DEF PendingOK
    <2> QED
        BY <1>6, <2>2, <2>3 DEF HandlePingReq
<1> QED
    BY <1>3, <1>4, <1>5, <1>6 DEF ReceiverStep

LEMMA PendingStep ==
    ASSUME TypeInv, NEW n \in Nodes, NodeStep(n), PendingOK(n)
    PROVE  PendingOK(n)'
<1>1. CASE Crash(n)
    <2>1. /\ sender'[n] = SenderAt("join") /\ receiver'[n] = ReceiverAt(n, "off")
          /\ pending'[n] = {} /\ acked'[n] = {}
        BY <1>1, NodeTyped DEF Crash, GoSender, GoReceiver
    <2> QED
        BY <2>1, PlaceSeeksNothing, ListenRelaysNothing DEF PendingOK, SenderPlaces
<1>2. CASE Construct(n)
    <2>1. UNCHANGED <<sender, receiver, pending, acked>>
          /\ Sought(n) = {} /\ Relayed(n) = {} /\ sender[n].at = "join"
        BY <1>2, NodeTyped DEF Construct, NodeOK, PlacesOK, Sought, Relayed, Probing,
           acks
    <2> QED
        BY <2>1 DEF PendingOK, Sought, Relayed, Probing
<1>3. CASE Start(n)
    <2>1. /\ sender'[n] = SenderAt("idle") /\ receiver'[n] = ReceiverAt(n, "listen")
          /\ UNCHANGED <<pending, acked, next_seq>> /\ sender[n].at = "join"
        BY <1>3, NodeTyped DEF Start, GoSender, GoReceiver, acks
    <2>2. Sought(n) = {} /\ Relayed(n) = {}
        BY <2>1, NodeTyped DEF NodeOK, PlacesOK, Sought, Relayed, Probing
    <2> QED
        BY <2>1, <2>2, PlaceSeeksNothing, ListenRelaysNothing DEF PendingOK,
           SenderPlaces
<1>4. CASE \E m \in Members : JoinSeed(n, m)
    BY <1>4 DEF JoinSeed, PendingOK, Sought, Relayed, Probing, acks
<1> QED
    BY <1>1, <1>2, <1>3, <1>4, PendingSender, PendingReceiver DEF NodeStep

PendingInv == \A n \in Nodes : PendingOK(n)

LEMMA PendingInit == Init => PendingInv
BY DEF Init, PendingInv, PendingOK, Sought, Relayed, Probing, SenderAt, ReceiverAt

LEMMA PendingInvStep == TypeInv /\ PendingInv /\ [Next]_vars => PendingInv'
<1> SUFFICES ASSUME TypeInv, PendingInv, [Next]_vars, NEW x \in Nodes
             PROVE  PendingOK(x)'
    BY DEF PendingInv
<1>1. PendingOK(x)
    BY DEF PendingInv
<1>2. ASSUME NEW n \in Nodes, NodeStep(n)
      PROVE  PendingOK(x)'
    <2>1. CASE x = n
        BY <1>1, <1>2, <2>1, PendingStep
    <2>2. CASE x # n
        <3>1. /\ sender'[x] = sender[x] /\ receiver'[x] = receiver[x]
              /\ pending'[x] = pending[x] /\ acked'[x] = acked[x]
              /\ next_seq'[x] = next_seq[x]
            BY <1>2, <2>2, OnlyThatNode, NodeTyped DEF OnlyNode
        <3> QED
            BY <1>1, <3>1 DEF PendingOK, Sought, Relayed, Probing
    <2> QED
        BY <2>1, <2>2
<1>3. CASE UNCHANGED vars
    BY <1>1, <1>3 DEF vars, acks, PendingOK, Sought, Relayed, Probing
<1> QED
    BY <1>2, <1>3 DEF Next, Quiesced

LEMMA Pendings == Spec => [](TypeInv /\ PendingInv)
<1>1. Spec => []TypeInv
    BY Typed
<1>2. Spec => Init /\ [][Next]_vars
    BY DEF Spec
<1> QED
    BY <1>1, <1>2, PendingInit, PendingInvStep, PTL

\* The map of pending ACKs holds the probes under way and no others.
THEOREM PendingExactHolds == Spec => []PendingExact
<1>1. TypeInv /\ PendingInv => PendingExact
    BY PendingMeans DEF PendingInv
<1> QED
    BY <1>1, Pendings, PTL

-----------------------------------------------------------------------------
(* Whose ACK ends a direct probe                                           *)

\* What a message to or from n means for the probe that n is in: n has handed out
\* its number, and if it is that of the direct probe, the message is the PING to
\* the peer, or the ACK from the peer.
Fits(n, msg) ==
    /\ msg.type # "ACK" /\ msg.from = n =>
          /\ msg.seq < next_seq[n]
          /\ Probing(n) /\ msg.seq = sender[n].seq =>
                msg.type = "PING" /\ msg.to = addr[sender[n].peer]
    /\ msg.type = "ACK" /\ msg.to = n =>
          /\ msg.seq < next_seq[n]
          /\ Probing(n) /\ msg.seq = sender[n].seq => msg.from = addr[sender[n].peer]

\* Messages under way or at hand.
Live(msg) == msg \in net \/ \E x \in Nodes : AtHand(x) /\ msg = receiver[x].msg

AckOK(n) ==
    lives[n] = 1 =>
        /\ \A msg : Live(msg) => Fits(n, msg)
        /\ \A a \in acked[n] :
              Probing(n) /\ a[1] = sender[n].seq => a[2] = addr[sender[n].peer]

AckInv == \A n \in Nodes : AckOK(n)

\* The parts of a message that Fits looks at.
SameHead(m, k) == m.type = k.type /\ m.from = k.from /\ m.to = k.to /\ m.seq = k.seq

\* n hands out no number twice, and starts a new probe with a new number.
Onward(n) ==
    /\ next_seq[n] <= next_seq'[n]
    /\ Probing(n)' => \/ /\ Probing(n)
                         /\ sender'[n].seq = sender[n].seq
                         /\ sender'[n].peer = sender[n].peer
                      \/ sender'[n].seq = next_seq[n]

LEMMA FitsOnward ==
    ASSUME NEW n \in Nodes, Onward(n), next_seq[n] \in Nat, next_seq'[n] \in Nat,
           NEW m, NEW k, m.seq \in Nat, SameHead(m, k), Fits(n, k)
    PROVE  Fits(n, m)'
BY DEF Onward, Fits, SameHead

LEMMA SenderOnward ==
    ASSUME TypeInv, NEW n \in Nodes, NodeStep(n), ~Construct(n)
    PROVE  Onward(n)
<1>0. sender[n] \in Sender /\ next_seq[n] \in Nat
    BY NodeTyped DEF NodeOK
<1>1. CASE Ping(n)
    <2>1. PICK m \in Members : sender'[n] = Pinged(m, next_seq[n]) /\ Probe(n, "PING", m, None)
        BY <1>1, NodeTyped DEF Ping, Peers, GoSender, Pinged
    <2>2. next_seq'[n] = next_seq[n] + 1
        BY <2>1, ProbeGood DEF MessageType
    <2> QED
        BY <1>0, <2>1, <2>2, PingedTyped DEF Onward
<1>2. CASE AskProxy(n)
    <2>1. PICK p \in Members :
             /\ sender'[n] = Asking(AlsoAsked(sender[n], p, next_seq[n]))
             /\ Probe(n, "PING_REQ", p, sender[n].peer)
        BY <1>2, NodeTyped DEF AskProxy, Proxies, Peers, GoSender, AlsoAsked
    <2>2. next_seq'[n] = next_seq[n] + 1
        BY <1>0, <2>1, ProbeGood DEF MessageType, Sender
    <2>3. sender'[n].seq = sender[n].seq /\ sender'[n].peer = sender[n].peer
        BY <1>0, <2>1, AskingTyped, AlsoAskedTyped
    <2>4. Probing(n)
        BY <1>2 DEF AskProxy, Probing
    <2> QED
        BY <1>0, <2>2, <2>3, <2>4 DEF Onward
<1>3. CASE DirectTimeout(n) \/ NobodyToAsk(n)
    <2>1. /\ Probing(n) /\ next_seq' = next_seq
          /\ sender'[n].seq = sender[n].seq /\ sender'[n].peer = sender[n].peer
        <3>1. CASE DirectTimeout(n)
            BY <1>0, <3>1, NodeTyped DEF DirectTimeout, GoSender, Asking, Probing,
               Sender, acks
        <3>2. CASE NobodyToAsk(n)
            BY <1>0, <3>2, NodeTyped DEF NobodyToAsk, GoSender, Probing, Sender, acks
        <3> QED
            BY <1>3, <3>1, <3>2
    <2> QED
        BY <1>0, <2>1 DEF Onward
<1>4. CASE \/ Crash(n) \/ Start(n) \/ NobodyToPing(n) \/ DirectAck(n) \/ IndirectWaitEnds(n)
           \/ ScanSuspects(n) \/ Promote(n)
    <2>1. next_seq' = next_seq /\ ~Probing(n)'
        <3>1. CASE \/ Crash(n) \/ Start(n) \/ NobodyToPing(n) \/ DirectAck(n)
                   \/ IndirectWaitEnds(n)
            <4>1. \E place \in {"join", "idle", "scan"} : sender'[n] = SenderAt(place)
                BY <3>1, NodeTyped
                DEF Crash, Start, NobodyToPing, DirectAck, IndirectWaitEnds, GoSender
            <4>2. next_seq' = next_seq
                BY <3>1 DEF Crash, Start, NobodyToPing, DirectAck, IndirectWaitEnds
            <4> QED
                BY <4>1, <4>2 DEF SenderAt, Probing
        <3>2. CASE ScanSuspects(n) \/ Promote(n)
            <4>1. \E S \in SUBSET Members : PromoteLater(n, S)
                <5>1. sender[n].overdue \subseteq Members
                    BY <1>0 DEF Sender
                <5> QED
                    BY <3>2, <5>1 DEF ScanSuspects, Promote, Suspects
            <4>2. next_seq' = next_seq
                BY <3>2 DEF ScanSuspects, Promote
            <4> QED
                BY <4>1, <4>2, PromoteTyped DEF Probing
        <3> QED
            BY <1>4, <3>1, <3>2
    <2> QED
        BY <1>0, <2>1 DEF Onward
<1>5. CASE ReceiverStep(n) \/ \E m \in Members : JoinSeed(n, m)
    <2>1. sender' = sender
        BY <1>5 DEF ReceiverStep, Receive, ProcessNext, HandlePing, HandlePingReq,
                    ProxyWaitEnds, HandleAck, JoinSeed
    <2>2. next_seq[n] <= next_seq'[n]
        <3>1. CASE HandlePingReq(n)
            <4>1. receiver[n].msg.target \in Members
                BY <3>1, NodeTyped DEF HandlePingReq, Handling, NodeOK, PlacesOK,
                   MessageOK
            <4>2. next_seq' = next_seq \/ next_seq'[n] = next_seq[n] + 1
                BY <3>1, <4>1, ProbeGood DEF HandlePingReq, MessageType
            <4> QED
                BY <1>0, <4>2
        <3>2. CASE next_seq' = next_seq
            BY <1>0, <3>2
        <3> QED
            BY <1>5, <3>1, <3>2 DEF ReceiverStep, Receive, ProcessNext, HandlePing,
                                    ProxyWaitEnds, HandleAck, JoinSeed
    <2> QED
        BY <2>1, <2>2 DEF Onward, Probing
<1> QED
    BY <1>1, <1>2, <1>3, <1>4, <1>5 DEF NodeStep, SenderStep

\* What x sends in a step: its probe, a request to a proxy, a PING as a proxy, or
\* an ACK in answer to the message at hand.
SendsNew(x, msg) ==
    /\ msg.type # "ACK" /\ msg.from = x /\ msg.seq = next_seq[x]
    /\ next_seq'[x] = next_seq[x] + 1
    /\ \/ /\ msg.type = "PING" /\ msg.to = addr[sender'[x].peer]
          /\ sender'[x].seq = next_seq[x]
       \/ /\ Probing(x)' => Probing(x)
          /\ sender'[x].seq = sender[x].seq

SendsAck(x, msg) ==
    /\ msg.type = "ACK" /\ msg.from = x /\ AtHand(x)
    /\ LET at == receiver[x].msg
       IN  at.type # "ACK" /\ at.to = x /\ msg.to = at.from /\ msg.seq = at.seq
    /\ sender' = sender /\ next_seq' = next_seq

LEMMA NewMessages ==
    ASSUME TypeInv, NEW x \in Nodes, NodeStep(x), NEW msg \in net' \ net
    PROVE  SendsNew(x, msg) \/ SendsAck(x, msg)
<1>0. /\ sender[x] \in Sender /\ next_seq[x] \in Nat /\ receiver[x] \in Receiver
      /\ receiver[x].msg \in GossipMessage
      /\ receiver[x].msg.from \in Nodes /\ receiver[x].msg.seq \in Nat
    BY NodeTyped DEF NodeOK, Receiver, GossipMessage
<1>1. CASE Ping(x)
    <2>1. PICK m \in Members : sender'[x] = Pinged(m, next_seq[x]) /\ Probe(x, "PING", m, None)
        BY <1>1, NodeTyped DEF Ping, Peers, GoSender, Pinged
    <2>2. Probed(x, "PING", m, None) /\ next_seq'[x] = next_seq[x] + 1
        BY <2>1, ProbeGood DEF MessageType
    <2> QED
        BY <1>0, <2>1, <2>2, PingedTyped DEF Probed, IsMessage, SendsNew
<1>2. CASE AskProxy(x)
    <2>1. PICK p \in Members :
             /\ sender'[x] = Asking(AlsoAsked(sender[x], p, next_seq[x]))
             /\ Probe(x, "PING_REQ", p, sender[x].peer)
        BY <1>2, NodeTyped DEF AskProxy, Proxies, Peers, GoSender, AlsoAsked
    <2>2. Probed(x, "PING_REQ", p, sender[x].peer) /\ next_seq'[x] = next_seq[x] + 1
        BY <1>0, <2>1, ProbeGood DEF MessageType, Sender
    <2>3. sender'[x].seq = sender[x].seq /\ Probing(x)
        BY <1>0, <1>2, <2>1, AskingTyped, AlsoAskedTyped DEF AskProxy, Probing
    <2> QED
        BY <2>2, <2>3 DEF Probed, IsMessage, SendsNew
<1>3. CASE HandlePing(x) \/ ProxyWaitEnds(x)
    <2> DEFINE from == receiver[x].msg.from
               seq == receiver[x].msg.seq
               ack == Message(x, "ACK", from, None, seq)
    <2>1. Send(ack)
        BY <1>3 DEF HandlePing, ProxyWaitEnds
    <2>2. IsMessage(ack, x, "ACK", from, None, seq)
        <3> HIDE DEF from, seq
        <3>1. from \in Nodes /\ seq \in Nat
            BY <1>0 DEF from, seq
        <3> QED
            BY <3>1, MessageTyped DEF MessageType
    <2> HIDE DEF ack
    <2>3. msg = ack
        BY <2>1, <2>2, SendGood DEF IsMessage
    <2>4. /\ AtHand(x) /\ receiver[x].msg.type # "ACK"
          /\ sender' = sender /\ next_seq' = next_seq
        BY <1>3, NodeTyped
        DEF HandlePing, ProxyWaitEnds, Handling, AtHand, NodeOK, PlacesOK
    <2>5. receiver[x].msg.to = x
        BY <2>4, NodeTyped DEF AtHand, NodeOK, PlacesOK
    <2> QED
        BY <2>2, <2>3, <2>4, <2>5 DEF IsMessage, SendsAck
<1>4. CASE HandlePingReq(x)
    <2>1. receiver[x].msg.target \in Members
        BY <1>4, NodeTyped DEF HandlePingReq, Handling, NodeOK, PlacesOK, MessageOK
    <2>2. Probe(x, "PING", receiver[x].msg.target, None) /\ sender' = sender
        BY <1>4 DEF HandlePingReq
    <2>3. Probed(x, "PING", receiver[x].msg.target, None) /\ next_seq'[x] = next_seq[x] + 1
        BY <2>1, <2>2, ProbeGood DEF MessageType
    <2> QED
        BY <2>2, <2>3 DEF Probed, IsMessage, SendsNew, Probing
<1>5. CASE net' \subseteq net
    BY <1>5
<1>6. CASE \/ Receive(x) \/ ProcessNext(x) \/ HandleAck(x) \/ NobodyToPing(x) \/ DirectAck(x)
           \/ DirectTimeout(x) \/ NobodyToAsk(x) \/ IndirectWaitEnds(x) \/ ScanSuspects(x)
           \/ Promote(x) \/ Crash(x) \/ Construct(x) \/ Start(x)
           \/ \E m \in Members : JoinSeed(x, m)
    <2>1. net' \subseteq net
        BY <1>6 DEF Receive, ProcessNext, HandleAck, NobodyToPing, DirectAck,
           DirectTimeout,
                    NobodyToAsk, IndirectWaitEnds, ScanSuspects, Promote, Crash, Construct,
                    Start, JoinSeed
    <2> QED
        BY <1>5, <2>1
<1> QED
    BY <1>1, <1>2, <1>3, <1>4, <1>6 DEF NodeStep, SenderStep, ReceiverStep

\* What x has at hand after a step was under way, or at hand, before it.
LEMMA HandFromLive ==
    ASSUME TypeInv, NEW x \in Nodes, NodeStep(x), AtHand(x)'
    PROVE  \E k : Live(k) /\ SameHead(receiver'[x].msg, k)
<1>1. CASE \E msg : Applies(x, msg)
    <2>1. PICK msg : Applies(x, msg)
        BY <1>1
    <2>2. Live(msg)
        BY <2>1 DEF Applies, Live
    <2>3. SameHead(receiver'[x].msg, msg)
        BY <2>1, HandedTyped DEF Applies, SameHead
    <2> QED
        BY <2>2, <2>3
<1>2. CASE AtHand(x) /\ receiver'[x].msg = receiver[x].msg
    BY <1>2 DEF Live, SameHead
<1>3. CASE Crash(x)
    BY <1>3, NodeTyped, ReceiverTyped DEF Crash, GoReceiver, AtHand, ReceiverPlaces
<1>4. CASE Construct(x)
    BY <1>2, <1>4 DEF Construct, AtHand
<1> QED
    BY <1>1, <1>2, <1>3, <1>4, StepWorks DEF Works

LEMMA NewFits ==
    ASSUME TypeInv, PendingInv, NEW n \in Nodes, NEW x \in Nodes, NodeStep(x), OnlyNode(x),
           NEW msg, SendsNew(x, msg) \/ SendsAck(x, msg), AckOK(n), lives[n] = 1
    PROVE  Fits(n, msg)'
<1>0. next_seq[n] \in Nat /\ next_seq[x] \in Nat
    BY NodeTyped
<1>1. CASE SendsNew(x, msg)
    <2>1. CASE x # n
        BY <1>1, <2>1 DEF SendsNew, Fits
    <2>2. CASE x = n
        <3>1. Probing(n) => sender[n].seq < next_seq[n]
            BY DEF PendingInv, PendingOK, Sought
        <3>2. sender[n].seq \in Nat
            BY NodeTyped DEF NodeOK, Sender
        <3> QED
            BY <1>0, <1>1, <2>2, <3>1, <3>2 DEF SendsNew, Fits
    <2> QED
        BY <2>1, <2>2
<1>2. CASE SendsAck(x, msg)
    <2> DEFINE at == receiver[x].msg
    <2>1. Fits(n, at)
        BY <1>2 DEF SendsAck, AckOK, Live
    <2>2. /\ at.type # "ACK" /\ at.to = x /\ msg.to = at.from /\ msg.seq = at.seq
          /\ msg.type = "ACK" /\ msg.from = x
          /\ sender' = sender /\ next_seq' = next_seq
        BY <1>2 DEF SendsAck
    <2> QED
        BY <2>1, <2>2 DEF Fits, Probing
<1> QED
    BY <1>1, <1>2

\* The ACKs that n has recorded in a step.
LEMMA AckedFits ==
    ASSUME TypeInv, PendingInv, NEW n \in Nodes, NodeStep(n), AckOK(n), lives[n] = 1,
           Onward(n), NEW a \in acked'[n], Probing(n)', a[1] = sender'[n].seq
    PROVE  a[2] = addr[sender'[n].peer]
<1>0. /\ receiver[n].msg \in GossipMessage /\ receiver[n].msg.from \in Nodes
      /\ next_seq[n] \in Nat /\ pending[n] \subseteq Nat
    BY NodeTyped DEF NodeOK, Receiver, GossipMessage
<1>1. CASE a \in acked[n]
    <2>1. a[1] < next_seq[n] /\ a[1] \in Nat
        BY <1>0, <1>1 DEF PendingInv, PendingOK
    <2>2. sender'[n].seq # next_seq[n]
        BY <1>0, <2>1
    <2> QED
        BY <1>1, <2>2 DEF Onward, AckOK
<1>2. CASE HandleAck(n)
    <2> DEFINE msg == receiver[n].msg
    <2>1. a \in acked[n] \/ a = <<msg.seq, msg.from>>
        BY <1>2, NodeTyped DEF HandleAck
    <2>2. AtHand(n) /\ msg.type = "ACK" /\ sender' = sender
        BY <1>2 DEF HandleAck, Handling, AtHand
    <2>3. msg.to = n
        BY <2>2, NodeTyped DEF NodeOK, PlacesOK, AtHand
    <2>4. Fits(n, msg)
        BY <2>2 DEF AckOK, Live
    <2> QED
        BY <1>1, <2>1, <2>2, <2>3, <2>4 DEF Fits, Probing
<1>3. CASE acked'[n] \subseteq acked[n]
    BY <1>1, <1>3
<1>4. acked'[n] \subseteq acked[n] \/ HandleAck(n)
    <2>1. CASE \/ Ping(n) \/ AskProxy(n) \/ HandlePingReq(n) \/ acked' = acked
        BY <2>1 DEF Ping, AskProxy, HandlePingReq, Probe, acks
    <2>2. CASE DirectAck(n) \/ IndirectWaitEnds(n) \/ ProxyWaitEnds(n)
        BY <2>2, EraseGood DEF DirectAck, IndirectWaitEnds, ProxyWaitEnds
    <2>3. CASE Crash(n)
        BY <2>3, NodeTyped DEF Crash
    <2>4. CASE \/ Receive(n) \/ ProcessNext(n) \/ HandlePing(n) \/ NobodyToPing(n)
               \/ DirectTimeout(n) \/ NobodyToAsk(n) \/ ScanSuspects(n) \/ Promote(n)
               \/ Construct(n) \/ Start(n) \/ \E m \in Members : JoinSeed(n, m)
        <3>1. acked' = acked
            BY <2>4 DEF Receive, ProcessNext, HandlePing, NobodyToPing, DirectTimeout,
                        NobodyToAsk, ScanSuspects, Promote, Construct, Start, JoinSeed, acks
        <3> QED
            BY <2>1, <3>1
    <2> QED
        BY <2>1, <2>2, <2>3, <2>4 DEF NodeStep, SenderStep, ReceiverStep
<1> QED
    BY <1>2, <1>3, <1>4

LEMMA AckStep ==
    ASSUME TypeInv, TypeInv', PendingInv, NEW n \in Nodes, NEW x \in Nodes, NodeStep(x),
           AckOK(n)
    PROVE  AckOK(n)'
<1>1. /\ OnlyNode(x) /\ next_seq[n] \in Nat /\ next_seq'[n] \in Nat
      /\ receiver' = [receiver EXCEPT ![x] = receiver'[x]]
    BY OnlyThatNode DEF OnlyNode, TypeInv, SwimTypeOK
<1>2. CASE Construct(n)
    <2>1. lives'[n] # 1
        BY <1>2, NodeTyped DEF Construct, NodeOK
    <2> QED
        BY <2>1 DEF AckOK
<1>3. CASE ~Construct(n)
    <2>1. Onward(n) /\ (lives'[n] = 1 => lives[n] = 1)
        <3>1. CASE x = n
            <4>1. lives' = lives
                BY <1>3, <3>1, StepWorks DEF Crash, Works, Applies
            <4> QED
                BY <1>3, <3>1, <4>1, SenderOnward
        <3>2. CASE x # n
            <4>1. /\ sender'[n] = sender[n] /\ lives'[n] = lives[n]
                  /\ next_seq'[n] = next_seq[n]
                BY <1>1, <3>2, NodeTyped DEF OnlyNode
            <4> QED
                BY <1>1, <4>1 DEF Onward, Probing
        <3> QED
            BY <3>1, <3>2
    <2> SUFFICES ASSUME lives[n] = 1
                 PROVE  /\ \A msg : Live(msg)' => Fits(n, msg)'
                        /\ \A a \in acked'[n] : Probing(n)' /\ a[1] = sender'[n].seq
                              => a[2] = addr[sender'[n].peer]
        BY <2>1 DEF AckOK
    <2>2. \A msg : Live(msg) => Fits(n, msg)
        BY DEF AckOK
    <2>3. ASSUME NEW msg, Live(msg)'
          PROVE  Fits(n, msg)'
        <3>1. msg.seq \in Nat
            BY <2>3 DEF Live, TypeInv, SwimTypeOK, Receiver, GossipMessage
        <3>2. ASSUME NEW k, Live(k), SameHead(msg, k)
              PROVE  Fits(n, msg)'
            BY <1>1, <2>1, <2>2, <3>1, <3>2, FitsOnward
        <3>3. CASE Live(msg)
            BY <3>2, <3>3 DEF SameHead
        <3>4. CASE msg \in net' \ net
            BY <1>1, <3>4, NewMessages, NewFits
        <3>5. CASE AtHand(x)' /\ msg = receiver'[x].msg
            BY <3>2, <3>5, HandFromLive
        <3>6. ASSUME NEW y \in Nodes \ {x}, AtHand(y)', msg = receiver'[y].msg
              PROVE  Live(msg)
            <4>1. receiver'[y] = receiver[y]
                BY <1>1, NodeTyped
            <4> QED
                BY <3>6, <4>1 DEF AtHand, Live
        <3> QED
            BY <2>3, <3>3, <3>4, <3>5, <3>6 DEF Live
    <2>4. ASSUME NEW a \in acked'[n], Probing(n)', a[1] = sender'[n].seq
          PROVE  a[2] = addr[sender'[n].peer]
        <3>1. CASE x = n
            BY <2>1, <2>4, <3>1, AckedFits
        <3>2. CASE x # n
            <4>1. sender'[n] = sender[n] /\ acked'[n] = acked[n]
                BY <1>1, <3>2, NodeTyped DEF OnlyNode
            <4> QED
                BY <2>4, <4>1 DEF AckOK, Probing
        <3> QED
            BY <3>1, <3>2
    <2> QED
        BY <2>3, <2>4
<1> QED
    BY <1>2, <1>3

LEMMA AckInit == Init => AckInv
<1> SUFFICES ASSUME Init PROVE AckInv
    OBVIOUS
<1>1. net = {} /\ \A x \in Nodes : ~AtHand(x) /\ acked[x] = {}
    BY ListenTyped DEF Init, AtHand
<1> QED
    BY <1>1 DEF AckInv, AckOK, Live

LEMMA AckInvStep ==
    TypeInv /\ TypeInv' /\ PendingInv /\ AckInv /\ [Next]_vars => AckInv'
<1> SUFFICES ASSUME TypeInv, TypeInv', PendingInv, AckInv, [Next]_vars, NEW n \in Nodes
             PROVE  AckOK(n)'
    BY DEF AckInv
<1>1. AckOK(n)
    BY DEF AckInv
<1>2. ASSUME NEW x \in Nodes, NodeStep(x)
      PROVE  AckOK(n)'
    BY <1>1, <1>2, AckStep
<1>3. CASE UNCHANGED vars
    BY <1>1, <1>3 DEF vars, acks, life, AckOK, Live, Fits, Probing, AtHand
<1> QED
    BY <1>2, <1>3 DEF Next, Quiesced

\* A late ACK, of whatever peer and however long under way, is never taken for
\* that of the direct probe a node is in, in the node's first life.
THEOREM AckFromProbedHolds == Spec => []AckFromProbed
<1>1. AckInv => AckFromProbed
    BY DEF AckInv, AckOK, AckFromProbed
<1>2. Spec => Init /\ [][Next]_vars
    BY DEF Spec
<1>3. Spec => []AckInv
    BY <1>2, Pendings, AckInit, AckInvStep, PTL
<1> QED
    BY <1>1, <1>3, PTL

-----------------------------------------------------------------------------
(* The refinement of Beliefs                                               *)

\* What a message tells.
Told(msg) == {msg.updates[k] : k \in DOMAIN msg.updates}

\* u is said where the lists are ls, the receivers rs, and the datagrams ms.
SaidBy(ls, rs, ms, u) ==
    \/ \E n \in Nodes : u \in Rumours(ls[n])
    \/ \E msg \in ms : u \in Told(msg)
    \/ \E n \in Nodes : rs[n].at \in {"apply", "proxy"} /\ u \in Told(rs[n].msg)

LEMMA SaidMeans ==
    /\ \A u : u \in Said <=> SaidBy(list, receiver, net, u)
    /\ \A u : u \in Said' <=> SaidBy(list', receiver', net', u)
<1>1. ASSUME NEW ls, NEW rs, NEW ms, NEW u
      PROVE  LET hands == {rs[n].msg : n \in {x \in Nodes : rs[x].at \in {"apply", "proxy"}}}
             IN  u \in (UNION {Rumours(ls[n]) : n \in Nodes})
                       \cup (UNION {Told(msg) : msg \in ms \cup hands})
                    <=> SaidBy(ls, rs, ms, u)
    <2> DEFINE hands == {rs[n].msg : n \in {x \in Nodes : rs[x].at \in {"apply", "proxy"}}}
    <2>1. u \in UNION {Rumours(ls[n]) : n \in Nodes} <=> \E n \in Nodes : u \in Rumours(ls[n])
        OBVIOUS
    <2>2. u \in UNION {Told(msg) : msg \in ms \cup hands}
             <=> \E msg \in ms \cup hands : u \in Told(msg)
        OBVIOUS
    <2>3. (\E msg \in hands : u \in Told(msg))
             <=> \E n \in Nodes : rs[n].at \in {"apply", "proxy"} /\ u \in Told(rs[n].msg)
        OBVIOUS
    <2> HIDE DEF hands
    <2>4. \A msg : msg \in ms \cup hands <=> msg \in ms \/ msg \in hands
        OBVIOUS
    <2>5. u \in (UNION {Rumours(ls[n]) : n \in Nodes})
                \cup (UNION {Told(msg) : msg \in ms \cup hands})
             <=> SaidBy(ls, rs, ms, u)
        <3> DEFINE R == UNION {Rumours(ls[n]) : n \in Nodes}
                   T == UNION {Told(msg) : msg \in ms \cup hands}
        <3>1. u \in R \cup T <=> u \in R \/ u \in T
            OBVIOUS
        <3>2. u \in T <=> (\E msg \in ms : u \in Told(msg)) \/ (\E msg \in hands : u \in Told(msg))
            BY <2>2, <2>4
        <3> QED
            BY <2>1, <2>3, <3>1, <3>2 DEF SaidBy
    <2> QED
        BY <2>5 DEF hands
<1>2. ASSUME NEW u
      PROVE  u \in Said <=> SaidBy(list, receiver, net, u)
    BY <1>1 DEF Said, Rumours, Told, AtHand
<1>3. ASSUME NEW u
      PROVE  u \in Said' <=> SaidBy(list', receiver', net', u)
    BY <1>1 DEF Said, Rumours, Told, AtHand
<1> QED
    BY <1>2, <1>3

\* A step of n adds to what is said what n's list, its message at hand and what it
\* sends add.
LEMMA SaidStep ==
    ASSUME TypeInv, NEW n \in Nodes, OnlyNode(n), NEW S,
           Rumours(list'[n]) \subseteq Said \cup S,
           AtHand(n)' => Told(receiver'[n].msg) \subseteq Said \cup S,
           \A msg \in net' \ net : Told(msg) \subseteq Said \cup S
    PROVE  Said' \subseteq Said \cup S
<1> SUFFICES ASSUME NEW u \in Said' PROVE u \in Said \cup S
    OBVIOUS
<1>1. SaidBy(list', receiver', net', u)
    BY SaidMeans
<1>2. ASSUME NEW x \in Nodes, x # n
      PROVE  list'[x] = list[x] /\ receiver'[x] = receiver[x]
    BY <1>2, NodeTyped DEF OnlyNode
<1> QED
    BY <1>1, <1>2, SaidMeans DEF SaidBy, AtHand

\* The words of Beliefs are those of MembershipList.
LEMMA MindMeans ==
    /\ \A s, i : Mind!Opinion(s, i) = Info(s, i)
    /\ \A m, o : Mind!Rumour(m, o) = Update(m, o)
    /\ Mind!NoOpinion = Unknown /\ Mind!Fresh = Info("ALIVE", 0)
    /\ \A n \in Nodes : Mind!Own(n) = Info("ALIVE", list[n].my_incarnation)
    /\ \A n \in Nodes : \A u : Mind!Accusation(n, u) <=> Accuses(n, u)
    /\ \A new \in Claim, old \in MemberInfo : Mind!Newer(new, old) <=> Overrides(new, old)
<1>1. /\ \A s, i : Mind!Opinion(s, i) = Info(s, i)
      /\ \A m, o : Mind!Rumour(m, o) = Update(m, o)
      /\ Mind!NoOpinion = Unknown /\ Mind!Fresh = Info("ALIVE", 0)
    BY DEF Mind!Opinion, Mind!Rumour, Mind!NoOpinion, Mind!Fresh, Info, Update, Unknown
<1>2. /\ \A n \in Nodes : Mind!Own(n) = Info("ALIVE", list[n].my_incarnation)
      /\ \A n \in Nodes : \A u : Mind!Accusation(n, u) <=> Accuses(n, u)
    BY <1>1 DEF Mind!Own, Mind!Accusation, Accuses
<1>3. \A new \in Claim, old \in MemberInfo : Mind!Newer(new, old) <=> Overrides(new, old)
    BY DEF Mind!Newer, Overrides, Claim, MemberInfo, MemberState, Strength
<1> QED
    BY <1>1, <1>2, <1>3

\* The beliefs of the abstract specification, when n has changed its entry of m, or
\* none.
LEMMA MindThinks ==
    ASSUME TypeInv, NEW n \in Nodes, OnlyNode(n), GoodList(list'[n]), NEW m \in Members,
           \A x \in Members \ {m} : list'[n].members[x] = list[n].members[x]
    PROVE  [x \in Nodes |-> list'[x].members]
              = [[x \in Nodes |-> list[x].members] EXCEPT ![n][m] = list'[n].members[m]]
<1>1. /\ list[n].members \in [Members -> MemberInfo]
      /\ list'[n].members \in [Members -> MemberInfo]
    BY NodeTyped DEF NodeOK, GoodList, List
<1>2. list'[n].members = [list[n].members EXCEPT ![m] = list'[n].members[m]]
    BY <1>1
<1>3. \A x \in Nodes \ {n} : list'[x] = list[x]
    BY NodeTyped DEF OnlyNode
<1> QED
    BY <1>2, <1>3

LEMMA MindSpeaks ==
    ASSUME TypeInv, NEW n \in Nodes, OnlyNode(n)
    PROVE  [x \in Nodes |-> list'[x].my_incarnation]
              = [[x \in Nodes |-> list[x].my_incarnation] EXCEPT
                    ![n] = list'[n].my_incarnation]
<1>1. \A x \in Nodes \ {n} : list'[x] = list[x]
    BY NodeTyped DEF OnlyNode
<1> QED
    BY <1>1

\* A node that does not run does nothing but start.
LEMMA Runs ==
    ASSUME TypeInv, NEW n \in Nodes, NodeStep(n), n \notin up
    PROVE  Construct(n)
<1>1. sender[n].at = "join" /\ receiver[n].at = "off"
    BY DEF TypeInv, Places
<1>2. ~SenderStep(n)
    BY <1>1 DEF SenderStep, Ping, NobodyToPing, DirectAck, DirectTimeout, AskProxy,
       NobodyToAsk, IndirectWaitEnds, ScanSuspects, Promote
<1>3. ~ReceiverStep(n)
    BY <1>1 DEF ReceiverStep, Receive, ProcessNext, HandlePing, HandlePingReq,
       ProxyWaitEnds, HandleAck, Handling
<1> QED
    BY <1>2, <1>3 DEF NodeStep, Crash, Start, JoinSeed

\* n keeps its list but for what it sends.
LEMMA AnnounceStep ==
    ASSUME TypeInv, NEW n \in Nodes, OnlyNode(n), up' = up,
           list'[n].members = list[n].members,
           list'[n].my_incarnation = list[n].my_incarnation,
           Said' \subseteq Said \cup {Update(n, Info("ALIVE", list[n].my_incarnation))}
    PROVE  Mind!Announce(n)
<1>1. \A x \in Nodes \ {n} : list'[x] = list[x]
    BY NodeTyped DEF OnlyNode
<1>2. /\ [x \in Nodes |-> list'[x].members] = [x \in Nodes |-> list[x].members]
      /\ [x \in Nodes |-> list'[x].my_incarnation] = [x \in Nodes |-> list[x].my_incarnation]
    BY <1>1
<1> QED
    BY <1>2, MindMeans DEF Mind!Announce, Mind!Spread

\* n enters m in its list, and says no more than that.
LEMMA ThinkStep ==
    ASSUME TypeInv, NEW n \in Nodes, OnlyNode(n), up' = up, net' \subseteq net,
           AtHand(n)' => Told(receiver'[n].msg) \subseteq Said,
           NEW m \in Members, Entered(list[n], list'[n], m)
    PROVE  /\ [x \in Nodes |-> list'[x].members]
                 = [[x \in Nodes |-> list[x].members] EXCEPT ![n][m] = list'[n].members[m]]
           /\ Said' \subseteq Said \cup {Mind!Rumour(m, list'[n].members[m])}
           /\ UNCHANGED <<[x \in Nodes |-> list[x].my_incarnation], up>>
<1>1. [x \in Nodes |-> list'[x].members]
         = [[x \in Nodes |-> list[x].members] EXCEPT ![n][m] = list'[n].members[m]]
    BY MindThinks DEF Entered
<1>2. [x \in Nodes |-> list'[x].my_incarnation] = [x \in Nodes |-> list[x].my_incarnation]
    <2>1. \A x \in Nodes : list'[x].my_incarnation = list[x].my_incarnation
        BY NodeTyped DEF OnlyNode, Entered
    <2> QED
        BY <2>1
<1>3. Rumours(list[n]) \subseteq Said
    BY SaidMeans DEF SaidBy
<1>4. Said' \subseteq Said \cup {Update(m, list'[n].members[m])}
    BY <1>3, SaidStep DEF Entered
<1> QED
    BY <1>1, <1>2, <1>4, MindMeans

LEMMA SaidByAll ==
    /\ \A n \in Nodes : Rumours(list[n]) \subseteq Said
    /\ \A msg \in net : Told(msg) \subseteq Said
    /\ \A n \in Nodes : AtHand(n) => Told(receiver[n].msg) \subseteq Said
BY SaidMeans DEF SaidBy, AtHand

LEMMA WorksMind ==
    ASSUME TypeInv, NEW n \in up, OnlyNode(n), PeerOK(n), Works(n)
    PROVE  \/ Mind!Announce(n)
           \/ \E m \in Members : \/ Mind!Meet(n, m)
                                 \/ Mind!Accuse(n, m, "SUSPECT") \/ Mind!Accuse(n, m, "DEAD")
<1>0. n \in Nodes /\ GoodList(list[n]) /\ up' = up /\ sender[n] \in Sender
    BY NodeTyped DEF NodeOK, Works
<1>1. AtHand(n)' => Told(receiver'[n].msg) \subseteq Said
    BY <1>0, SaidByAll DEF Works
<1>2. CASE list'[n] = list[n] /\ net' \subseteq net
    BY <1>0, <1>1, <1>2, SaidByAll, SaidStep, AnnounceStep
<1>3. CASE Tells(n)
    <2> DEFINE own == Update(n, Info("ALIVE", list[n].my_incarnation))
    <2>1. PICK msg : News(n, msg) /\ net' \subseteq net \cup {msg}
        BY <1>3 DEF Tells
    <2>2. Told(msg) \subseteq Said \cup {own}
        BY <1>0, <2>1, SaidByAll DEF News, Told
    <2>3. /\ list'[n].members = list[n].members
          /\ list'[n].my_incarnation = list[n].my_incarnation
          /\ Rumours(list'[n]) \subseteq Said
        BY <1>0, <1>3, AfterAttachedGood, SaidByAll DEF Tells
    <2>4. Said' \subseteq Said \cup {own}
        BY <1>0, <1>1, <2>1, <2>2, <2>3, SaidStep
    <2> QED
        BY <1>0, <2>3, <2>4, AnnounceStep
<1>4. CASE Marks(n) /\ list'[n] # list[n]
    <2>1. PICK m \in Members :
             /\ m # n
             /\ list'[n] \in {MarkSuspect(list[n], m), MarkDead(list[n], m)}
        BY <1>0, <1>4 DEF Marks, PeerOK
    <2>2. Entered(list[n], list'[n], m) /\ net' \subseteq net
        BY <1>0, <1>4, <2>1, MarkGood DEF Marks
    <2>3. /\ [x \in Nodes |-> list'[x].members]
                = [[x \in Nodes |-> list[x].members] EXCEPT ![n][m] = list'[n].members[m]]
          /\ Said' \subseteq Said \cup {Mind!Rumour(m, list'[n].members[m])}
          /\ UNCHANGED <<[x \in Nodes |-> list[x].my_incarnation], up>>
        BY <1>0, <1>1, <2>2, ThinkStep
    <2>4. list[n].members[m] \in MemberInfo
        BY <1>0 DEF GoodList, List
    <2>5. PICK s \in {"SUSPECT", "DEAD"} :
             /\ list'[n].members[m] = Info(s, list[n].members[m].incarnation)
             /\ \/ s = "SUSPECT" /\ list[n].members[m].state = "ALIVE"
                \/ s = "DEAD" /\ list[n].members[m].state \in {"ALIVE", "SUSPECT"}
        <3>1. \A s \in MemberState : Info(s, list[n].members[m].incarnation) \in Claim
            BY <2>4, ClaimTyped DEF MemberInfo
        <3> QED
            BY <1>0, <1>4, <2>1, <3>1, SetGood DEF MarkSuspect, MarkDead, MemberState
    <2>6. /\ Mind!Newer(Info(s, list[n].members[m].incarnation), list[n].members[m])
          /\ list[n].members[m].state # "UNKNOWN"
        BY <2>4, <2>5 DEF Mind!Newer, Info
    <2>7. Mind!Accuse(n, m, s)
        <3> DEFINE b == [x \in Nodes |-> list[x].members][n][m]
        <3>1. b = list[n].members[m]
            BY <1>0
        <3>2. Mind!Opinion(s, b.incarnation) = list'[n].members[m]
            BY <2>5, <3>1, MindMeans
        <3>3. /\ b.state # "UNKNOWN" /\ Mind!Newer(Mind!Opinion(s, b.incarnation), b)
            BY <2>5, <2>6, <3>1, <3>2
        <3> QED
            BY <2>1, <2>3, <3>2, <3>3 DEF Mind!Accuse, Mind!Think, Mind!Spread
    <2> QED
        BY <2>5, <2>7
<1>5. CASE Learns(n) /\ list'[n] # list[n]
    <2>1. PICK m \in Members : list'[n] = AddMember(list[n], m)
        BY <1>5 DEF Learns
    <2>2. /\ list[n].members[m] = Unknown /\ list'[n].members[m] = Info("ALIVE", 0)
          /\ Entered(list[n], list'[n], m) /\ net' \subseteq net
        BY <1>0, <1>5, <2>1, AddMemberGood DEF Learns
    <2>3. /\ [x \in Nodes |-> list'[x].members]
                = [[x \in Nodes |-> list[x].members] EXCEPT ![n][m] = list'[n].members[m]]
          /\ Said' \subseteq Said \cup {Mind!Rumour(m, list'[n].members[m])}
          /\ UNCHANGED <<[x \in Nodes |-> list[x].my_incarnation], up>>
        BY <1>0, <1>1, <2>2, ThinkStep
    <2>4. [x \in Nodes |-> list[x].members][n][m] = Mind!NoOpinion
        BY <1>0, <2>2, MindMeans
    <2>5. Mind!Think(n, m, Mind!Fresh)
        BY <2>2, <2>3, MindMeans DEF Mind!Think, Mind!Spread
    <2>6. Mind!Meet(n, m)
        BY <2>3, <2>4, <2>5 DEF Mind!Meet
    <2> QED
        BY <2>6
<1>6. CASE list'[n] = list[n] /\ (Marks(n) \/ Learns(n))
    BY <1>2, <1>6 DEF Marks, Learns
<1> QED
    BY <1>2, <1>3, <1>4, <1>5, <1>6 DEF Works

\* n applies a rumour: it hears it, refutes it, or knows better.
LEMMA AppliesMind ==
    ASSUME TypeInv, NEW n \in up, OnlyNode(n), NEW msg, Applies(n, msg)
    PROVE  Mind!Announce(n) \/ \E u \in Said : Mind!Hear(n, u) \/ Mind!Refute(n, u)
<1> DEFINE u == Head(msg.updates)
           l == Refuted(n, u)
           k == list'[n]
           bs == [x \in Nodes |-> list[x].members]
           is == [x \in Nodes |-> list[x].my_incarnation]
<1>0. /\ n \in Nodes /\ n \in Members /\ GoodList(list[n])
      /\ list[n].my_incarnation \in Nat /\ list[n].members \in [Members -> MemberInfo]
      /\ up' = up /\ net' \subseteq net
    BY NodeTyped, SwimAssumption DEF NodeOK, GoodList, List, Applies
<1>1. /\ u \in MembershipUpdate /\ u \in Said
      /\ Told(receiver'[n].msg) \subseteq Said
    <2>1. Told(msg) \subseteq Said
        BY <1>0, SaidByAll DEF Applies
    <2>2. msg \in GossipMessage /\ msg.updates # <<>>
        BY DEF Applies
    <2>3. /\ u \in MembershipUpdate /\ 1 \in DOMAIN msg.updates /\ u = msg.updates[1]
          /\ Handed(n, msg).msg.updates = Tail(msg.updates)
          /\ \A i \in DOMAIN Tail(msg.updates) :
                i + 1 \in DOMAIN msg.updates /\ Tail(msg.updates)[i] = msg.updates[i + 1]
        BY <1>0, <2>2, HandedTyped
    <2>4. Told(Handed(n, msg).msg) \subseteq Told(msg)
        BY <2>3 DEF Told
    <2> QED
        BY <2>1, <2>3, <2>4 DEF Applies, Told
<1>2. u.id \in Members /\ u.info \in Claim
    BY <1>1 DEF MembershipUpdate, Claim
<1>3. k = ApplyUpdate(l, u)
    BY DEF Applies
<1>4. bs[n] = list[n].members /\ is[n] = list[n].my_incarnation
    BY <1>0
<1>5. Mind!Accusation(n, u) <=> Accuses(n, u)
    BY <1>0, MindMeans
<1>6. CASE ~Accuses(n, u) /\ Overrides(u.info, list[n].members[u.id])
    <2>1. Entered(list[n], k, u.id) /\ k.members[u.id] = u.info
        BY <1>0, <1>1, <1>3, <1>6, ApplyGood DEF Refuted
    <2>2. /\ [x \in Nodes |-> list'[x].members] = [bs EXCEPT ![n][u.id] = u.info]
          /\ Said' \subseteq Said \cup {Mind!Rumour(u.id, u.info)}
          /\ UNCHANGED <<is, up>>
        BY <1>0, <1>1, <1>2, <2>1, ThinkStep
    <2>3. Mind!Newer(u.info, bs[n][u.id])
        BY <1>0, <1>2, <1>4, <1>6, MindMeans
    <2>4. Mind!Hear(n, u)
        <3> HIDE DEF u
        <3> QED
            BY <1>5, <1>6, <2>2, <2>3 DEF Mind!Hear, Mind!Think, Mind!Spread
    <2> QED
        BY <1>1, <2>4
<1>7. CASE ~Accuses(n, u) /\ ~Overrides(u.info, list[n].members[u.id])
    <2>1. k = list[n]
        BY <1>0, <1>1, <1>3, <1>7, ApplyGood DEF Refuted
    <2> QED
        BY <1>0, <1>1, <2>1, SaidByAll, SaidStep, AnnounceStep
<1>8. CASE Accuses(n, u)
    <2> DEFINE i == list[n].my_incarnation + 1
               answer == Info("ALIVE", i)
    <2>1. /\ GoodList(l) /\ l.my_incarnation = i /\ l.members[n] = answer
          /\ \A x \in Members \ {n} : l.members[x] = list[n].members[x]
          /\ \A v \in Rumours(l) : v \in Rumours(list[n]) \/ v = Update(n, answer)
        BY <1>0, <1>8, IncrementGood DEF Refuted
    <2>2. u.id = n /\ answer \in Claim /\ answer \in MemberInfo
        BY <1>0, <1>8, ClaimTyped DEF Accuses, MemberState
    <2>3. /\ Entered(l, k, n)
          /\ k.members[n] = IF Overrides(u.info, answer) THEN u.info ELSE answer
        <3> HIDE DEF l
        <3> QED
            BY <1>1, <1>3, <2>1, <2>2, ApplyGood
    <2>4. /\ GoodList(k) /\ k.my_incarnation = i
          /\ \A x \in Members \ {n} : k.members[x] = list[n].members[x]
        BY <2>1, <2>3 DEF Entered
    <2>5. Rumours(k) \subseteq Said \cup {Update(n, answer)}
        <3>1. u = Update(n, u.info)
            BY <1>1, <2>2 DEF Update, MembershipUpdate
        <3>2. Update(n, k.members[n]) \in {u, Update(n, answer)}
            BY <2>3, <3>1
        <3>3. \A v \in Rumours(k) : v \in Rumours(l) \/ v = Update(n, k.members[n])
            BY <2>3 DEF Entered
        <3> QED
            BY <1>0, <1>1, <2>1, <3>2, <3>3, SaidByAll
    <2>6. Said' \subseteq Said \cup {Mind!Rumour(n, answer)}
        BY <1>0, <1>1, <2>5, SaidStep, MindMeans
    <2>7. /\ [x \in Nodes |-> list'[x].members]
                = [bs EXCEPT ![n][n] = IF Overrides(u.info, answer) THEN u.info ELSE answer]
          /\ [x \in Nodes |-> list'[x].my_incarnation] = [is EXCEPT ![n] = i]
        <3> HIDE DEF u, l, i, answer
        <3>1. [x \in Nodes |-> list'[x].members] = [bs EXCEPT ![n][n] = list'[n].members[n]]
            BY <1>0, <2>4, MindThinks
        <3>2. [x \in Nodes |-> list'[x].my_incarnation]
                 = [is EXCEPT ![n] = list'[n].my_incarnation]
            BY <1>0, MindSpeaks
        <3> QED
            BY <2>3, <2>4, <3>1, <3>2
    <2>8. /\ Mind!Opinion("ALIVE", is[n] + 1) = answer
          /\ Mind!Newer(u.info, answer) <=> Overrides(u.info, answer)
        BY <1>2, <1>4, <2>2, MindMeans
    <2>9. Mind!Refute(n, u)
        <3> HIDE DEF u, answer
        <3>1. [is EXCEPT ![n] = i] = [is EXCEPT ![n] = is[n] + 1]
            BY <1>4
        <3> QED
            BY <1>0, <1>5, <1>8, <2>6, <2>7, <2>8, <3>1 DEF Mind!Refute, Mind!Spread
    <2> QED
        BY <1>1, <2>9
<1> QED
    BY <1>6, <1>7, <1>8

LEMMA CrashMind ==
    ASSUME TypeInv, NEW n \in Nodes, OnlyNode(n), Crash(n)
    PROVE  n \in up /\ Mind!Forget(n)
<1>1. /\ n \in up /\ up' = up \ {n} /\ net' = net /\ list' = [list EXCEPT ![n] = EmptyList]
      /\ receiver'[n] = ReceiverAt(n, "off")
    BY NodeTyped DEF Crash, GoReceiver
<1>2. ~AtHand(n)' /\ Rumours(list'[n]) = {}
    BY <1>1, ReceiverTyped, NodeTyped, EmptyGood DEF AtHand, ReceiverPlaces
<1>3. Said' \subseteq Said \cup {}
    BY <1>1, <1>2, SaidStep
<1>4. /\ [x \in Nodes |-> list'[x].members]
           = [[x \in Nodes |-> list[x].members] EXCEPT ![n] = [m \in Members |-> Unknown]]
      /\ [x \in Nodes |-> list'[x].my_incarnation]
           = [[x \in Nodes |-> list[x].my_incarnation] EXCEPT ![n] = 0]
    BY <1>1, NodeTyped DEF EmptyList
<1> QED
    BY <1>1, <1>3, <1>4, MindMeans DEF Mind!Forget, Mind!Spread

LEMMA ConstructMind ==
    ASSUME TypeInv, NEW n \in Nodes, OnlyNode(n), Construct(n)
    PROVE  n \notin up /\ Mind!Begin(n)
<1>1. /\ n \notin up /\ up' = up \cup {n} /\ net' = net /\ receiver' = receiver
      /\ list' = [list EXCEPT ![n] = AddMember(EmptyList, n)] /\ n \in Members
    BY SwimAssumption DEF Construct
<1>2. list'[n] = AddMember(EmptyList, n)
    BY <1>1, NodeTyped
<1>3. /\ Entered(EmptyList, list'[n], n) /\ list'[n].members[n] = Info("ALIVE", 0)
      /\ \A m \in Members : EmptyList.members[m] = Unknown
      /\ EmptyList.my_incarnation = 0
    <2>1. /\ \A m \in Members : EmptyList.members[m] = Unknown
          /\ EmptyList.my_incarnation = 0
        BY DEF EmptyList
    <2> QED
        BY <1>1, <1>2, <2>1, EmptyGood, AddMemberGood
<1>4. list'[n].members
        = [m \in Members |-> IF m = n THEN Info("ALIVE", 0) ELSE Unknown]
    <2>1. list'[n].members \in [Members -> MemberInfo]
        BY <1>3 DEF Entered, GoodList, List
    <2>2. \A m \in Members : list'[n].members[m] = IF m = n THEN Info("ALIVE", 0) ELSE Unknown
        BY <1>3 DEF Entered
    <2> QED
        BY <2>1, <2>2
<1>5. Said' \subseteq Said \cup {Update(n, Info("ALIVE", 0))}
    <2>1. Rumours(list'[n]) \subseteq {Update(n, Info("ALIVE", 0))}
        BY <1>3, EmptyGood DEF Entered
    <2>2. AtHand(n)' => Told(receiver'[n].msg) \subseteq Said
        BY <1>1, SaidByAll DEF AtHand
    <2> QED
        BY <1>1, <2>1, <2>2, SaidStep
<1>6. list'[n].my_incarnation = 0 /\ \A x \in Nodes \ {n} : list'[x] = list[x]
    BY <1>3, NodeTyped DEF Entered, OnlyNode
<1>7. /\ [x \in Nodes |-> list'[x].members]
           = [[x \in Nodes |-> list[x].members] EXCEPT
                 ![n] = [m \in Members |-> IF m = n THEN Info("ALIVE", 0) ELSE Unknown]]
      /\ [x \in Nodes |-> list'[x].my_incarnation]
           = [[x \in Nodes |-> list[x].my_incarnation] EXCEPT ![n] = 0]
    BY <1>4, <1>6
<1> QED
    BY <1>1, <1>5, <1>7, MindMeans DEF Mind!Begin, Mind!Spread

LEMMA MindInit == Init => Mind!BeliefInit
<1> SUFFICES ASSUME Init PROVE Mind!BeliefInit
    OBVIOUS
<1> DEFINE ms(n) == [m \in Members |-> IF m \in Known[n] THEN Info("ALIVE", 0) ELSE Unknown]
<1>1. ASSUME NEW n \in Nodes
      PROVE  /\ list[n].members = ms(n) /\ list[n].my_incarnation = 0
             /\ list[n].buffer = <<>> /\ ~AtHand(n)
    BY ListenTyped DEF Init, EmptyList, AtHand
<1>2. \A n \in Nodes : /\ ms(n) \in [Members -> {Unknown, Info("ALIVE", 0)}]
                       /\ n \in Members /\ ms(n)[n] = Info("ALIVE", 0)
    BY SwimAssumption
<1>3. Said = {}
    <2>1. \A b : b = <<>> => DOMAIN b = {}
        OBVIOUS
    <2>2. \A n \in Nodes : Rumours(list[n]) = {}
        BY <1>1, <2>1 DEF Rumours
    <2> QED
        BY <1>1, <2>2, SaidMeans DEF SaidBy, AtHand, Init
<1> HIDE DEF ms
<1>4. /\ [n \in Nodes |-> list[n].members] \in [Nodes -> [Members -> {Unknown, Info("ALIVE", 0)}]]
      /\ \A n \in Nodes : [x \in Nodes |-> list[x].members][n][n] = Info("ALIVE", 0)
      /\ [n \in Nodes |-> list[n].my_incarnation] = [n \in Nodes |-> 0]
    BY <1>1, <1>2
<1> QED
    BY <1>3, <1>4, MindMeans DEF Mind!BeliefInit, Init

LEMMA MindStep ==
    TypeInv /\ SelfInv /\ [Next]_vars => [Mind!BeliefNext]_(Mind!beliefVars)
<1> SUFFICES ASSUME TypeInv, SelfInv, [Next]_vars
             PROVE  [Mind!BeliefNext]_(Mind!beliefVars)
    OBVIOUS
<1>1. ASSUME NEW n \in Nodes, NodeStep(n)
      PROVE  Mind!BeliefNext
    <2>1. OnlyNode(n) /\ PeerOK(n)
        BY <1>1, OnlyThatNode DEF SelfInv
    <2>2. CASE Crash(n)
        BY <2>1, <2>2, CrashMind DEF Mind!BeliefNext
    <2>3. CASE Construct(n)
        BY <2>1, <2>3, ConstructMind DEF Mind!BeliefNext
    <2>4. CASE ~Construct(n) /\ Works(n)
        BY <1>1, <2>1, <2>4, Runs, WorksMind DEF Mind!BeliefNext
    <2>5. ASSUME NEW msg, ~Construct(n), Applies(n, msg)
          PROVE  Mind!BeliefNext
        BY <1>1, <2>1, <2>5, Runs, AppliesMind DEF Mind!BeliefNext
    <2> QED
        BY <1>1, <2>2, <2>3, <2>4, <2>5, StepWorks
<1>2. CASE UNCHANGED vars
    BY <1>2 DEF vars, acks, life, Mind!beliefVars, Said, AtHand
<1> QED
    BY <1>1, <1>2 DEF Next, Quiesced

\* The gossip protocol implements Beliefs: nobody's mind changes but by what it met,
\* found out, or heard and found newer; every accusation a node takes notice of it
\* answers in a new incarnation; and every rumour under way, also one left over from
\* a node's earlier life, is of somebody's making.
THEOREM MindsKept == Spec => ImplementsBeliefs
<1>1. Spec => [](TypeInv /\ SelfInv)
    BY Selves
<1> QED
    BY <1>1, MindInit, MindStep, PTL DEF Spec, ImplementsBeliefs, Mind!BeliefSpec
=============================================================================
