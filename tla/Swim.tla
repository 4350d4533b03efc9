-------------------------------- MODULE Swim --------------------------------
(***************************************************************************)
(* SwimProtocol (gossip/swim.{h,cpp}) on a set of nodes, each with its     *)
(* sender thread (DoPingRound, CheckSuspectTimeouts), its receiver thread  *)
(* (HandleMessage) and the membership list and pending ACKs they share,    *)
(* over a UDP network that delays, reorders and, by never delivering,      *)
(* loses messages.  Nodes crash, and start again with a fresh instance.    *)
(*                                                                         *)
(* A step is one critical section together with the message it leads to,   *)
(* or one piggybacked update of a received message.  Time is abstracted: a *)
(* wait may time out, and a suspicion be overdue, at any moment.           *)
(***************************************************************************)
EXTENDS MembershipList, FiniteSets

CONSTANTS Nodes,                \* ids of the processes; each is a member
          addr,                 \* addr[m]: the node at member m's address
          Seeds,                \* Seeds[n]: the "seed-<addr>" ids n starts from
          Known,                \* Known[n]: the members n knows at the outset
          indirect_ping_count,  \* SwimConfig::indirect_ping_count
          Broken,               \* pairs <<a, b>> such that b never hears a
          Prompt,               \* assume: messages are faster than timeouts
          MaxSeq,               \* bound: node n begins no round after MaxSeq[n]
          MaxNet,               \* bound: with this many under way, a datagram is lost
          MaxLives              \* bound: MaxLives[n]: how often n may start

ASSUME SwimAssumption ==
    /\ Nodes \subseteq Members
    /\ addr \in [Members -> Nodes]
    /\ \A n \in Nodes : addr[n] = n
    /\ Seeds \in [Nodes -> SUBSET Members]
    /\ Known \in [Nodes -> SUBSET Members]
    /\ \A n \in Nodes : n \in Known[n]
    /\ indirect_ping_count \in Nat
    /\ Broken \subseteq Nodes \X Nodes
    /\ Prompt \in BOOLEAN
    /\ MaxSeq \in [Nodes -> Nat]
    /\ MaxNet \in Nat
    /\ MaxLives \in [Nodes -> Nat \ {0}]

VARIABLES
    list,      \* membership_list_ of each node
    sender,    \* the sender thread: its place in the round, and its locals
    receiver,  \* the receiver thread: its place, and the message at hand
    pending,   \* keys of pending_acks_
    acked,     \* those that are true, with (history) the node that sent the ACK
    next_seq,  \* next_seq_num_
    net,       \* datagrams under way or in a socket
    up,        \* the nodes that run
    lives,     \* how often each node has started
    issued     \* history: the highest my_incarnation_ a node ever had

acks == <<pending, acked>>
life == <<up, lives>>
vars == <<list, sender, receiver, acks, next_seq, net, life, issued>>

None == "none"

MessageType == {"PING", "PING_REQ", "ACK"}
GossipMessage ==
    [type : MessageType, from : Nodes, to : Nodes, target : Members \cup {None},
     seq : Nat, updates : Seq(MembershipUpdate)]

\* The sender thread is at "join" before Start(), at "idle" before a round;
\* "direct": it waits for the ACK of its PING; "asking": it sends PING_REQs;
\* "indirect": it waits for a relayed ACK; "scan": it looks for overdue
\* suspects; "promote": it declares them DEAD.
SenderAt(place) == [at |-> place, peer |-> None, seq |-> 0, asked |-> {},
                    indirect |-> {}, overdue |-> {}]

\* The receiver thread is "off" before Start(), polls the socket at "listen",
\* works on a message at "apply", and waits at "proxy" for the ACK of a PING
\* that a PING_REQ made it send.  Elsewhere it has no message.
NoMessage(n) == [type |-> "ACK", from |-> n, to |-> n, target |-> None, seq |-> 0,
                 updates |-> <<>>]

ReceiverAt(n, place) == [at |-> place, msg |-> NoMessage(n), probe_seq |-> 0]

\* A cluster that has formed: every node knows some members, and the rumours from
\* which it knows are spent.
Init ==
    /\ list = [n \in Nodes |->
                  [EmptyList EXCEPT !.members =
                      [m \in Members |-> IF m \in Known[n] THEN Info("ALIVE", 0) ELSE Unknown]]]
    /\ sender = [n \in Nodes |-> SenderAt("idle")]
    /\ receiver = [n \in Nodes |-> ReceiverAt(n, "listen")]
    /\ pending = [n \in Nodes |-> {}]
    /\ acked = [n \in Nodes |-> {}]
    /\ next_seq = [n \in Nodes |-> 1]
    /\ net = {}
    /\ up = Nodes
    /\ lives = [n \in Nodes |-> 1]
    /\ issued = [n \in Nodes |-> 0]

-----------------------------------------------------------------------------
(* SendMessage, WaitForAck and the pending ACKs                            *)

\* SendMessage from n: rumours of the buffer, and n's own entry as ALIVE.  The two
\* are read in critical sections of their own, which are taken as one here.
Message(n, type, to, target, seq) ==
    [type |-> type, from |-> n, to |-> to, target |-> target, seq |-> seq,
     updates |-> Append(Attached(list[n]),
                        Update(n, Info("ALIVE", list[n].my_incarnation)))]

Send(msg) ==
    /\ net' = IF <<msg.from, msg.to>> \in Broken \/ Cardinality(net) >= MaxNet
              THEN net ELSE net \cup {msg}
    /\ list' = [list EXCEPT ![msg.from] = AfterAttached(@)]

\* Mutant of Probe: the number is read but not counted up.
ProbeSameSeq(n, type, m, target) ==
    /\ pending' = [pending EXCEPT ![n] = @ \cup {next_seq[n]}]
    /\ Send(Message(n, type, addr[m], target, next_seq[n]))
    /\ UNCHANGED <<acked, next_seq>>

\* n registers a new sequence number and sends it to the address of m.
Probe(n, type, m, target) ==
    /\ pending' = [pending EXCEPT ![n] = @ \cup {next_seq[n]}]
    /\ next_seq' = [next_seq EXCEPT ![n] = @ + 1]
    /\ Send(Message(n, type, addr[m], target, next_seq[n]))
    /\ UNCHANGED acked

Erase(n, seqs) ==
    /\ pending' = [pending EXCEPT ![n] = @ \ seqs]
    /\ acked' = [acked EXCEPT ![n] = {a \in @ : a[1] \notin seqs}]

GotAck(n, seqs) == \E a \in acked[n] : a[1] \in seqs

\* A receiver thread that has something to do other than to wait.
Working(n) ==
    /\ n \in up
    /\ \/ receiver[n].at = "apply"
       \/ receiver[n].at = "listen" /\ \E msg \in net : msg.to = n

MayTimeOut == Prompt => ~\E n \in Nodes : Working(n)

GoSender(n, s) == sender' = [sender EXCEPT ![n] = s]
GoReceiver(n, r) == receiver' = [receiver EXCEPT ![n] = r]

-----------------------------------------------------------------------------
(* Starting and crashing                                                   *)

Crash(n) ==
    /\ n \in up
    /\ lives[n] < MaxLives[n]
    /\ up' = up \ {n}
    /\ list' = [list EXCEPT ![n] = EmptyList]
    /\ GoSender(n, SenderAt("join"))
    /\ GoReceiver(n, ReceiverAt(n, "off"))
    /\ pending' = [pending EXCEPT ![n] = {}]
    /\ acked' = [acked EXCEPT ![n] = {}]
    /\ UNCHANGED <<next_seq, net, lives, issued>>

\* The constructor of a new instance.
Construct(n) ==
    /\ n \notin up
    /\ up' = up \cup {n}
    /\ lives' = [lives EXCEPT ![n] = @ + 1]
    /\ list' = [list EXCEPT ![n] = AddMember(EmptyList, n)]
    /\ next_seq' = [next_seq EXCEPT ![n] = 1]
    /\ UNCHANGED <<sender, receiver, acks, net, issued>>

\* One seed of JoinCluster.
JoinSeed(n, s) ==
    /\ n \in up
    /\ sender[n].at = "join"
    /\ s \in Seeds[n]
    /\ list[n].members[s] = Unknown
    /\ list' = [list EXCEPT ![n] = AddMember(@, s)]
    /\ UNCHANGED <<sender, receiver, acks, next_seq, net, life, issued>>

Start(n) ==
    /\ n \in up
    /\ sender[n].at = "join"
    /\ \A s \in Seeds[n] : list[n].members[s] # Unknown
    /\ GoSender(n, SenderAt("idle"))
    /\ GoReceiver(n, ReceiverAt(n, "listen"))
    /\ UNCHANGED <<list, acks, next_seq, net, life, issued>>

-----------------------------------------------------------------------------
(* The sender thread                                                       *)

\* DoPingRound, steps 1 and 2.
Ping(n) ==
    /\ sender[n].at = "idle"
    /\ next_seq[n] <= MaxSeq[n]
    /\ \E m \in Peers(list[n], n) :
          /\ Probe(n, "PING", m, None)
          /\ GoSender(n, [SenderAt("direct") EXCEPT !.peer = m, !.seq = next_seq[n]])
    /\ UNCHANGED <<receiver, life, issued>>

NobodyToPing(n) ==
    /\ sender[n].at = "idle"
    /\ next_seq[n] <= MaxSeq[n]
    /\ Peers(list[n], n) = {}
    /\ GoSender(n, SenderAt("scan"))
    /\ UNCHANGED <<list, receiver, acks, next_seq, net, life, issued>>

DirectAck(n) ==
    /\ sender[n].at = "direct"
    /\ GotAck(n, {sender[n].seq})
    /\ Erase(n, {sender[n].seq})
    /\ GoSender(n, SenderAt("scan"))
    /\ UNCHANGED <<list, receiver, next_seq, net, life, issued>>

\* The loop that asks proxies ends when there are enough, or nobody is left.
Asking(s) ==
    [s EXCEPT !.at = IF Cardinality(s.asked) < indirect_ping_count
                     THEN "asking" ELSE "indirect"]

DirectTimeout(n) ==
    /\ sender[n].at = "direct"
    /\ ~GotAck(n, {sender[n].seq})
    /\ MayTimeOut
    /\ GoSender(n, Asking(sender[n]))
    /\ UNCHANGED <<list, receiver, acks, next_seq, net, life, issued>>

Proxies(n) == Peers(list[n], n) \ (sender[n].asked \cup {sender[n].peer})

AskProxy(n) ==
    /\ sender[n].at = "asking"
    /\ \E p \in Proxies(n) :
          /\ Probe(n, "PING_REQ", p, sender[n].peer)
          /\ GoSender(n, Asking([sender[n] EXCEPT !.asked = @ \cup {p},
                                                  !.indirect = @ \cup {next_seq[n]}]))
    /\ UNCHANGED <<receiver, life, issued>>

NobodyToAsk(n) ==
    /\ sender[n].at = "asking"
    /\ Proxies(n) = {}
    /\ GoSender(n, [sender[n] EXCEPT !.at = "indirect"])
    /\ UNCHANGED <<list, receiver, acks, next_seq, net, life, issued>>

\* Mutant of IndirectWaitEnds: the number of the direct probe stays registered.
IndirectWaitEndsLeaky(n) ==
    /\ sender[n].at = "indirect"
    /\ IF GotAck(n, sender[n].indirect)
       THEN UNCHANGED list
       ELSE /\ sender[n].indirect # {} => MayTimeOut
            /\ list' = [list EXCEPT ![n] = MarkSuspect(@, sender[n].peer)]
    /\ Erase(n, sender[n].indirect)
    /\ GoSender(n, SenderAt("scan"))
    /\ UNCHANGED <<receiver, next_seq, net, life, issued>>

\* A relayed ACK, or the probe has failed.  No wait if nobody could be asked.  A
\* direct ACK that came late is ignored.
IndirectWaitEnds(n) ==
    /\ sender[n].at = "indirect"
    /\ IF GotAck(n, sender[n].indirect)
       THEN UNCHANGED list
       ELSE /\ sender[n].indirect # {} => MayTimeOut
            /\ list' = [list EXCEPT ![n] = MarkSuspect(@, sender[n].peer)]
    /\ Erase(n, {sender[n].seq} \cup sender[n].indirect)
    /\ GoSender(n, SenderAt("scan"))
    /\ UNCHANGED <<receiver, next_seq, net, life, issued>>

\* CheckSuspectTimeouts copies the suspects that are overdue, then goes through
\* the copy; the round is over when the copy is used up.
PromoteLater(n, overdue) ==
    GoSender(n, [SenderAt(IF overdue = {} THEN "idle" ELSE "promote")
                    EXCEPT !.overdue = overdue])

ScanSuspects(n) ==
    /\ sender[n].at = "scan"
    /\ \E overdue \in SUBSET Suspects(list[n], n) : PromoteLater(n, overdue)
    /\ UNCHANGED <<list, receiver, acks, next_seq, net, life, issued>>

Promote(n) ==
    /\ sender[n].at = "promote"
    /\ \E m \in sender[n].overdue :
          /\ list' = [list EXCEPT ![n] = MarkDead(@, m)]
          /\ PromoteLater(n, sender[n].overdue \ {m})
    /\ UNCHANGED <<receiver, acks, next_seq, net, life, issued>>

SenderStep(n) ==
    \/ Ping(n) \/ NobodyToPing(n) \/ DirectAck(n) \/ DirectTimeout(n)
    \/ AskProxy(n) \/ NobodyToAsk(n) \/ IndirectWaitEnds(n)
    \/ ScanSuspects(n) \/ Promote(n)

-----------------------------------------------------------------------------
(* The receiver thread                                                     *)

\* Mutant of Accuses: only a later incarnation is answered.
AccusesLater(n, u) ==
    /\ u.id = n
    /\ u.info.state \in {"SUSPECT", "DEAD"}
    /\ u.info.incarnation > list[n].my_incarnation

\* CheckSelfRefutation: u accuses n, at its current incarnation or a later one.
Accuses(n, u) ==
    /\ u.id = n
    /\ u.info.state \in {"SUSPECT", "DEAD"}
    /\ u.info.incarnation >= list[n].my_incarnation

\* One round of the loop in ProcessPiggybackedUpdates, over those of msg.  The reading
\* of the own incarnation, its increment and ApplyUpdate are three critical sections,
\* taken as one: what the sender thread may do in between comes before or after here.
Process(n, msg) ==
    LET u == Head(msg.updates)
        l == IF Accuses(n, u) THEN IncrementMyIncarnation(list[n], n) ELSE list[n]
    IN  /\ list' = [list EXCEPT ![n] = ApplyUpdate(l, u)]
        /\ issued' = [issued EXCEPT ![n] = IF l.my_incarnation > @
                                           THEN l.my_incarnation ELSE @]
        /\ GoReceiver(n, [ReceiverAt(n, "apply") EXCEPT
                             !.msg = [msg EXCEPT !.updates = Tail(@)]])

\* Every message has an update, the sender's own.
Receive(n) ==
    /\ n \in up
    /\ receiver[n].at = "listen"
    /\ \E msg \in net :
          /\ msg.to = n
          /\ net' = net \ {msg}
          /\ Process(n, msg)
    /\ UNCHANGED <<sender, acks, next_seq, life>>

ProcessNext(n) ==
    /\ receiver[n].at = "apply"
    /\ receiver[n].msg.updates # <<>>
    /\ Process(n, receiver[n].msg)
    /\ UNCHANGED <<sender, acks, next_seq, net, life>>

\* HandleMessage gets to the message itself.
Handling(n, type) ==
    /\ receiver[n].at = "apply"
    /\ receiver[n].msg.updates = <<>>
    /\ receiver[n].msg.type = type

\* The sender of a message is in the list by its own update: AddMember does
\* nothing here.
HandlePing(n) ==
    /\ Handling(n, "PING")
    /\ Send(Message(n, "ACK", receiver[n].msg.from, None, receiver[n].msg.seq))
    /\ GoReceiver(n, ReceiverAt(n, "listen"))
    /\ UNCHANGED <<sender, acks, next_seq, life, issued>>

HandlePingReq(n) ==
    LET msg == receiver[n].msg IN
    /\ Handling(n, "PING_REQ")
    /\ IF list[n].members[msg.target] = Unknown
       THEN /\ GoReceiver(n, ReceiverAt(n, "listen"))
            /\ UNCHANGED <<list, acks, next_seq, net>>
       ELSE /\ Probe(n, "PING", msg.target, None)
            /\ GoReceiver(n, [receiver[n] EXCEPT !.at = "proxy",
                                                 !.probe_seq = next_seq[n]])
    /\ UNCHANGED <<sender, life, issued>>

\* The wait in HandlePingReq is over; an ACK is relayed.
ProxyWaitEnds(n) ==
    /\ receiver[n].at = "proxy"
    /\ IF GotAck(n, {receiver[n].probe_seq})
       THEN Send(Message(n, "ACK", receiver[n].msg.from, None, receiver[n].msg.seq))
       ELSE MayTimeOut /\ UNCHANGED <<list, net>>
    /\ Erase(n, {receiver[n].probe_seq})
    /\ GoReceiver(n, ReceiverAt(n, "listen"))
    /\ UNCHANGED <<sender, next_seq, life, issued>>

\* RecordAck: an ACK nobody waits for any more is dropped.
HandleAck(n) ==
    LET msg == receiver[n].msg IN
    /\ Handling(n, "ACK")
    /\ acked' = [acked EXCEPT ![n] = IF msg.seq \in pending[n]
                                     THEN @ \cup {<<msg.seq, msg.from>>} ELSE @]
    /\ GoReceiver(n, ReceiverAt(n, "listen"))
    /\ UNCHANGED <<list, sender, pending, next_seq, net, life, issued>>

ReceiverStep(n) ==
    \/ Receive(n) \/ ProcessNext(n) \/ HandlePing(n) \/ HandlePingReq(n)
    \/ ProxyWaitEnds(n) \/ HandleAck(n)

-----------------------------------------------------------------------------
NodeStep(n) ==
    \/ SenderStep(n) \/ ReceiverStep(n)
    \/ Crash(n) \/ Construct(n) \/ Start(n)
    \/ \E s \in Members : JoinSeed(n, s)

\* The bounded rounds are over, and nothing is under way.
Quiesced ==
    /\ net = {}
    /\ \A n \in Nodes : /\ sender[n].at = "idle" /\ next_seq[n] > MaxSeq[n]
                        /\ receiver[n].at = "listen"
    /\ UNCHANGED vars

Next == Quiesced \/ \E n \in Nodes : NodeStep(n)

Spec == Init /\ [][Next]_vars

-----------------------------------------------------------------------------
(* Properties                                                              *)

SenderPlaces == {"join", "idle", "direct", "asking", "indirect", "scan", "promote"}
ReceiverPlaces == {"off", "listen", "apply", "proxy"}

Sender == [at : SenderPlaces, peer : Members \cup {None}, seq : Nat,
           asked : SUBSET Members, indirect : SUBSET Nat, overdue : SUBSET Members]
Receiver == [at : ReceiverPlaces, msg : GossipMessage, probe_seq : Nat]

\* The sender thread is in a probe; the receiver thread has a message at hand.
Probing(n) == sender[n].at \in {"direct", "asking", "indirect"}
AtHand(n) == receiver[n].at \in {"apply", "proxy"}

SwimTypeOK ==
    /\ list \in [Nodes -> List]
    /\ \A n \in Nodes : Len(list[n].buffer) <= kMaxPiggybackBuffer
    /\ sender \in [Nodes -> Sender]
    /\ \A n \in Nodes : Probing(n) => sender[n].peer \in Members
    /\ receiver \in [Nodes -> Receiver]
    /\ pending \in [Nodes -> SUBSET Nat]
    /\ acked \in [Nodes -> SUBSET (Nat \X Nodes)]
    /\ next_seq \in [Nodes -> Nat]
    /\ net \subseteq {msg \in GossipMessage : msg.updates # <<>>}
    /\ up \subseteq Nodes
    /\ lives \in [Nodes -> Nat]
    /\ issued \in [Nodes -> Nat]

\* What is said of m has a source: no list, rumour or message anywhere, also
\* none left over from an earlier life of m, gives m an incarnation that m
\* itself has not had.  So a member that outbids its own incarnation outbids
\* everything that was ever said of it, and a member that cannot speak (a
\* crashed node, a placeholder) is at 0.
Sourced(m, i) == i <= IF m \in Nodes THEN issued[m] ELSE 0

AllSourced(updates) ==
    \A k \in DOMAIN updates : Sourced(updates[k].id, updates[k].info.incarnation)

IncarnationsIssued ==
    /\ \A n \in Nodes :
          /\ list[n].my_incarnation <= issued[n]
          /\ \A m \in Members : Sourced(m, list[n].members[m].incarnation)
          /\ AllSourced([k \in DOMAIN list[n].buffer |-> list[n].buffer[k].update])
          /\ AtHand(n) => AllSourced(receiver[n].msg.updates)
    /\ \A msg \in net : AllSourced(msg.updates)

\* A node's belief about another member only goes forward in incarnation and,
\* within one, from ALIVE over SUSPECT to DEAD, whatever rumours arrive in
\* whatever order and whatever its own failure detector adds: a stale rumour,
\* also a stale DEAD, never undoes a refutation (membership_list.cpp:26-33).
NotOlder(new, old) ==
    \/ old.state = "UNKNOWN"
    \/ new.incarnation > old.incarnation
    \/ new.incarnation = old.incarnation /\ Strength[new.state] >= Strength[old.state]

NeverRegresses ==
    [][\A n \in up \cap up' : \A m \in Members \ {n} :
         NotOlder(list'[n].members[m], list[n].members[m])]_vars

\* Every accusation is answered: a node in its first life is, in its own list,
\* ALIVE at its current incarnation, whatever it has heard of itself.  (A node
\* that restarts is at incarnation 0 again and can hear of a later one.)
SelfAlive ==
    \A n \in up : lives[n] = 1 =>
        list[n].members[n] = Info("ALIVE", list[n].my_incarnation)

\* pending_acks_ holds just the probes under way, of the sender thread and of
\* the receiver thread as a proxy: every way out of a probe erases what it
\* registered, and an ACK that comes late registers nothing.
PendingExact ==
    \A n \in Nodes :
        /\ pending[n] =
              (IF Probing(n) THEN {sender[n].seq} \cup sender[n].indirect ELSE {})
              \cup (IF receiver[n].at = "proxy" THEN {receiver[n].probe_seq} ELSE {})
        /\ \A a \in acked[n] : a[1] \in pending[n]

\* The ACK that ends a direct probe comes from the node that was probed: a late
\* ACK of an earlier probe, of whatever peer, is never taken for it.  (The code
\* compares sequence numbers only, and they start at 1 again in a new life.)
AckFromProbed ==
    \A n \in Nodes : \A a \in acked[n] :
        lives[n] = 1 /\ Probing(n) /\ a[1] = sender[n].seq
            => a[2] = addr[sender[n].peer]

\* What is said of members: in the buffers, under way, and in the messages at hand.
Said ==
    LET hands == {receiver[n].msg : n \in {x \in Nodes : AtHand(x)}}
    IN  (UNION {{list[n].buffer[k].update : k \in DOMAIN list[n].buffer} : n \in Nodes})
        \cup (UNION {{msg.updates[k] : k \in DOMAIN msg.updates} : msg \in net \cup hands})

Mind == INSTANCE Beliefs WITH
    belief <- [n \in Nodes |-> list[n].members],
    incarnation <- [n \in Nodes |-> list[n].my_incarnation],
    rumours <- Said

\* The protocol does with the nodes' beliefs no more than Beliefs allows: a node
\* believes of others what it has met, found out or heard, each only if it is
\* newer; an accusation of itself it does not take over before it has answered it
\* in a new incarnation, which nobody else opens; and no message says what nobody
\* thought, however messages are delayed and reordered and nodes restarted
\* (swim.cpp:344-371, membership_list.cpp:26-33).
ImplementsBeliefs == Mind!BeliefSpec

\* swim.cpp:308-311 says that the indirect probe enables failure detection even
\* when the direct path is broken: where messages are faster than timeouts, a
\* node that runs and that a proxy can reach is not suspected.
NoFalseSuspicion ==
    up = Nodes => \A n \in Nodes, m \in Members :
                      list[n].members[m].state \in {"ALIVE", "UNKNOWN"}
=============================================================================
