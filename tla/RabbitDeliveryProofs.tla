------------------------ MODULE RabbitDeliveryProofs ------------------------
(***************************************************************************)
(* Theorems of RabbitDelivery for any number of subscribers, messages and  *)
(* faults.                                                                 *)
(***************************************************************************)
EXTENDS RabbitDelivery, FiniteSetTheorems, TLAPS

-----------------------------------------------------------------------------
(* Type correctness                                                        *)

(* A fault stays within the bound and is counted.                          *)
LEMMA FaultType ==
  ASSUME faults \in 0..MaxFaults, Fault
  PROVE  faults' \in 0..MaxFaults /\ faults' = faults + 1
<1>1. MaxFaults \in Nat
  BY DeliveryAssumption
<1> QED
  BY <1>1 DEF Fault

(* The broker takes back the messages of the consumers in S, and only of   *)
(* those.                                                                  *)
LEMMA RequeueEffect ==
  ASSUME TypeOK, NEW S \in SUBSET Subscribers, Requeue(S)
  PROVE  /\ queue' \subseteq Messages
         /\ unacked' \in [Subscribers -> SUBSET Messages]
         /\ \A s \in S : unacked'[s] = {}
         /\ \A s \in Subscribers \ S : unacked'[s] = unacked[s]
         /\ \A m \in Messages : m \in queue' <=> m \in queue \/ \E s \in S : m \in unacked[s]
BY DEF TypeOK, Requeue

(* The initial state is well typed.                                        *)
LEMMA InitType == Init => TypeOK
<1>1. MaxFaults \in Nat
  BY DeliveryAssumption
<1> QED
  BY <1>1 DEF Init, TypeOK, Phases

(* Every action keeps the types.                                           *)
LEMMA NextType == TypeOK /\ [Next]_vars => TypeOK'
<1> SUFFICES ASSUME TypeOK, [Next]_vars PROVE TypeOK'
  OBVIOUS
<1>0. CASE UNCHANGED vars
  BY <1>0 DEF TypeOK, vars, publisherVars
<1>1. CASE Publisher
  BY <1>1, FaultType
     DEF Publisher, PublishToRabbitMQ, ConnectionBreaks, ChannelCloses, RestartPublisher, TypeOK
<1>2. CASE BrokerRestarts
  <2>1. phase' \in [Subscribers -> Phases]
    BY <1>2 DEF BrokerRestarts, TypeOK, Phases
  <2>2. faults' \in 0..MaxFaults
    BY <1>2, FaultType DEF BrokerRestarts, TypeOK
  <2>3. queue' \subseteq Messages /\ unacked' \in [Subscribers -> SUBSET Messages]
    BY <1>2, RequeueEffect DEF BrokerRestarts
  <2> QED
    BY <1>2, <2>1, <2>2, <2>3 DEF BrokerRestarts, TypeOK
<1>3. ASSUME NEW m \in Messages, Route(m) \/ Expire(m) PROVE TypeOK'
  BY <1>3 DEF Route, Expire, TypeOK, publisherVars
<1>4. ASSUME NEW s \in Subscribers, Subscriber(s) PROVE TypeOK'
  <2>1. CASE Declare(s)
    BY <2>1 DEF Declare, TypeOK, Phases, publisherVars
  <2>2. CASE Bind(s)
    BY <2>2 DEF Bind, TypeOK, Phases, publisherVars
  <2>3. CASE Consume(s)
    BY <2>3 DEF Consume, TypeOK, Phases, publisherVars
  <2>4. ASSUME NEW m \in Messages, Deliver(s, m) PROVE TypeOK'
    BY <2>4 DEF Deliver, TypeOK, publisherVars
  <2>5. ASSUME NEW m \in Messages, Receive(s, m) PROVE TypeOK'
    BY <2>5 DEF Receive, TypeOK, publisherVars
  <2>6. CASE Ack(s)
    BY <2>6 DEF Ack, TypeOK, publisherVars
  <2>7. CASE DeliveriesEnd(s)
    BY <2>7, RequeueEffect, FaultType DEF DeliveriesEnd, TypeOK, Phases, publisherVars
  <2>8. ASSUME Leave(s), faults' \in 0..MaxFaults PROVE TypeOK'
    BY <2>8, RequeueEffect DEF Leave, TypeOK, Phases, publisherVars
  <2> QED
    BY <1>4, <2>1, <2>2, <2>3, <2>4, <2>5, <2>6, <2>7, <2>8, FaultType
       DEF Subscriber, Signal, Crash, TypeOK
<1> QED
  BY <1>0, <1>1, <1>2, <1>3, <1>4 DEF Next, Broker

(* Every reachable state of the delivery is well typed.                    *)
THEOREM TypeCorrect == Spec => []TypeOK
<1> QED
  BY InitType, NextType, PTL DEF Spec

-----------------------------------------------------------------------------
(* One place for each message                                              *)

(* A message that is on its way was sent, and is in one place.             *)
Placed ==
  /\ wire \cup queue \subseteq sent
  /\ wire \cap queue = {}
  /\ \A s \in Subscribers :
       /\ unacked[s] \subseteq sent \ (wire \cup queue)
       /\ \A m, n \in unacked[s] : m = n
       /\ \A d \in Subscribers \ {s} : unacked[s] \cap unacked[d] = {}

(* What the broker waits for is what a consumer works on; without a        *)
(* consumer it waits for nothing.                                          *)
Consumer(s) ==
  /\ phase[s] = "consuming" => unacked[s] = inbox[s] \cup printing[s]
  /\ phase[s] # "consuming" => unacked[s] = {}
  /\ phase[s] \notin {"consuming", "spinning"} => inbox[s] = {} /\ printing[s] = {}
  /\ inbox[s] \cap printing[s] = {}
  /\ \A m \in printing[s] : printed[m] > 0

PlaceInv == TypeOK /\ Placed /\ \A s \in Subscribers : Consumer(s)

(* At the start there is no message.                                       *)
LEMMA InitPlace == Init => PlaceInv
<1> SUFFICES ASSUME Init PROVE PlaceInv
  OBVIOUS
<1>1. TypeOK
  BY InitType
<1> QED
  BY <1>1 DEF Init, PlaceInv, Placed, Consumer

(* Requeuing keeps every message in one place.                             *)
LEMMA RequeuePlaced ==
  ASSUME TypeOK, Placed, NEW S \in SUBSET Subscribers, Requeue(S),
         sent' = sent, wire' \subseteq wire
  PROVE  Placed'
<1>1. /\ \A s \in S : unacked'[s] = {}
      /\ \A s \in Subscribers \ S : unacked'[s] = unacked[s]
      /\ \A m \in Messages : m \in queue' <=> m \in queue \/ \E s \in S : m \in unacked[s]
      /\ queue' \subseteq Messages
  BY RequeueEffect
<1>2. wire' \cup queue' \subseteq sent' /\ wire' \cap queue' = {}
  BY <1>1 DEF Placed
<1>3. ASSUME NEW s \in Subscribers
      PROVE  /\ unacked'[s] \subseteq sent' \ (wire' \cup queue')
             /\ \A m, n \in unacked'[s] : m = n
             /\ \A d \in Subscribers \ {s} : unacked'[s] \cap unacked'[d] = {}
  BY <1>1 DEF Placed
<1> QED
  BY <1>2, <1>3 DEF Placed

(* Publisher and broker keep every message in one place.                   *)
LEMMA BrokerPlace == ASSUME PlaceInv, TypeOK', Publisher \/ Broker PROVE PlaceInv'
<1>t. TypeOK /\ Placed /\ \A s \in Subscribers : Consumer(s)
  BY DEF PlaceInv
<1>1. CASE Publisher
  <2>1. Placed'
    BY <1>t, <1>1 DEF Publisher, PublishToRabbitMQ, ConnectionBreaks, ChannelCloses,
                      RestartPublisher, First, Placed
  <2>2. \A s \in Subscribers : Consumer(s)'
    BY <1>t, <1>1 DEF Publisher, PublishToRabbitMQ, ConnectionBreaks, ChannelCloses,
                      RestartPublisher, Consumer
  <2> QED
    BY <2>1, <2>2 DEF PlaceInv
<1>2. CASE BrokerRestarts
  <2>1. Placed'
    BY <1>t, <1>2, RequeuePlaced DEF BrokerRestarts
  <2>2. ASSUME NEW s \in Subscribers PROVE Consumer(s)'
    <3>1. unacked'[s] = {} /\ phase'[s] # "consuming"
      BY <1>t, <1>2, RequeueEffect DEF BrokerRestarts, TypeOK
    <3>2. phase'[s] # "spinning" => phase[s] \notin {"consuming", "spinning"}
      BY <1>t, <1>2 DEF BrokerRestarts, TypeOK
    <3> QED
      BY <1>t, <1>2, <3>1, <3>2 DEF BrokerRestarts, Consumer
  <2> QED
    BY <2>1, <2>2 DEF PlaceInv
<1>3. ASSUME NEW m \in Messages, Route(m) PROVE PlaceInv'
  <2>1. Placed'
    BY <1>t, <1>3 DEF Route, First, Placed
  <2>2. \A s \in Subscribers : Consumer(s)'
    BY <1>t, <1>3 DEF Route, Consumer
  <2> QED
    BY <2>1, <2>2 DEF PlaceInv
<1>4. ASSUME NEW m \in Messages, Expire(m) PROVE PlaceInv'
  <2>1. Placed'
    BY <1>t, <1>4 DEF Expire, First, Placed, publisherVars
  <2>2. \A s \in Subscribers : Consumer(s)'
    BY <1>t, <1>4 DEF Expire, Consumer
  <2> QED
    BY <2>1, <2>2 DEF PlaceInv
<1> QED
  BY <1>1, <1>2, <1>3, <1>4 DEF Broker

(* A subscriber keeps every message in one place.                          *)
LEMMA SubscriberPlace ==
  ASSUME PlaceInv, TypeOK', NEW s \in Subscribers, Subscriber(s) PROVE PlaceInv'
<1>t. TypeOK /\ Placed /\ \A d \in Subscribers : Consumer(d)
  BY DEF PlaceInv
<1>1. CASE Declare(s) \/ Bind(s) \/ Consume(s)
  <2>1. Placed'
    BY <1>t, <1>1 DEF Declare, Bind, Consume, Placed, publisherVars
  <2>2. \A d \in Subscribers : Consumer(d)'
    BY <1>t, <1>1 DEF Declare, Bind, Consume, Consumer, TypeOK
  <2> QED
    BY <2>1, <2>2 DEF PlaceInv
<1>2. ASSUME NEW m \in Messages, Deliver(s, m) PROVE PlaceInv'
  <2>1. Placed'
    BY <1>t, <1>2 DEF Deliver, First, Placed, TypeOK, publisherVars
  <2>2. \A d \in Subscribers : Consumer(d)'
    BY <1>t, <1>2 DEF Deliver, Consumer, TypeOK
  <2> QED
    BY <2>1, <2>2 DEF PlaceInv
<1>3. ASSUME NEW m \in Messages, Receive(s, m) PROVE PlaceInv'
  <2>1. Placed'
    BY <1>t, <1>3 DEF Receive, Placed, publisherVars
  <2>2. \A n \in Messages : printed'[n] >= printed[n] /\ printed'[m] > 0
    BY <1>t, <1>3 DEF Receive, TypeOK
  <2>3. ASSUME NEW d \in Subscribers \ {s} PROVE Consumer(d)'
    <3>1. inbox'[d] = inbox[d] /\ printing'[d] = printing[d] /\ unacked' = unacked /\ phase' = phase
      BY <1>t, <1>3 DEF Receive, TypeOK
    <3>2. \A n \in printing[d] : printed'[n] > 0
      BY <1>t, <1>3 DEF Receive, TypeOK, Consumer
    <3> QED
      BY <1>t, <3>1, <3>2 DEF Consumer
  <2>4. Consumer(s)'
    <3>1. inbox'[s] = inbox[s] \ {m} /\ printing'[s] = {m} /\ m \in inbox[s]
      BY <1>t, <1>3 DEF Receive, First, TypeOK
    <3>2. unacked' = unacked /\ phase' = phase /\ printing[s] = {}
      BY <1>3 DEF Receive
    <3>3. phase[s] \in {"consuming", "spinning"}
      BY <1>3 DEF Receive
    <3> QED
      BY <1>t, <2>2, <3>1, <3>2, <3>3 DEF Consumer
  <2> QED
    BY <2>1, <2>3, <2>4 DEF PlaceInv
<1>4. CASE Ack(s)
  <2>1. Placed'
    BY <1>t, <1>4 DEF Ack, Placed, TypeOK, publisherVars
  <2>2. \A d \in Subscribers : Consumer(d)'
    BY <1>t, <1>4 DEF Ack, Consumer, TypeOK
  <2> QED
    BY <2>1, <2>2 DEF PlaceInv
<1>5. CASE DeliveriesEnd(s)
  <2>1. Placed'
    BY <1>t, <1>5, RequeuePlaced DEF DeliveriesEnd, publisherVars
  <2>2. \A d \in Subscribers : Consumer(d)'
    BY <1>t, <1>5, RequeueEffect DEF DeliveriesEnd, Consumer, TypeOK
  <2> QED
    BY <2>1, <2>2 DEF PlaceInv
<1>6. CASE Leave(s)
  <2>1. Placed'
    BY <1>t, <1>6, RequeuePlaced DEF Leave, publisherVars
  <2>2. \A d \in Subscribers : Consumer(d)'
    BY <1>t, <1>6, RequeueEffect DEF Leave, Consumer, TypeOK
  <2> QED
    BY <2>1, <2>2 DEF PlaceInv
<1> QED
  BY <1>1, <1>2, <1>3, <1>4, <1>5, <1>6 DEF Subscriber, Signal, Crash

(* PlaceInv is inductive.                                                  *)
LEMMA NextPlace == PlaceInv /\ [Next]_vars => PlaceInv'
<1> SUFFICES ASSUME PlaceInv, [Next]_vars PROVE PlaceInv'
  OBVIOUS
<1>1. TypeOK'
  BY NextType DEF PlaceInv
<1>2. CASE UNCHANGED vars
  BY <1>1, <1>2 DEF PlaceInv, Placed, Consumer, vars, publisherVars
<1> QED
  BY <1>1, <1>2, BrokerPlace, SubscriberPlace DEF Next

(* PlaceInv holds in every reachable state.                                *)
LEMMA SpecPlace == Spec => []PlaceInv
<1> QED
  BY InitPlace, NextPlace, PTL DEF Spec

(* Two subscribers never work on the same delivery, and none has more than *)
(* one, however connections, subscribers and the broker fail.              *)
THEOREM Holder == Spec => []OneHolder
<1>1. PlaceInv => OneHolder
  BY DEF PlaceInv, Placed, OneHolder
<1> QED
  BY <1>1, SpecPlace, PTL

-----------------------------------------------------------------------------
(* No message vanishes                                                     *)

Accounted(m) ==
  \/ m \in wire \cup queue \cup expired \cup lost
  \/ \E s \in Subscribers : m \in unacked[s]
  \/ printed[m] > 0

(* Until the queue is bound, nothing counts as sent to it.                 *)
AccountInv ==
  /\ PlaceInv
  /\ topology # "bound" => sentBefore = Messages
  /\ \A m \in sent \ sentBefore : Accounted(m)

(* At the start nothing is sent.                                           *)
LEMMA InitAccount == Init => AccountInv
<1>1. Init => PlaceInv
  BY InitPlace
<1> QED
  BY <1>1 DEF Init, AccountInv

(* A message that is accounted for stays so.                               *)
LEMMA AccountKept ==
  ASSUME PlaceInv, PlaceInv', [Next]_vars, topology # "bound" => sentBefore = Messages,
         NEW m \in sent \ sentBefore, Accounted(m)
  PROVE  Accounted(m)'
<1>t. TypeOK /\ m \in Messages /\ topology = "bound" /\ \A s \in Subscribers : Consumer(s)
  BY DEF PlaceInv, TypeOK
<1>0. ASSUME wire \cup queue \cup lost \cup expired \subseteq wire' \cup queue' \cup lost' \cup expired',
             UNCHANGED <<unacked, printed>>
      PROVE  Accounted(m)'
  BY <1>0 DEF Accounted
<1>1. CASE Publisher
  BY <1>0, <1>1 DEF Publisher, PublishToRabbitMQ, ConnectionBreaks, ChannelCloses, RestartPublisher
<1>2. ASSUME NEW n \in Messages, Route(n) \/ Expire(n) PROVE Accounted(m)'
  BY <1>t, <1>0, <1>2 DEF Route, Expire, publisherVars
<1>3. CASE BrokerRestarts
  BY <1>t, <1>3, RequeueEffect DEF BrokerRestarts, Accounted
<1>4. ASSUME NEW s \in Subscribers, Subscriber(s) PROVE Accounted(m)'
  <2>1. CASE Declare(s) \/ Bind(s) \/ Consume(s)
    BY <1>0, <2>1 DEF Declare, Bind, Consume, publisherVars
  <2>2. ASSUME NEW n \in Messages, Deliver(s, n) PROVE Accounted(m)'
    <3>1. /\ \A k \in queue : k # n => k \in queue'
          /\ n \in unacked'[s] /\ unacked[s] = {}
          /\ \A d \in Subscribers \ {s} : unacked'[d] = unacked[d]
          /\ UNCHANGED <<wire, expired, lost, printed>>
      BY <1>t, <2>2 DEF Deliver, TypeOK, publisherVars
    <3> QED
      BY <3>1 DEF Accounted
  <2>3. ASSUME NEW n \in Messages, Receive(s, n) PROVE Accounted(m)'
    <3>1. printed[m] > 0 => printed'[m] > 0
      BY <1>t, <2>3 DEF Receive, TypeOK
    <3> QED
      BY <2>3, <3>1 DEF Receive, Accounted, publisherVars
  <2>4. CASE Ack(s)
    <3>1. /\ \A d \in Subscribers \ {s} : unacked'[d] = unacked[d]
          /\ unacked[s] \subseteq unacked'[s] \cup printing[s]
      BY <1>t, <2>4 DEF Ack, TypeOK
    <3>2. m \in printing[s] => printed[m] > 0
      BY <1>t DEF Consumer
    <3> QED
      BY <2>4, <3>1, <3>2 DEF Ack, Accounted, publisherVars
  <2>5. CASE DeliveriesEnd(s) \/ Leave(s)
    BY <1>t, <2>5, RequeueEffect DEF DeliveriesEnd, Leave, Accounted, publisherVars
  <2> QED
    BY <1>4, <2>1, <2>2, <2>3, <2>4, <2>5 DEF Subscriber, Signal, Crash
<1>5. CASE UNCHANGED vars
  BY <1>0, <1>5 DEF vars, publisherVars
<1> QED
  BY <1>1, <1>2, <1>3, <1>4, <1>5 DEF Next, Broker

(* AccountInv is inductive.                                                *)
LEMMA NextAccount == AccountInv /\ [Next]_vars => AccountInv'
<1> SUFFICES ASSUME AccountInv, [Next]_vars PROVE AccountInv'
  OBVIOUS
<1>t. PlaceInv /\ PlaceInv' /\ TypeOK
  BY NextPlace DEF AccountInv, PlaceInv
<1>1. ASSUME NEW s \in Subscribers, Bind(s) PROVE AccountInv'
  <2>1. topology' = "bound"
    BY <1>1 DEF Bind
  <2>2. CASE topology = "bound"
    <3>1. UNCHANGED <<sent, sentBefore, wire, queue, expired, lost, unacked, printed>>
      BY <1>1, <2>2 DEF Bind, publisherVars
    <3> QED
      BY <1>t, <2>1, <3>1 DEF AccountInv, Accounted
  <2>3. CASE topology # "bound"
    <3>1. sent' \ sentBefore' = {}
      BY <1>1, <2>3 DEF Bind, publisherVars
    <3> QED
      BY <1>t, <2>1, <3>1 DEF AccountInv
  <2> QED
    BY <2>2, <2>3
<1>2. ASSUME NEW n \in Messages, PublishToRabbitMQ(n) PROVE AccountInv'
  <2>1. n \in wire' \cup lost' /\ sent' = sent \cup {n} /\ UNCHANGED <<topology, sentBefore>>
    BY <1>2 DEF PublishToRabbitMQ
  <2>2. \A m \in sent \ sentBefore : Accounted(m)'
    BY <1>t, AccountKept DEF AccountInv
  <2>3. Accounted(n)'
    BY <2>1 DEF Accounted
  <2> QED
    BY <1>t, <2>1, <2>2, <2>3 DEF AccountInv
<1>3. ASSUME UNCHANGED <<sent, sentBefore>>, topology' = "bound" => topology = "bound" \/ sentBefore = Messages,
             topology = "bound" => topology' = "bound"
      PROVE  AccountInv'
  <2>1. \A m \in sent \ sentBefore : Accounted(m)'
    BY <1>t, AccountKept DEF AccountInv
  <2> QED
    BY <1>t, <1>3, <2>1 DEF AccountInv
<1>4. CASE UNCHANGED vars
  BY <1>3, <1>4 DEF vars, publisherVars
<1>5. CASE ConnectionBreaks \/ ChannelCloses \/ RestartPublisher \/ Broker
  BY <1>3, <1>5 DEF ConnectionBreaks, ChannelCloses, RestartPublisher, Broker, BrokerRestarts,
                    Route, Expire, publisherVars
<1>6. ASSUME NEW s \in Subscribers, Subscriber(s), ~Bind(s) PROVE AccountInv'
  BY <1>3, <1>6 DEF Subscriber, Declare, Consume, Deliver, Receive, Ack, DeliveriesEnd,
                    Signal, Crash, Leave, publisherVars
<1> QED
  BY <1>1, <1>2, <1>4, <1>5, <1>6 DEF Next, Publisher

(* What is sent after a queue is bound is printed, expires, or was on a    *)
(* connection that broke: nothing else takes a message away.               *)
THEOREM NoVanishing == Spec => []MessageAccounted
<1>1. AccountInv => MessageAccounted
  BY DEF AccountInv, Accounted, MessageAccounted
<1> QED
  BY <1>1, InitAccount, NextAccount, PTL DEF Spec

-----------------------------------------------------------------------------
(* Repeats                                                                 *)

(* What may still print m: each subscriber that has it in its inbox, and   *)
(* one delivery if it is in the queue or has yet to get there.             *)
Holders(m) == {s \in Subscribers : m \in inbox[s]}

Pending(m) == IF m \in sent \ (wire \cup queue) THEN 0 ELSE 1

RepeatInv ==
  /\ PlaceInv
  /\ \A m \in Messages : printed[m] + Cardinality(Holders(m)) + Pending(m) <= 1 + faults

(* There are finitely many of them.                                        *)
LEMMA HoldersFinite ==
  ASSUME NEW m
  PROVE  IsFiniteSet(Holders(m)) /\ Cardinality(Holders(m)) \in Nat
<1>1. Holders(m) \subseteq Subscribers
  BY DEF Holders
<1>2. IsFiniteSet(Holders(m))
  BY <1>1, FS_Subset, DeliveryAssumption
<1> QED
  BY <1>2, FS_CardinalityType

(* One subscriber more or less.                                            *)
LEMMA HoldersChange ==
  ASSUME NEW m, NEW s \in Subscribers,
         \A d \in Subscribers \ {s} : inbox'[d] = inbox[d]
  PROVE  /\ m \in inbox'[s] /\ m \notin inbox[s] =>
              Cardinality(Holders(m)') = Cardinality(Holders(m)) + 1
         /\ m \notin inbox'[s] /\ m \in inbox[s] =>
              Cardinality(Holders(m)') = Cardinality(Holders(m)) - 1
         /\ (m \in inbox'[s] <=> m \in inbox[s]) => Holders(m)' = Holders(m)
<1>1. IsFiniteSet(Holders(m))
  BY HoldersFinite
<1>2. ASSUME m \in inbox'[s], m \notin inbox[s]
      PROVE  Cardinality(Holders(m)') = Cardinality(Holders(m)) + 1
  <2>1. Holders(m)' = Holders(m) \cup {s} /\ s \notin Holders(m)
    BY <1>2 DEF Holders
  <2> QED
    BY <1>1, <2>1, FS_AddElement
<1>3. ASSUME m \notin inbox'[s], m \in inbox[s]
      PROVE  Cardinality(Holders(m)') = Cardinality(Holders(m)) - 1
  <2>1. Holders(m)' = Holders(m) \ {s} /\ s \in Holders(m)
    BY <1>3 DEF Holders
  <2> QED
    BY <1>1, <2>1, FS_RemoveElement
<1>4. ASSUME m \in inbox'[s] <=> m \in inbox[s] PROVE Holders(m)' = Holders(m)
  BY <1>4 DEF Holders
<1> QED
  BY <1>2, <1>3, <1>4

(* At the start every message is still to be delivered once.               *)
LEMMA InitRepeat == Init => RepeatInv
<1> SUFFICES ASSUME Init PROVE RepeatInv
  OBVIOUS
<1>1. PlaceInv
  BY InitPlace
<1>2. ASSUME NEW m \in Messages
      PROVE  printed[m] + Cardinality(Holders(m)) + Pending(m) <= 1 + faults
  <2>1. Holders(m) = {}
    BY DEF Init, Holders
  <2>2. Cardinality(Holders(m)) = 0
    BY <2>1, FS_EmptySet
  <2> QED
    BY <2>2 DEF Init, Pending
<1> QED
  BY <1>1, <1>2 DEF RepeatInv

(* A fault may repeat each message once: what a broken connection or a     *)
(* crash gives back to the queue was with one subscriber only.             *)
LEMMA NextRepeat == RepeatInv /\ [Next]_vars => RepeatInv'
<1> SUFFICES ASSUME RepeatInv, [Next]_vars PROVE RepeatInv'
  OBVIOUS
<1>t. PlaceInv /\ PlaceInv' /\ TypeOK /\ Placed /\ \A s \in Subscribers : Consumer(s)
  BY NextPlace DEF RepeatInv, PlaceInv
<1>q. SUFFICES ASSUME NEW m \in Messages
               PROVE  (printed[m] + Cardinality(Holders(m)) + Pending(m) <= 1 + faults)'
  BY <1>t DEF RepeatInv
<1> DEFINE h == Cardinality(Holders(m))
<1>m. printed[m] + h + Pending(m) <= 1 + faults
  BY DEF RepeatInv
<1>n. printed[m] \in Nat /\ h \in Nat /\ Pending(m) \in {0, 1} /\ Pending(m)' \in {0, 1} /\ faults \in Nat
  BY <1>t, HoldersFinite DEF TypeOK, Pending
<1> HIDE DEF h
<1>0. ASSUME h' = h, printed' = printed,
             (Pending(m)' <= Pending(m) /\ faults' = faults) \/ faults' = faults + 1
      PROVE  (printed[m] + h + Pending(m) <= 1 + faults)'
  BY <1>m, <1>n, <1>0
<1>i. ASSUME UNCHANGED inbox PROVE h' = h
  BY <1>i DEF h, Holders
<1>1. CASE Publisher \/ (\E n \in Messages : Route(n) \/ Expire(n))
  <2>1. Pending(m)' <= Pending(m)
    BY <1>t, <1>1 DEF Publisher, PublishToRabbitMQ, ConnectionBreaks, ChannelCloses,
                      RestartPublisher, Route, Expire, First, Pending, Placed, publisherVars
  <2>2. faults' = faults \/ faults' = faults + 1
    BY <1>t, <1>1, FaultType
       DEF Publisher, PublishToRabbitMQ, ConnectionBreaks, ChannelCloses,
           RestartPublisher, Route, Expire, TypeOK
  <2>3. UNCHANGED <<inbox, printed>>
    BY <1>1 DEF Publisher, PublishToRabbitMQ, ConnectionBreaks, ChannelCloses,
                RestartPublisher, Route, Expire
  <2> QED
    BY <1>0, <1>i, <2>1, <2>2, <2>3 DEF h
<1>2. CASE BrokerRestarts
  BY <1>t, <1>0, <1>i, <1>2, FaultType DEF BrokerRestarts, TypeOK, h
<1>3. ASSUME NEW s \in Subscribers, Subscriber(s)
      PROVE  (printed[m] + Cardinality(Holders(m)) + Pending(m) <= 1 + faults)'
  <2>1. CASE Declare(s) \/ Bind(s) \/ Consume(s) \/ Ack(s)
    <3>1. UNCHANGED <<inbox, printed, faults, sent, wire, queue>>
      BY <2>1 DEF Declare, Bind, Consume, Ack, publisherVars
    <3>2. Pending(m)' = Pending(m)
      BY <3>1 DEF Pending
    <3> QED
      BY <1>n, <1>0, <1>i, <3>1, <3>2 DEF h
  <2>2. ASSUME NEW n \in Messages, Deliver(s, n)
        PROVE  (printed[m] + Cardinality(Holders(m)) + Pending(m) <= 1 + faults)'
    <3>1. /\ inbox[s] = {} /\ inbox'[s] = {n}
          /\ \A d \in Subscribers \ {s} : inbox'[d] = inbox[d]
          /\ UNCHANGED <<printed, faults>>
      BY <1>t, <2>2 DEF Deliver, Consumer, TypeOK
    <3>2. CASE m = n
      <4>1. h' = h + 1
        BY <3>1, <3>2, HoldersChange DEF h
      <4>2. Pending(m) = 1 /\ Pending(m)' = 0
        BY <1>t, <2>2, <3>2 DEF Deliver, First, Pending, Placed, publisherVars
      <4> QED
        BY <1>m, <1>n, <3>1, <4>1, <4>2 DEF h
    <3>3. CASE m # n
      <4>1. h' = h
        BY <3>1, <3>3, HoldersChange DEF h
      <4>2. Pending(m)' = Pending(m)
        BY <2>2, <3>3 DEF Deliver, Pending, publisherVars
      <4> QED
        BY <1>n, <1>0, <3>1, <4>1, <4>2 DEF h
    <3> QED
      BY <3>2, <3>3
  <2>3. ASSUME NEW n \in Messages, Receive(s, n)
        PROVE  (printed[m] + Cardinality(Holders(m)) + Pending(m) <= 1 + faults)'
    <3>1. /\ n \in inbox[s] /\ inbox'[s] = inbox[s] \ {n}
          /\ \A d \in Subscribers \ {s} : inbox'[d] = inbox[d]
          /\ UNCHANGED <<sent, wire, queue, faults>>
      BY <1>t, <2>3 DEF Receive, First, TypeOK, publisherVars
    <3>2. Pending(m)' = Pending(m)
      BY <3>1 DEF Pending
    <3>3. CASE m = n
      <4>1. h' = h - 1 /\ printed'[m] = printed[m] + 1
        BY <1>t, <2>3, <3>1, <3>3, HoldersChange DEF Receive, TypeOK, h
      <4> QED
        BY <1>m, <1>n, <3>1, <3>2, <4>1 DEF h
    <3>4. CASE m # n
      <4>1. h' = h /\ printed'[m] = printed[m]
        BY <1>t, <2>3, <3>1, <3>4, HoldersChange DEF Receive, TypeOK, h
      <4> QED
        BY <1>m, <1>n, <3>1, <3>2, <4>1 DEF h
    <3> QED
      BY <3>3, <3>4
  <2>4. CASE DeliveriesEnd(s)
    BY <1>t, <1>0, <1>i, <2>4, FaultType DEF DeliveriesEnd, TypeOK, h
  <2>5. ASSUME Leave(s), faults' = faults + 1 \/ (faults' = faults /\ printing[s] = {})
        PROVE  (printed[m] + Cardinality(Holders(m)) + Pending(m) <= 1 + faults)'
    <3>1. /\ inbox'[s] = {} /\ \A d \in Subscribers \ {s} : inbox'[d] = inbox[d]
          /\ UNCHANGED <<sent, wire, printed>>
          /\ \A n \in Messages : n \in queue' <=> n \in queue \/ n \in unacked[s]
      BY <1>t, <2>5, RequeueEffect DEF Leave, TypeOK, publisherVars
    <3>2. CASE m \in inbox[s]
      <4>1. h' = h - 1
        BY <3>1, <3>2, HoldersChange DEF h
      <4> QED
        BY <1>m, <1>n, <2>5, <3>1, <4>1 DEF h
    <3>3. CASE m \notin inbox[s]
      <4>1. h' = h
        BY <3>1, <3>3, HoldersChange DEF h
      <4>2. printing[s] = {} => Pending(m)' = Pending(m)
        BY <1>t, <3>1, <3>3 DEF Consumer, Pending
      <4> QED
        BY <1>0, <1>n, <2>5, <3>1, <4>1, <4>2 DEF h
    <3> QED
      BY <3>2, <3>3
  <2> QED
    BY <1>t, <1>3, <2>1, <2>2, <2>3, <2>4, <2>5, FaultType DEF Subscriber, Signal, Crash, TypeOK
<1>4. CASE UNCHANGED vars
  <2>1. UNCHANGED <<inbox, printed, faults, sent, wire, queue>>
    BY <1>4 DEF vars, publisherVars
  <2>2. Pending(m)' = Pending(m)
    BY <2>1 DEF Pending
  <2> QED
    BY <1>n, <1>0, <1>i, <2>1, <2>2 DEF h
<1> QED
  BY <1>1, <1>2, <1>3, <1>4 DEF Next, Broker

(* No message is printed more often than once and once more for each       *)
(* fault: neither an orderly stop of a subscriber nor competition between  *)
(* subscribers repeats anything.                                           *)
THEOREM Repeats == Spec => []RepeatsAccounted
<1>1. ASSUME RepeatInv PROVE RepeatsAccounted
  <2>1. ASSUME NEW m \in Messages PROVE printed[m] <= 1 + faults
    <3>1. printed[m] \in Nat /\ faults \in Nat /\ Pending(m) \in {0, 1}
      BY <1>1 DEF RepeatInv, PlaceInv, TypeOK, Pending
    <3> QED
      BY <1>1, <3>1, HoldersFinite DEF RepeatInv
  <2> QED
    BY <2>1 DEF RepeatsAccounted
<1> QED
  BY <1>1, InitRepeat, NextRepeat, PTL DEF Spec

=============================================================================
