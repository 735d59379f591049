--------------------------- MODULE RabbitDelivery ---------------------------
(***************************************************************************)
(* From PublishToRabbitMQ over the broker to the consumers of              *)
(* cmd/subscriber: one publishing channel without confirms, the exchange   *)
(* "events" with the durable queue that the subscribers declare and bind,  *)
(* and subscribers that take one message at a time, print it and           *)
(* acknowledge it by hand.                                                 *)
(*                                                                         *)
(* Messages are numbered in the order they are published.  The queue keeps *)
(* that order, also for a message it takes back from a lost consumer, so a *)
(* set of numbers stands for it.                                           *)
(***************************************************************************)
EXTENDS Naturals, FiniteSets

CONSTANTS
  Subscribers,   \* running copies of cmd/subscriber
  MaxMessages,   \* bound: messages published
  Expires,       \* TRUE if MessageTTLMs > 0
  MaxFaults      \* bound: faults in a behaviour

ASSUME DeliveryAssumption ==
  /\ IsFiniteSet(Subscribers)
  /\ {MaxMessages, MaxFaults} \subseteq Nat
  /\ Expires \in BOOLEAN

VARIABLES
  sent,       \* messages for which PublishToRabbitMQ returned nil
  channel,    \* the publisher's channel: open, broken (not noticed), closed
  wire,       \* messages written to the channel and not yet handled
  topology,   \* what the subscribers have declared: none, queue, bound
  sentBefore, \* messages sent before the queue was first bound
  queue,      \* messages ready in the queue
  unacked,    \* [Subscribers -> SUBSET Messages]: delivered, not acknowledged
  phase,      \* [Subscribers -> Phases]: where main of a subscriber stands
  inbox,      \* messages in the Go channel msgs of a subscriber
  printing,   \* the message a subscriber has printed and not acknowledged yet
  printed,    \* [Messages -> Nat]: how often a message was printed
  expired,    \* messages dropped because their expiration was over
  lost,       \* messages that were on the wire when the connection broke
  faults      \* faults so far

publisherVars == <<sent, channel, wire>>
vars == <<publisherVars, topology, sentBefore, queue, unacked, phase, inbox,
          printing, printed, expired, lost, faults>>

-----------------------------------------------------------------------------
(* Types and helpers                                                       *)

Messages == 1..MaxMessages

(* Spinning: the connection is gone, the Go channel of deliveries closed,  *)
(* and the select of main receives zero values without end; it prints each *)
(* and its Ack returns an error, which changes nothing.                    *)
Phases == {"down", "declared", "bound", "consuming", "spinning"}

First(S, m) == m \in S /\ \A n \in S : m <= n

Fault == faults < MaxFaults /\ faults' = faults + 1

(* The broker takes back what a consumer has not acknowledged.             *)
Requeue(S) ==
  /\ queue' = queue \cup UNION {unacked[s] : s \in S}
  /\ unacked' = [s \in Subscribers |-> IF s \in S THEN {} ELSE unacked[s]]

-----------------------------------------------------------------------------
(* RabbitMQPublisher                                                       *)

(* Publish writes a frame and returns nil, even into a broken connection.  *)
PublishToRabbitMQ(m) ==
  /\ channel # "closed"
  /\ First(Messages \ sent, m)
  /\ sent' = sent \cup {m}
  /\ IF channel = "open" THEN wire' = wire \cup {m} /\ UNCHANGED lost
                         ELSE lost' = lost \cup {m} /\ UNCHANGED wire
  /\ UNCHANGED <<channel, topology, sentBefore, queue, unacked, phase, inbox,
                 printing, printed, expired, faults>>

(* The publisher's connection is lost with everything on it.               *)
ConnectionBreaks ==
  /\ channel = "open"
  /\ Fault
  /\ channel' = "broken"
  /\ lost' = lost \cup wire
  /\ wire' = {}
  /\ UNCHANGED <<sent, topology, sentBefore, queue, unacked, phase, inbox,
                 printing, printed, expired>>

(* The client library notices; nothing opens another channel before main   *)
(* is started again.                                                       *)
ChannelCloses ==
  /\ channel = "broken"
  /\ channel' = "closed"
  /\ UNCHANGED <<sent, wire, topology, sentBefore, queue, unacked, phase, inbox,
                 printing, printed, expired, lost, faults>>

RestartPublisher ==
  /\ channel = "closed"
  /\ channel' = "open"
  /\ UNCHANGED <<sent, wire, topology, sentBefore, queue, unacked, phase, inbox,
                 printing, printed, expired, lost, faults>>

-----------------------------------------------------------------------------
(* The broker                                                              *)

(* The exchange hands the message to the bound queue.  mandatory is false: *)
(* without a queue the message is dropped and nobody is told.              *)
Route(m) ==
  /\ First(wire, m)
  /\ wire' = wire \ {m}
  /\ queue' = IF topology = "bound" THEN queue \cup {m} ELSE queue
  /\ UNCHANGED <<sent, channel, topology, sentBefore, unacked, phase, inbox,
                 printing, printed, expired, lost, faults>>

(* Expiration is noticed at the head of the queue.                         *)
Expire(m) ==
  /\ Expires
  /\ First(queue, m)
  /\ queue' = queue \ {m}
  /\ expired' = expired \cup {m}
  /\ UNCHANGED <<publisherVars, topology, sentBefore, unacked, phase, inbox,
                 printing, printed, lost, faults>>

(* Mutant: no Qos, so the broker pushes whatever it has.                   *)
Deliver_NoQos(s, m) ==
  /\ phase[s] = "consuming"
  /\ First(queue, m)
  /\ queue' = queue \ {m}
  /\ unacked' = [unacked EXCEPT ![s] = @ \cup {m}]
  /\ inbox' = [inbox EXCEPT ![s] = @ \cup {m}]
  /\ UNCHANGED <<publisherVars, topology, sentBefore, phase, printing, printed,
                 expired, lost, faults>>

(* Qos(1): the next message comes when the last one is acknowledged.       *)
Deliver(s, m) ==
  /\ phase[s] = "consuming" /\ unacked[s] = {}
  /\ First(queue, m)
  /\ queue' = queue \ {m}
  /\ unacked' = [unacked EXCEPT ![s] = {m}]
  /\ inbox' = [inbox EXCEPT ![s] = {m}]
  /\ UNCHANGED <<publisherVars, topology, sentBefore, phase, printing, printed,
                 expired, lost, faults>>

(* Mutant: messages are not persistent.                                    *)
BrokerRestarts_Transient ==
  /\ Fault
  /\ queue' = {}
  /\ unacked' = [s \in Subscribers |-> {}]
  /\ phase' = [s \in Subscribers |->
                 CASE phase[s] = "consuming" -> "spinning"
                   [] phase[s] \in {"declared", "bound"} -> "down"
                   [] OTHER -> phase[s]]
  /\ channel' = IF channel = "open" THEN "broken" ELSE channel
  /\ lost' = lost \cup wire
  /\ wire' = {}
  /\ UNCHANGED <<sent, topology, sentBefore, inbox, printing, printed, expired>>

(* The broker stops and starts: every connection is lost.  The durable     *)
(* queue keeps its binding and its persistent messages.                    *)
BrokerRestarts ==
  /\ Fault
  /\ Requeue(Subscribers)
  /\ phase' = [s \in Subscribers |->
                 CASE phase[s] = "consuming" -> "spinning"
                   [] phase[s] \in {"declared", "bound"} -> "down"
                   [] OTHER -> phase[s]]
  /\ channel' = IF channel = "open" THEN "broken" ELSE channel
  /\ lost' = lost \cup wire
  /\ wire' = {}
  /\ UNCHANGED <<sent, topology, sentBefore, inbox, printing, printed, expired>>

-----------------------------------------------------------------------------
(* The subscriber                                                          *)

(* Dial, Channel, ExchangeDeclare and QueueDeclare of a durable queue.     *)
Declare(s) ==
  /\ phase[s] = "down"
  /\ phase' = [phase EXCEPT ![s] = "declared"]
  /\ topology' = IF topology = "none" THEN "queue" ELSE topology
  /\ UNCHANGED <<publisherVars, sentBefore, queue, unacked, inbox, printing,
                 printed, expired, lost, faults>>

(* QueueBind with the pattern "#", which every routing key matches.        *)
Bind(s) ==
  /\ phase[s] = "declared"
  /\ phase' = [phase EXCEPT ![s] = "bound"]
  /\ topology' = "bound"
  /\ sentBefore' = IF topology = "bound" THEN sentBefore ELSE sent
  /\ UNCHANGED <<publisherVars, queue, unacked, inbox, printing, printed,
                 expired, lost, faults>>

(* Qos and Consume; main enters its loop.                                  *)
Consume(s) ==
  /\ phase[s] = "bound"
  /\ phase' = [phase EXCEPT ![s] = "consuming"]
  /\ UNCHANGED <<publisherVars, topology, sentBefore, queue, unacked, inbox,
                 printing, printed, expired, lost, faults>>

(* case msg := <-msgs: what is left in the Go channel is received also     *)
(* after the connection is gone.                                           *)
Receive(s, m) ==
  /\ phase[s] \in {"consuming", "spinning"}
  /\ First(inbox[s], m) /\ printing[s] = {}
  /\ inbox' = [inbox EXCEPT ![s] = @ \ {m}]
  /\ printing' = [printing EXCEPT ![s] = {m}]
  /\ printed' = [printed EXCEPT ![m] = @ + 1]
  /\ UNCHANGED <<publisherVars, topology, sentBefore, queue, unacked, phase,
                 expired, lost, faults>>

(* Mutant: the acknowledgement is forgotten.                               *)
Ack_Forgotten(s) ==
  /\ printing[s] # {}
  /\ printing' = [printing EXCEPT ![s] = {}]
  /\ UNCHANGED <<publisherVars, topology, sentBefore, queue, unacked, phase,
                 inbox, printed, expired, lost, faults>>

(* Mutant: Nack with requeue in place of Ack.                              *)
Ack_Requeues(s) ==
  /\ printing[s] # {}
  /\ printing' = [printing EXCEPT ![s] = {}]
  /\ Requeue({s})
  /\ UNCHANGED <<publisherVars, topology, sentBefore, phase, inbox, printed,
                 expired, lost, faults>>

(* msg.Ack(false); without a connection it returns an error, which is only *)
(* logged.                                                                 *)
Ack(s) ==
  /\ printing[s] # {}
  /\ printing' = [printing EXCEPT ![s] = {}]
  /\ unacked' = IF phase[s] = "consuming"
                THEN [unacked EXCEPT ![s] = @ \ printing[s]] ELSE unacked
  /\ UNCHANGED <<publisherVars, topology, sentBefore, queue, phase, inbox,
                 printed, expired, lost, faults>>

(* The connection of a consumer is lost: the deliveries end.               *)
DeliveriesEnd(s) ==
  /\ phase[s] = "consuming"
  /\ Fault
  /\ phase' = [phase EXCEPT ![s] = "spinning"]
  /\ Requeue({s})
  /\ UNCHANGED <<publisherVars, topology, sentBefore, inbox, printing, printed,
                 expired, lost>>

(* The process ends; the broker sees its connection go.                    *)
Leave(s) ==
  /\ phase' = [phase EXCEPT ![s] = "down"]
  /\ inbox' = [inbox EXCEPT ![s] = {}]
  /\ printing' = [printing EXCEPT ![s] = {}]
  /\ Requeue({s})
  /\ UNCHANGED <<publisherVars, topology, sentBefore, printed, expired, lost>>

(* A signal: the select takes it between two messages.  Before the loop it *)
(* ends the process just the same, as does log.Fatalf.                     *)
Signal(s) ==
  /\ phase[s] # "down" /\ printing[s] = {}
  /\ Leave(s)
  /\ UNCHANGED faults

Crash(s) ==
  /\ printing[s] # {}
  /\ Leave(s)
  /\ Fault

-----------------------------------------------------------------------------

Init ==
  /\ sent = {} /\ channel = "open" /\ wire = {}
  /\ topology = "none" /\ sentBefore = Messages
  /\ queue = {}
  /\ unacked = [s \in Subscribers |-> {}]
  /\ phase = [s \in Subscribers |-> "down"]
  /\ inbox = [s \in Subscribers |-> {}]
  /\ printing = [s \in Subscribers |-> {}]
  /\ printed = [m \in Messages |-> 0]
  /\ expired = {} /\ lost = {}
  /\ faults = 0

Publisher ==
  \/ \E m \in Messages : PublishToRabbitMQ(m)
  \/ ConnectionBreaks \/ ChannelCloses \/ RestartPublisher

Broker == BrokerRestarts \/ \E m \in Messages : Route(m) \/ Expire(m)

Subscriber(s) ==
  \/ Declare(s) \/ Bind(s) \/ Consume(s)
  \/ \E m \in Messages : Deliver(s, m) \/ Receive(s, m)
  \/ Ack(s) \/ DeliveriesEnd(s) \/ Signal(s) \/ Crash(s)

Next == Publisher \/ Broker \/ \E s \in Subscribers : Subscriber(s)

Spec == Init /\ [][Next]_vars

(* Fairness.  The broker routes and delivers, and main of a subscriber     *)
(* goes on, also between its start and its loop.  Nobody is obliged to     *)
(* publish, or to start a subscriber.                                      *)
FairSpec ==
  /\ Spec
  /\ WF_vars(\E m \in Messages : Route(m))
  /\ \A s \in Subscribers :
       /\ WF_vars(Bind(s)) /\ WF_vars(Consume(s))
       /\ WF_vars(\E m \in Messages : Deliver(s, m))
       /\ WF_vars(\E m \in Messages : Receive(s, m))
       /\ WF_vars(Ack(s))

-----------------------------------------------------------------------------
(* Properties                                                              *)

(* Every variable has its type.                                            *)
TypeOK ==
  /\ sent \subseteq Messages /\ wire \subseteq Messages /\ sentBefore \subseteq Messages
  /\ queue \subseteq Messages /\ expired \subseteq Messages /\ lost \subseteq Messages
  /\ channel \in {"open", "broken", "closed"}
  /\ topology \in {"none", "queue", "bound"}
  /\ phase \in [Subscribers -> Phases]
  /\ unacked \in [Subscribers -> SUBSET Messages]
  /\ inbox \in [Subscribers -> SUBSET Messages]
  /\ printing \in [Subscribers -> SUBSET Messages]
  /\ printed \in [Messages -> Nat]
  /\ faults \in 0..MaxFaults

(* Once a subscriber has bound its queue, no message vanishes: whatever    *)
(* the publisher counts as sent from then on is still on its way, was      *)
(* printed by somebody, outlived its expiration, or was on a connection    *)
(* that broke.  Subscribers and the broker may stop and start meanwhile.   *)
MessageAccounted ==
  \A m \in sent \ sentBefore :
    \/ m \in wire \cup queue \cup expired \cup lost
    \/ \E s \in Subscribers : m \in unacked[s]
    \/ printed[m] > 0

(* Each message is in one place only: two subscribers are never working on *)
(* the same delivery, and none has more than the one that Qos(1) allows.   *)
OneHolder ==
  \A s \in Subscribers : \A m \in unacked[s] :
    /\ unacked[s] = {m}
    /\ m \notin queue \cup wire
    /\ \A d \in Subscribers \ {s} : m \notin unacked[d]

(* A message is printed once, and once more for each fault between the     *)
(* delivery and the acknowledgement.  An orderly stop repeats nothing.     *)
RepeatsAccounted == \A m \in Messages : printed[m] <= 1 + faults

(* If in the end the same subscribers, one at least, go on consuming, then *)
(* every message in the queue is printed unless it expires.  One that      *)
(* spins after the loss of its connection takes no message any more.       *)
QueuedIsPrinted ==
  \A S \in (SUBSET Subscribers) \ {{}}, m \in Messages :
    <>[]({s \in Subscribers : phase[s] = "consuming"} = S)
      => (m \in queue ~> printed[m] > 0 \/ m \in expired)

=============================================================================
