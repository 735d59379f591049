------------------------ MODULE KafkaPublisherProofs ------------------------
(***************************************************************************)
(* Theorems of KafkaPublisher for any number of calls and faults.          *)
(***************************************************************************)
EXTENDS KafkaPublisher, TLAPS

-----------------------------------------------------------------------------
(* Helpers                                                                 *)

(* A fault stays within the bound.                                         *)
LEMMA FaultType == ASSUME faults \in 0..MaxFaults, Fault PROVE faults' \in 0..MaxFaults
<1>1. MaxFaults \in Nat
  BY KafkaAssumption
<1> QED
  BY <1>1 DEF Fault

(* A delivery report is made at most once, for the call whose message it   *)
(* is about.                                                               *)
LEMMA ReportsEffect ==
  ASSUME NEW c \in Calls, NEW ok \in BOOLEAN, Reports(c, ok)
  PROVE  \/ UNCHANGED <<reported, reports>>
         \/ /\ c \notin reported
            /\ reported' = reported \cup {c}
            /\ reports' = reports \cup {[call |-> c, ok |-> ok]}
BY DEF Reports

(* What is reported is a report.                                           *)
LEMMA ReportsType ==
  ASSUME reported \subseteq Calls, reports \subseteq Report,
         NEW c \in Calls, NEW ok \in BOOLEAN, Reports(c, ok)
  PROVE  reported' \subseteq Calls /\ reports' \subseteq Report
<1>1. [call |-> c, ok |-> ok] \in Report
  BY DEF Report
<1> QED
  BY <1>1, ReportsEffect

-----------------------------------------------------------------------------
(* Type correctness                                                        *)

(* The initial state is well typed.                                        *)
LEMMA InitType == Init => TypeOK
<1>1. {MaxCalls, MaxFaults} \subseteq Nat
  BY KafkaAssumption
<1> QED
  BY <1>1 DEF Init, TypeOK, Answers

(* Every action keeps the types.                                           *)
LEMMA NextType == TypeOK /\ [Next]_vars => TypeOK'
<1> SUFFICES ASSUME TypeOK, [Next]_vars PROVE TypeOK'
  OBVIOUS
<1>0. CASE UNCHANGED vars
  BY <1>0 DEF TypeOK, vars
<1>1. ASSUME NEW c \in Calls, PublishToKafka(c) PROVE TypeOK'
  <2>1. CASE Enter(c)
    BY <2>1 DEF TypeOK, Enter, Answers
  <2>2. CASE Produce(c)
    BY <2>2 DEF TypeOK, Produce, Answers
  <2>3. CASE ProduceFails(c)
    BY <2>3, FaultType DEF TypeOK, ProduceFails, Answers
  <2>4. CASE ReceiveReport(c)
    BY <2>4 DEF TypeOK, ReceiveReport, Answers
  <2>5. CASE GiveUp(c)
    BY <2>5 DEF TypeOK, GiveUp, Answers
  <2> QED
    BY <1>1, <2>1, <2>2, <2>3, <2>4, <2>5 DEF PublishToKafka
<1>2. CASE Producer
  <2>1. CASE Poll
    BY <2>1 DEF TypeOK, Poll
  <2>2. ASSUME NEW c \in Calls, Transmit(c) PROVE TypeOK'
    BY <2>2 DEF TypeOK, Transmit
  <2>3. ASSUME NEW c \in Calls, Append(c) PROVE TypeOK'
    <3>1. reported' \subseteq Calls /\ reports' \subseteq Report
      BY <2>3, ReportsType DEF TypeOK, Append
    <3> QED
      BY <2>3, <3>1 DEF TypeOK, Append
  <2>4. ASSUME NEW c \in Calls, DeliveryFails(c) PROVE TypeOK'
    <3>1. reported' \subseteq Calls /\ reports' \subseteq Report
      BY <2>4, ReportsType DEF TypeOK, DeliveryFails
    <3>2. wire' \subseteq Calls /\ buffer' \subseteq Calls
      BY <2>4 DEF TypeOK, DeliveryFails
    <3> QED
      BY <2>4, <3>1, <3>2, FaultType DEF TypeOK, DeliveryFails
  <2> QED
    BY <1>2, <2>1, <2>2, <2>3, <2>4 DEF Producer
<1>3. CASE Shutdown
  <2>1. CASE ContextDone
    BY <2>1 DEF TypeOK, ContextDone
  <2>2. CASE Flush
    BY <2>2 DEF TypeOK, Flush
  <2>3. CASE Close
    BY <2>3 DEF TypeOK, Close
  <2>4. CASE Restart
    BY <2>4, FaultType DEF TypeOK, Restart, Answers
  <2>5. CASE FlushPolls
    BY <2>5 DEF TypeOK, FlushPolls
  <2> QED
    BY <1>3, <2>1, <2>2, <2>3, <2>4, <2>5 DEF Shutdown
<1> QED
  BY <1>0, <1>1, <1>2, <1>3 DEF Next

(* Every reachable state of the publisher is well typed: in particular a   *)
(* report always belongs to one of the calls of the loop.                  *)
THEOREM TypeCorrect == Spec => []TypeOK
<1> QED
  BY InitType, NextType, PTL DEF Spec

-----------------------------------------------------------------------------
(* One call at a time, one report for each                                 *)

(* The loop makes its calls one after the other.                           *)
InOrder ==
  \A c, d \in Calls : d < c /\ answer[c] # "none" => answer[d] \in {"nil", "error"}

(* Only a call that produced a message has one, or a report of one.        *)
Produced(c) == answer[c] \notin {"none", "entered"}

MessagesProduced == \A c \in buffer \cup wire \cup reported : Produced(c)

(* The reports that nobody has received yet.                               *)
Outstanding == reports \cup poller \cup flusher

(* A report is remembered as made; it says TRUE only of a message in the   *)
(* log; there is one for each call, and it is in one place.                *)
ReportsTrue ==
  /\ \A r \in Outstanding : r.call \in reported /\ (r.ok => r.call \in log)
  /\ \A r, s \in Outstanding : r.call = s.call => r = s
  /\ reports \cap (poller \cup flusher) = {} /\ poller \cap flusher = {}

(* While the context lives, a call whose report is still to come, or has   *)
(* come and is not received, is waiting for it.                            *)
StillWaiting ==
  context = "live" =>
    /\ \A r \in Outstanding : answer[r.call] = "waiting"
    /\ \A c \in (buffer \cup wire) \ reported : answer[c] = "waiting"

IInv == TypeOK /\ InOrder /\ MessagesProduced /\ ReportsTrue /\ StillWaiting

(* The initial state has no call and no message.                           *)
LEMMA InitInv == Init => IInv
<1> SUFFICES ASSUME Init PROVE IInv
  OBVIOUS
<1>1. TypeOK
  BY InitType
<1> QED
  BY <1>1 DEF Init, IInv, InOrder, MessagesProduced, ReportsTrue, Outstanding, StillWaiting

(* The publishing call keeps the invariant.  ReceiveReport is the step     *)
(* that needs ReportsTrue: with its answer given, no second report of the  *)
(* same call may be left.                                                  *)
LEMMA PublishKeepsInv ==
  ASSUME IInv, TypeOK', NEW c \in Calls, PublishToKafka(c)
  PROVE  IInv'
<1>t. TypeOK /\ InOrder /\ MessagesProduced /\ ReportsTrue /\ StillWaiting
  BY DEF IInv
<1>1. CASE Enter(c)
  <2>1. InOrder'
    BY <1>t, <1>1 DEF TypeOK, InOrder, Enter, Upcoming, Calls
  <2>2. MessagesProduced' /\ ReportsTrue' /\ StillWaiting'
    BY <1>t, <1>1 DEF TypeOK, MessagesProduced, Produced, ReportsTrue, Outstanding, StillWaiting, Enter, Upcoming, Report
  <2> QED
    BY <2>1, <2>2 DEF IInv
<1>2. CASE Produce(c)
  <2>1. InOrder'
    BY <1>t, <1>2 DEF TypeOK, InOrder, Produce
  <2>2. MessagesProduced' /\ ReportsTrue'
    BY <1>t, <1>2 DEF TypeOK, MessagesProduced, Produced, ReportsTrue, Outstanding, Produce
  <2>3. StillWaiting'
    BY <1>t, <1>2 DEF TypeOK, StillWaiting, Outstanding, Produce, Report
  <2> QED
    BY <2>1, <2>2, <2>3 DEF IInv
<1>3. CASE ProduceFails(c)
  <2>1. InOrder'
    BY <1>t, <1>3 DEF TypeOK, InOrder, ProduceFails
  <2>2. MessagesProduced' /\ ReportsTrue'
    BY <1>t, <1>3 DEF TypeOK, MessagesProduced, Produced, ReportsTrue, Outstanding, ProduceFails
  <2>3. StillWaiting'
    BY <1>t, <1>3 DEF TypeOK, StillWaiting, Outstanding, ProduceFails, Report
  <2> QED
    BY <2>1, <2>2, <2>3 DEF IInv
<1>4. CASE ReceiveReport(c)
  <2>1. PICK r \in poller \cup flusher :
          /\ r.call = c
          /\ poller' = poller \ {r} /\ flusher' = flusher \ {r}
          /\ answer' = [answer EXCEPT ![c] = IF r.ok THEN "nil" ELSE "error"]
    BY <1>4 DEF ReceiveReport
  <2>2. \A s \in Outstanding' : s \in Outstanding /\ s.call # c
    BY <1>t, <1>4, <2>1 DEF ReportsTrue, Outstanding, ReceiveReport
  <2>3. InOrder'
    BY <1>t, <1>4, <2>1 DEF TypeOK, InOrder, ReceiveReport
  <2>4. MessagesProduced' /\ ReportsTrue'
    BY <1>t, <1>4, <2>1 DEF TypeOK, MessagesProduced, Produced, ReportsTrue, Outstanding, ReceiveReport
  <2>5. StillWaiting'
    BY <1>t, <1>4, <2>1, <2>2 DEF TypeOK, StillWaiting, ReportsTrue, Outstanding, ReceiveReport, Report
  <2> QED
    BY <2>3, <2>4, <2>5 DEF IInv
<1>5. CASE GiveUp(c)
  <2>1. InOrder'
    BY <1>t, <1>5 DEF TypeOK, InOrder, GiveUp
  <2>2. MessagesProduced' /\ ReportsTrue' /\ StillWaiting'
    BY <1>t, <1>5 DEF TypeOK, MessagesProduced, Produced, ReportsTrue, Outstanding, StillWaiting, GiveUp
  <2> QED
    BY <2>1, <2>2 DEF IInv
<1> QED
  BY <1>1, <1>2, <1>3, <1>4, <1>5 DEF PublishToKafka

(* The producer and the broker keep the invariant: a message is reported   *)
(* once, and TRUE only when it is appended.                                *)
LEMMA ProducerKeepsInv ==
  ASSUME IInv, TypeOK', Producer
  PROVE  IInv'
<1>t. TypeOK /\ InOrder /\ MessagesProduced /\ ReportsTrue /\ StillWaiting
  BY DEF IInv
<1>1. CASE Poll
  <2>1. PICK r \in reports : poller = {} /\ poller' = {r} /\ reports' = reports \ {r}
    BY <1>1 DEF Poll
  <2>2. /\ Outstanding' = Outstanding
        /\ reports' \cap (poller' \cup flusher') = {} /\ poller' \cap flusher' = {}
    BY <1>t, <1>1, <2>1 DEF Poll, ReportsTrue, Outstanding
  <2> QED
    BY <1>t, <1>1, <2>2 DEF IInv, InOrder, MessagesProduced, Produced, ReportsTrue, StillWaiting, Poll
<1>2. ASSUME NEW c \in Calls, Transmit(c) PROVE IInv'
  <2>1. buffer' \cup wire' = buffer \cup wire
    BY <1>2 DEF Transmit
  <2> QED
    BY <1>t, <1>2, <2>1 DEF IInv, InOrder, MessagesProduced, Produced, ReportsTrue, Outstanding, StillWaiting, Transmit
<1>3. ASSUME NEW c \in Calls, Append(c) PROVE IInv'
  <2>1. InOrder'
    BY <1>t, <1>3 DEF InOrder, Append
  <2>2. CASE UNCHANGED <<reported, reports>>
    BY <1>t, <1>3, <2>1, <2>2 DEF IInv, MessagesProduced, Produced, ReportsTrue, Outstanding, StillWaiting, Append
  <2>3. CASE /\ c \notin reported
             /\ reported' = reported \cup {c}
             /\ reports' = reports \cup {[call |-> c, ok |-> TRUE]}
    <3>1. MessagesProduced'
      BY <1>t, <1>3, <2>3 DEF MessagesProduced, Produced, Append
    <3>2. ReportsTrue'
      BY <1>t, <1>3, <2>3 DEF TypeOK, ReportsTrue, Outstanding, Append, Report
    <3>3. StillWaiting'
      BY <1>t, <1>3, <2>3 DEF StillWaiting, Outstanding, Append
    <3> QED
      BY <2>1, <3>1, <3>2, <3>3 DEF IInv
  <2> QED
    BY <1>3, <2>2, <2>3, ReportsEffect DEF Append
<1>4. ASSUME NEW c \in Calls, DeliveryFails(c) PROVE IInv'
  <2>1. InOrder'
    BY <1>t, <1>4 DEF InOrder, DeliveryFails
  <2>2. /\ c \notin reported
        /\ reported' = reported \cup {c}
        /\ reports' = reports \cup {[call |-> c, ok |-> FALSE]}
    BY <1>4 DEF DeliveryFails, Reports
  <2>3. buffer' \cup wire' \subseteq buffer \cup wire
    BY <1>4 DEF DeliveryFails
  <2>4. MessagesProduced'
    BY <1>t, <1>4, <2>2, <2>3 DEF MessagesProduced, Produced, DeliveryFails
  <2>5. ReportsTrue'
    BY <1>t, <1>4, <2>2 DEF TypeOK, ReportsTrue, Outstanding, DeliveryFails, Report
  <2>6. StillWaiting'
    BY <1>t, <1>4, <2>2, <2>3 DEF StillWaiting, Outstanding, DeliveryFails
  <2> QED
    BY <2>1, <2>4, <2>5, <2>6 DEF IInv
<1> QED
  BY <1>1, <1>2, <1>3, <1>4 DEF Producer

(* Shutdown and restart keep the invariant: the new process has no report  *)
(* to come for a call of the old one.                                      *)
LEMMA ShutdownKeepsInv ==
  ASSUME IInv, TypeOK', Shutdown
  PROVE  IInv'
<1>t. TypeOK /\ InOrder /\ MessagesProduced /\ ReportsTrue /\ StillWaiting
  BY DEF IInv
<1>1. CASE ContextDone
  BY <1>t, <1>1 DEF IInv, InOrder, MessagesProduced, Produced, ReportsTrue, Outstanding, StillWaiting, ContextDone
<1>2. CASE Flush
  BY <1>t, <1>2 DEF IInv, InOrder, MessagesProduced, Produced, ReportsTrue, Outstanding, StillWaiting, Flush
<1>3. CASE Close
  BY <1>t, <1>3 DEF IInv, InOrder, MessagesProduced, Produced, ReportsTrue, Outstanding, StillWaiting, Close
<1>4. CASE Restart
  <2>1. \A c \in Calls : answer'[c] = IF InProgress(c) THEN "error" ELSE answer[c]
    BY <1>4 DEF Restart
  <2>2. InOrder'
    BY <1>t, <2>1 DEF InOrder, InProgress
  <2>3. MessagesProduced'
    BY <1>t, <1>4, <2>1 DEF TypeOK, MessagesProduced, Produced, InProgress, Restart
  <2>4. ReportsTrue'
    BY <1>4 DEF ReportsTrue, Outstanding, Restart
  <2>5. StillWaiting'
    BY <1>t, <1>4 DEF MessagesProduced, Produced, TypeOK, StillWaiting, Outstanding, Restart
  <2> QED
    BY <2>2, <2>3, <2>4, <2>5 DEF IInv
<1>5. CASE FlushPolls
  <2>1. PICK r \in reports : flusher = {} /\ flusher' = {r} /\ reports' = reports \ {r}
    BY <1>5 DEF FlushPolls
  <2>2. /\ Outstanding' = Outstanding
        /\ reports' \cap (poller' \cup flusher') = {} /\ poller' \cap flusher' = {}
    BY <1>t, <1>5, <2>1 DEF FlushPolls, ReportsTrue, Outstanding
  <2> QED
    BY <1>t, <1>5, <2>2 DEF IInv, InOrder, MessagesProduced, Produced, ReportsTrue, StillWaiting, FlushPolls
<1> QED
  BY <1>1, <1>2, <1>3, <1>4, <1>5 DEF Shutdown

(* The invariant is inductive.                                             *)
LEMMA NextInv == IInv /\ [Next]_vars => IInv'
<1> SUFFICES ASSUME IInv, [Next]_vars PROVE IInv'
  OBVIOUS
<1>1. TypeOK'
  BY NextType DEF IInv
<1>2. CASE UNCHANGED vars
  BY <1>1, <1>2 DEF IInv, InOrder, MessagesProduced, Produced, ReportsTrue, Outstanding, StillWaiting, vars
<1> QED
  BY <1>1, <1>2, PublishKeepsInv, ProducerKeepsInv, ShutdownKeepsInv DEF Next

(* IInv holds in every reachable state.                                    *)
LEMMA Invariance == Spec => []IInv
<1> QED
  BY InitInv, NextInv, PTL DEF Spec

(* The producer is closed only after the context is done.                  *)
ClosedAfterContext == context = "live" => producer = "open"

(* A call waits only for a report that was or will be made.                *)
Served(c) ==
  c \in (buffer \cup wire) \ reported \/ \E r \in Outstanding : r.call = c

WaitingIsServed ==
  producer # "closed" => \A c \in Calls : answer[c] = "waiting" => Served(c)

(* Main takes reports only inside Flush.                                   *)
TakenInFlush == flusher # {} => producer = "flushing"

ServiceInv == ClosedAfterContext /\ WaitingIsServed /\ TakenInFlush

(* A step that leaves calls, producer and context alone and takes nothing  *)
(* away from c keeps c served.                                             *)
LEMMA StaysServed ==
  ASSUME NEW c, Served(c), reported' = reported,
         buffer \cup wire \subseteq buffer' \cup wire', Outstanding \subseteq Outstanding'
  PROVE  Served(c)'
BY DEF Served, Outstanding

(* A message that is reported is served from then on by its report.        *)
LEMMA ReportServes ==
  ASSUME WaitingIsServed, NEW c \in Calls, NEW ok \in BOOLEAN, Reports(c, ok), producer # "closed",
         \A d \in (buffer \cup wire) \ {c} : d \in buffer' \cup wire',
         UNCHANGED <<answer, poller, flusher, producer>>
  PROVE  WaitingIsServed'
<1> SUFFICES ASSUME NEW d \in Calls, answer[d] = "waiting" PROVE Served(d)'
  BY DEF WaitingIsServed
<1>1. Served(d)
  BY DEF WaitingIsServed
<1>2. CASE UNCHANGED <<reported, reports>> /\ c \in reported
  BY <1>1, <1>2 DEF Served, Outstanding
<1>3. CASE /\ c \notin reported
           /\ reported' = reported \cup {c}
           /\ reports' = reports \cup {[call |-> c, ok |-> ok]}
  <2>1. CASE d = c
    <3>1. [call |-> c, ok |-> ok] \in Outstanding' /\ [call |-> c, ok |-> ok].call = d
      BY <1>3, <2>1 DEF Outstanding
    <3>2. \E r \in Outstanding' : r.call = d
      BY <3>1
    <3> QED
      BY <3>2 DEF Served, Outstanding
  <2>2. CASE d # c
    BY <1>1, <1>3, <2>2 DEF Served, Outstanding
  <2> QED
    BY <2>1, <2>2
<1> QED
  BY <1>2, <1>3 DEF Reports

(* Nobody is left without a report.  ReceiveReport takes the only report   *)
(* of its call, which has its answer then; what no longer waits need not   *)
(* be served.                                                              *)
LEMMA NextServed == IInv /\ ServiceInv /\ [Next]_vars => ServiceInv'
<1> SUFFICES ASSUME IInv, ServiceInv, [Next]_vars PROVE ServiceInv'
  OBVIOUS
<1>t. TypeOK /\ MessagesProduced /\ ReportsTrue /\ ClosedAfterContext /\ WaitingIsServed /\ TakenInFlush
  BY DEF IInv, ServiceInv
<1>0. CASE UNCHANGED vars
  BY <1>0 DEF ServiceInv, ClosedAfterContext, WaitingIsServed, Served, Outstanding, TakenInFlush, vars
<1>p. TakenInFlush'
  BY <1>t DEF Next, PublishToKafka, Enter, Produce, ProduceFails, ReceiveReport, GiveUp,
       Producer, Poll, Transmit, Append, DeliveryFails, Shutdown, ContextDone, Flush, Close,
       Restart, FlushPolls, TakenInFlush, vars
<1>1. ASSUME NEW c \in Calls, PublishToKafka(c) PROVE ServiceInv'
  <2>0. ClosedAfterContext'
    BY <1>t, <1>1 DEF ClosedAfterContext, PublishToKafka, Enter, Produce, ProduceFails,
         ReceiveReport, GiveUp
  <2>1. CASE Produce(c)
    <3>1. c \notin reported
      BY <1>t, <2>1 DEF MessagesProduced, Produced, Produce
    <3> QED
      BY <1>t, <1>p, <2>0, <2>1, <3>1 DEF TypeOK, Produce, WaitingIsServed, Served, Outstanding, ServiceInv
  <2>2. CASE ReceiveReport(c)
    <3>1. /\ \A r \in Outstanding : r.call # c => r \in Outstanding'
          /\ answer'[c] # "waiting" /\ \A d \in Calls \ {c} : answer'[d] = answer[d]
      BY <1>t, <2>2 DEF TypeOK, ReceiveReport, Outstanding
    <3> QED
      BY <1>t, <1>p, <2>0, <2>2, <3>1 DEF ReceiveReport, WaitingIsServed, Served, Outstanding, ServiceInv
  <2>3. CASE Enter(c) \/ ProduceFails(c) \/ GiveUp(c)
    <3>1. /\ \A d \in Calls : answer'[d] = "waiting" => answer[d] = "waiting"
          /\ UNCHANGED <<buffer, wire, reported, reports, poller, flusher, producer>>
      BY <1>t, <2>3 DEF TypeOK, Enter, ProduceFails, GiveUp
    <3> QED
      BY <1>t, <1>p, <2>0, <3>1 DEF WaitingIsServed, Served, Outstanding, ServiceInv
  <2> QED
    BY <1>1, <2>1, <2>2, <2>3 DEF PublishToKafka
<1>2. CASE Producer
  <2>0. ClosedAfterContext'
    BY <1>t, <1>2 DEF ClosedAfterContext, Producer, Poll, Transmit, Append, DeliveryFails
  <2>1. CASE Poll
    <3>1. Outstanding \subseteq Outstanding'
      BY <2>1 DEF Poll, Outstanding
    <3> QED
      BY <1>t, <1>p, <2>0, <2>1, <3>1, StaysServed DEF Poll, WaitingIsServed, ServiceInv
  <2>2. ASSUME NEW c \in Calls, Transmit(c) PROVE ServiceInv'
    <3>1. buffer \cup wire \subseteq buffer' \cup wire' /\ Outstanding \subseteq Outstanding'
      BY <2>2 DEF Transmit, Outstanding
    <3> QED
      BY <1>t, <1>p, <2>0, <2>2, <3>1, StaysServed DEF Transmit, WaitingIsServed, ServiceInv
  <2>3. ASSUME NEW c \in Calls, Append(c) PROVE ServiceInv'
    <3>1. CASE producer = "closed"
      BY <1>p, <2>0, <2>3, <3>1 DEF Append, WaitingIsServed, ServiceInv
    <3>2. CASE producer # "closed"
      <4>1. WaitingIsServed'
        BY <1>t, <2>3, <3>2, ReportServes DEF Append
      <4> QED
        BY <1>p, <2>0, <4>1 DEF ServiceInv
    <3> QED
      BY <3>1, <3>2
  <2>4. ASSUME NEW c \in Calls, DeliveryFails(c) PROVE ServiceInv'
    <3>1. \A d \in (buffer \cup wire) \ {c} : d \in buffer' \cup wire'
      BY <2>4 DEF DeliveryFails
    <3>2. WaitingIsServed'
      BY <1>t, <2>4, <3>1, ReportServes DEF DeliveryFails
    <3> QED
      BY <1>p, <2>0, <3>2 DEF ServiceInv
  <2> QED
    BY <1>2, <2>1, <2>2, <2>3, <2>4 DEF Producer
<1>3. CASE Shutdown
  <2>1. CASE ContextDone
    BY <1>t, <1>p, <2>1 DEF ContextDone, ClosedAfterContext, WaitingIsServed, Served, Outstanding, ServiceInv
  <2>2. CASE Flush
    BY <1>t, <1>p, <2>2 DEF Flush, ClosedAfterContext, WaitingIsServed, Served, Outstanding, ServiceInv
  <2>3. CASE Close
    BY <1>t, <1>p, <2>3 DEF Close, ClosedAfterContext, WaitingIsServed, ServiceInv
  <2>4. CASE Restart
    <3>1. \A c \in Calls : answer'[c] # "waiting"
      BY <2>4 DEF Restart, InProgress
    <3> QED
      BY <1>p, <2>4, <3>1 DEF Restart, ClosedAfterContext, WaitingIsServed, ServiceInv
  <2>5. CASE FlushPolls
    <3>1. Outstanding \subseteq Outstanding'
      BY <2>5 DEF FlushPolls, Outstanding
    <3>2. ClosedAfterContext'
      BY <1>t, <2>5 DEF FlushPolls, ClosedAfterContext
    <3> QED
      BY <1>t, <1>p, <2>5, <3>1, <3>2, StaysServed DEF FlushPolls, WaitingIsServed, ServiceInv
  <2> QED
    BY <1>3, <2>1, <2>2, <2>3, <2>4, <2>5 DEF Shutdown
<1> QED
  BY <1>0, <1>1, <1>2, <1>3 DEF Next

(* As long as the context of the loop lives, the goroutine that delivers   *)
(* the reports never waits on the channel of a call that has returned, and *)
(* no call waits for a report that will not be made, however many messages *)
(* fail, arrive late or belong to an earlier process.                      *)
THEOREM Meeting == Spec => []CallAndReportMeet
<1>1. Init => ServiceInv
  BY DEF Init, ServiceInv, ClosedAfterContext, WaitingIsServed, TakenInFlush
<1>2. IInv /\ ServiceInv => CallAndReportMeet
  BY DEF IInv, StillWaiting, ServiceInv, ClosedAfterContext, TakenInFlush, WaitingIsServed, Served, Outstanding,
         Outstanding,
         CallAndReportMeet
<1> QED
  BY <1>1, <1>2, NextServed, Invariance, PTL DEF Spec

-----------------------------------------------------------------------------
(* Refinement                                                              *)

(* The answer of a call as PublishContract sees it.                        *)
Shown == [c \in Calls |-> IF InProgress(c) THEN "called" ELSE answer[c]]

(* Before the first call, nothing is taken.                                *)
LEMMA InitRefines == Init => Contract!Init
BY DEF Init, Contract!Init, InProgress

(* What a change of one answer shows.                                      *)
LEMMA ShownEffect ==
  ASSUME TypeOK, NEW c \in Calls, NEW a \in Answers, answer' = [answer EXCEPT ![c] = a]
  PROVE  Shown' = [Shown EXCEPT ![c] = IF a \in {"entered", "waiting"} THEN "called" ELSE a]
BY DEF TypeOK, Shown, InProgress

(* Every step of the publisher is a step of the contract or none.          *)
LEMMA NextRefines ==
  ASSUME IInv, [Next]_vars
  PROVE  Contract!Next \/ UNCHANGED <<log, Shown>>
<1>t. TypeOK /\ InOrder /\ MessagesProduced /\ ReportsTrue
  BY DEF IInv
<1>0. CASE UNCHANGED vars
  BY <1>0 DEF vars, Shown, InProgress
<1>1. ASSUME NEW c \in Calls, PublishToKafka(c)
      PROVE  Contract!Next \/ UNCHANGED <<log, Shown>>
  <2>1. CASE Enter(c)
    <3>1. Shown[c] = "none" /\ Shown' = [Shown EXCEPT ![c] = "called"]
      BY <1>t, <2>1, ShownEffect DEF Enter, Upcoming, Shown, InProgress, Answers
    <3>2. Contract!Start(c)
      BY <2>1, <3>1 DEF Enter, Shown, Contract!Start
    <3> QED
      BY <3>2 DEF Contract!Next
  <2>2. CASE Produce(c)
    <3>1. Shown[c] = "called" /\ Shown' = [Shown EXCEPT ![c] = "called"]
      BY <1>t, <2>2, ShownEffect DEF Produce, Shown, InProgress, Answers
    <3> QED
      BY <2>2, <3>1 DEF Produce, Shown
  <2>3. ASSUME answer[c] \in {"entered", "waiting"}, answer' = [answer EXCEPT ![c] = "error"], log' = log
        PROVE  Contract!Next
    <3>1. Shown[c] = "called" /\ Shown' = [Shown EXCEPT ![c] = "error"]
      BY <1>t, <2>3, ShownEffect DEF Shown, InProgress, Answers
    <3>2. Contract!AnswerError(c)
      BY <2>3, <3>1 DEF Shown, Contract!AnswerError
    <3> QED
      BY <3>2 DEF Contract!Next
  <2>4. CASE ProduceFails(c)
    BY <2>3, <2>4 DEF ProduceFails
  <2>5. CASE ReceiveReport(c)
    <3>1. PICK r \in poller \cup flusher : r.call = c /\ answer' = [answer EXCEPT ![c] = IF r.ok THEN "nil" ELSE "error"]
      BY <2>5 DEF ReceiveReport
    <3>2. CASE r.ok
      <4>1. c \in log
        BY <1>t, <3>1, <3>2 DEF ReportsTrue, Outstanding
      <4>2. Shown[c] = "called" /\ Shown' = [Shown EXCEPT ![c] = "nil"]
        BY <1>t, <2>5, <3>1, <3>2, ShownEffect DEF ReceiveReport, Shown, InProgress, Answers
      <4>3. Contract!AnswerNil(c)
        BY <2>5, <4>1, <4>2 DEF ReceiveReport, Shown, Contract!AnswerNil
      <4> QED
        BY <4>3 DEF Contract!Next
    <3>3. CASE ~r.ok
      BY <2>3, <2>5, <3>1, <3>3 DEF ReceiveReport
    <3> QED
      BY <3>2, <3>3
  <2>6. CASE GiveUp(c)
    BY <2>3, <2>6 DEF GiveUp
  <2> QED
    BY <1>1, <2>1, <2>2, <2>4, <2>5, <2>6 DEF PublishToKafka
<1>2. CASE Producer
  <2>1. ASSUME NEW c \in Calls, Append(c) PROVE Contract!Next
    <3>1. answer[c] \notin {"none", "entered"} /\ Shown' = Shown
      BY <1>t, <2>1 DEF Append, MessagesProduced, Produced, Shown, InProgress
    <3>2. Contract!Take(c)
      BY <2>1, <3>1 DEF Append, Shown, InProgress, Contract!Take
    <3> QED
      BY <3>2 DEF Contract!Next
  <2>2. ASSUME UNCHANGED <<answer, log>> PROVE UNCHANGED <<log, Shown>>
    BY <2>2 DEF Shown, InProgress
  <2> QED
    BY <1>2, <2>1, <2>2 DEF Producer, Poll, Transmit, DeliveryFails
<1>3. CASE Shutdown
  <2>1. ASSUME UNCHANGED <<answer, log>> PROVE UNCHANGED <<log, Shown>>
    BY <2>1 DEF Shown, InProgress
  <2>2. CASE Restart
    <3>1. CASE \A c \in Calls : ~InProgress(c)
      BY <1>t, <2>1, <2>2, <3>1 DEF TypeOK, Restart
    <3>2. ASSUME NEW c \in Calls, InProgress(c) PROVE Contract!Next
      <4>1. \A d \in Calls \ {c} : ~InProgress(d)
        BY <1>t, <3>2 DEF InOrder, InProgress, Calls
      <4>2. answer' = [answer EXCEPT ![c] = "error"]
        BY <1>t, <2>2, <3>2, <4>1 DEF TypeOK, Restart
      <4>3. Shown[c] = "called" /\ Shown' = [Shown EXCEPT ![c] = "error"]
        BY <1>t, <3>2, <4>2, ShownEffect DEF Shown, InProgress, Answers
      <4>4. Contract!AnswerError(c)
        BY <2>2, <4>3 DEF Restart, Shown, Contract!AnswerError
      <4> QED
        BY <4>4 DEF Contract!Next
    <3> QED
      BY <3>1, <3>2
  <2> QED
    BY <1>3, <2>1, <2>2 DEF Shutdown, ContextDone, Flush, FlushPolls, Close
<1> QED
  BY <1>0, <1>1, <1>2, <1>3 DEF Next

(* KafkaPublisher implements PublishContract: the outbox may take nil for  *)
(* "the broker has the message", may retry after any other answer, and     *)
(* never causes a second message within one call.                          *)
THEOREM Refinement == Spec => ImplementsContract
<1>1. IInv /\ [Next]_vars => [Contract!Next]_<<log, Shown>>
  BY NextRefines
<1> QED
  BY <1>1, InitRefines, Invariance, PTL DEF Spec, ImplementsContract, Contract!Spec, Shown

=============================================================================
