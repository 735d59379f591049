--------------------------- MODULE KafkaPublisher ---------------------------
(***************************************************************************)
(* One attempt of the outbox loop at a row, as KafkaPublisher makes it:    *)
(* Produce puts the message into the producer's buffer together with a     *)
(* channel of its own, and the call waits for the report on that channel   *)
(* or for the end of its context.  The channel has no buffer, so the       *)
(* goroutine of the producer that delivers the reports waits in turn until *)
(* somebody receives.  Close flushes for a limited time and then ends that *)
(* goroutine; but Flush itself takes reports, in the goroutine of main,    *)
(* and nothing ends it while it waits for a receiver.                      *)
(*                                                                         *)
(* The loop calls PublishToKafka again after an error (retry.Do) and for   *)
(* every further row; all of these calls are numbered here in one order.   *)
(***************************************************************************)
EXTENDS Naturals

CONSTANTS
  MaxCalls,    \* bound: calls of PublishToKafka
  MaxFaults    \* bound: faults in a behaviour

ASSUME KafkaAssumption == {MaxCalls, MaxFaults} \subseteq Nat

VARIABLES
  answer,   \* where a call stands (entered, waiting), or what it returned
  buffer,   \* calls whose message waits in the producer
  wire,     \* calls whose message is under way to the broker
  log,      \* calls whose message the broker has appended
  reported, \* calls for which no further report can come
  reports,  \* reports of the broker not yet delivered: a set of [call, ok]
  poller,   \* the report the delivering goroutine is trying to send, or none
  flusher,  \* the report main is trying to send inside Flush, or none
  context,  \* the context of the loop: live or done
  producer, \* open, flushing (main is in Close) or closed
  faults    \* faults so far

vars == <<answer, buffer, wire, log, reported, reports, poller, flusher, context, producer, faults>>

-----------------------------------------------------------------------------
(* Types and helpers                                                       *)

Calls == 1..MaxCalls

Report == [call : Calls, ok : BOOLEAN]

Answers == {"none", "entered", "waiting", "nil", "error"}

InProgress(c) == answer[c] \in {"entered", "waiting"}

(* The loop makes one call after the other.                                *)
Upcoming(c) ==
  /\ answer[c] = "none"
  /\ \A d \in Calls : d < c => answer[d] \in {"nil", "error"}

Fault == faults < MaxFaults /\ faults' = faults + 1

-----------------------------------------------------------------------------
(* PublishToKafka                                                          *)

(* retry.Do looks at the context and calls the publisher, which encodes    *)
(* the event.                                                              *)
Enter(c) ==
  /\ Upcoming(c)
  /\ context = "live"
  /\ answer' = [answer EXCEPT ![c] = "entered"]
  /\ UNCHANGED <<buffer, wire, log, reported, reports, poller, flusher, context, producer, faults>>

(* Produce accepts the message.  The context may be done by now, and Close *)
(* on its way.                                                             *)
Produce(c) ==
  /\ answer[c] = "entered"
  /\ producer # "closed"
  /\ answer' = [answer EXCEPT ![c] = "waiting"]
  /\ buffer' = buffer \cup {c}
  /\ UNCHANGED <<wire, log, reported, reports, poller, flusher, context, producer, faults>>

(* Produce returns an error: the buffer of the producer is full, or the    *)
(* producer is closed.                                                     *)
ProduceFails(c) ==
  /\ answer[c] = "entered"
  /\ \/ producer = "closed" /\ UNCHANGED faults
     \/ Fault
  /\ answer' = [answer EXCEPT ![c] = "error"]
  /\ UNCHANGED <<buffer, wire, log, reported, reports, poller, flusher, context, producer>>

(* Mutant: the error inside the report is not looked at.                   *)
ReceiveReport_IgnoresError(c) ==
  /\ answer[c] = "waiting"
  /\ \E r \in poller \cup flusher :
       /\ r.call = c
       /\ poller' = poller \ {r} /\ flusher' = flusher \ {r}
  /\ answer' = [answer EXCEPT ![c] = "nil"]
  /\ UNCHANGED <<buffer, wire, log, reported, reports, context, producer, faults>>

(* The report comes through the call's own channel, from the goroutine     *)
(* that delivers or from Flush.                                            *)
ReceiveReport(c) ==
  /\ answer[c] = "waiting"
  /\ \E r \in poller \cup flusher :
       /\ r.call = c
       /\ poller' = poller \ {r} /\ flusher' = flusher \ {r}
       /\ answer' = [answer EXCEPT ![c] = IF r.ok THEN "nil" ELSE "error"]
  /\ UNCHANGED <<buffer, wire, log, reported, reports, context, producer, faults>>

(* Mutant: the call also gives up when a deadline of its own is over.      *)
GiveUp_Deadline(c) ==
  /\ answer[c] = "waiting"
  /\ answer' = [answer EXCEPT ![c] = "error"]
  /\ UNCHANGED <<buffer, wire, log, reported, reports, poller, flusher, context, producer, faults>>

(* Mutant: the select does not listen to ctx.Done().                       *)
GiveUp_NoContext(c) ==
  /\ FALSE
  /\ GiveUp_Deadline(c)

(* ctx.Done(): the call returns, and nobody will ever receive its report.  *)
GiveUp(c) ==
  /\ answer[c] = "waiting"
  /\ context = "done"
  /\ answer' = [answer EXCEPT ![c] = "error"]
  /\ UNCHANGED <<buffer, wire, log, reported, reports, poller, flusher, context, producer, faults>>

-----------------------------------------------------------------------------
(* The producer and the broker                                             *)

Transmit(c) ==
  /\ producer # "closed" /\ c \in buffer
  /\ buffer' = buffer \ {c}
  /\ wire' = wire \cup {c}
  /\ UNCHANGED <<answer, log, reported, reports, poller, flusher, context, producer, faults>>

(* The producer reports once for each message.                             *)
Reports(c, ok) ==
  IF producer = "closed" \/ c \in reported
  THEN UNCHANGED <<reported, reports>>
  ELSE /\ reported' = reported \cup {c}
       /\ reports' = reports \cup {[call |-> c, ok |-> ok]}

(* The broker appends and says so.  enable.idempotence: what the producer  *)
(* sends again is not appended again.                                      *)
Append(c) ==
  /\ c \in wire
  /\ wire' = wire \ {c}
  /\ log' = log \cup {c}
  /\ Reports(c, TRUE)
  /\ UNCHANGED <<answer, buffer, poller, flusher, context, producer, faults>>

(* delivery.timeout.ms or retries: the producer reports a failure.  A      *)
(* message that is under way may arrive later all the same, or never.      *)
DeliveryFails(c) ==
  /\ producer # "closed"
  /\ c \in (buffer \cup wire) \ reported
  /\ Fault
  /\ buffer' = buffer \ {c}
  /\ wire' \in {wire, wire \ {c}}
  /\ Reports(c, FALSE)
  /\ UNCHANGED <<answer, log, poller, flusher, context, producer>>

(* The delivering goroutine takes the next report; from then on it waits   *)
(* for the receiver.                                                       *)
Poll ==
  /\ producer # "closed" /\ poller = {}
  /\ \E r \in reports : poller' = {r} /\ reports' = reports \ {r}
  /\ UNCHANGED <<answer, buffer, wire, log, reported, flusher, context, producer, faults>>

-----------------------------------------------------------------------------
(* Shutdown                                                                *)

(* A signal: main calls cancel().                                          *)
ContextDone ==
  /\ context = "live"
  /\ context' = "done"
  /\ UNCHANGED <<answer, buffer, wire, log, reported, reports, poller, flusher, producer, faults>>

(* The deferred Close of main, right after cancel().                       *)
Flush ==
  /\ context = "done" /\ producer = "open"
  /\ producer' = "flushing"
  /\ UNCHANGED <<answer, buffer, wire, log, reported, reports, poller, flusher, context, faults>>

(* Flush takes a report in main's goroutine and waits for its receiver, on *)
(* the call's channel alone: its time is looked at between two reports.    *)
FlushPolls ==
  /\ producer = "flushing" /\ flusher = {}
  /\ \E r \in reports : flusher' = {r} /\ reports' = reports \ {r}
  /\ UNCHANGED <<answer, buffer, wire, log, reported, poller, context, producer, faults>>

(* Mutant: Flush has no limit and ends when nothing is outstanding.        *)
Close_NoTimeout ==
  /\ producer = "flushing" /\ flusher = {}
  /\ buffer = {} /\ reports = {} /\ poller = {}
  /\ producer' = "closed"
  /\ UNCHANGED <<answer, buffer, wire, log, reported, reports, poller, flusher, context, faults>>

(* Flush is over, with nothing left or after FlushTimeoutMs; the producer  *)
(* is closed and its goroutine ends, whether it was waiting or not.        *)
Close ==
  /\ producer = "flushing" /\ flusher = {}
  /\ producer' = "closed"
  /\ buffer' = {} /\ reports' = {} /\ poller' = {}
  /\ UNCHANGED <<answer, wire, log, reported, flusher, context, faults>>

(* The process ends, after Close, killed when it takes too long to stop,   *)
(* or in a crash, and a new one begins.  The call in progress never        *)
(* returns.  Its message may still be under way, but the new producer will *)
(* not report it.                                                          *)
Restart ==
  /\ \/ producer # "open" /\ UNCHANGED faults
     \/ Fault
  /\ answer' = [c \in Calls |-> IF InProgress(c) THEN "error" ELSE answer[c]]
  /\ buffer' = {} /\ reports' = {} /\ poller' = {} /\ flusher' = {}
  /\ reported' = {c \in Calls : answer[c] # "none"}
  /\ context' = "live"
  /\ producer' = "open"
  /\ UNCHANGED <<wire, log>>

-----------------------------------------------------------------------------

(* NewKafkaPublisher                                                       *)
Init ==
  /\ answer = [c \in Calls |-> "none"]
  /\ buffer = {} /\ wire = {} /\ log = {}
  /\ reported = {} /\ reports = {} /\ poller = {} /\ flusher = {}
  /\ context = "live"
  /\ producer = "open"
  /\ faults = 0

PublishToKafka(c) ==
  Enter(c) \/ Produce(c) \/ ProduceFails(c) \/ ReceiveReport(c) \/ GiveUp(c)

Producer == Poll \/ \E c \in Calls : Transmit(c) \/ Append(c) \/ DeliveryFails(c)

Shutdown == ContextDone \/ Flush \/ FlushPolls \/ Close \/ Restart

Next == (\E c \in Calls : PublishToKafka(c)) \/ Producer \/ Shutdown

Spec == Init /\ [][Next]_vars

(* Fairness.  Goroutines run; a message is transmitted and, if it is not   *)
(* lost, appended; the goroutine that delivers reports polls; a process    *)
(* whose context is done calls Close, and Flush stops when its time is     *)
(* over, unless main waits for a receiver.  A message lost on the wire     *)
(* ends in DeliveryFails, which delivery.timeout guarantees; no fairness   *)
(* of failures is assumed.                                                 *)
FairSpec ==
  /\ Spec
  /\ \A c \in Calls :
       /\ WF_vars(Produce(c) \/ ProduceFails(c)) /\ WF_vars(ReceiveReport(c)) /\ WF_vars(GiveUp(c))
       /\ WF_vars(Transmit(c)) /\ WF_vars(Append(c))
  /\ WF_vars(Poll) /\ WF_vars(Flush) /\ WF_vars(Close)

-----------------------------------------------------------------------------
(* Properties                                                              *)

(* Every variable has its type.                                            *)
TypeOK ==
  /\ answer \in [Calls -> Answers]
  /\ buffer \subseteq Calls /\ wire \subseteq Calls /\ log \subseteq Calls
  /\ reported \subseteq Calls
  /\ reports \subseteq Report /\ poller \subseteq Report /\ flusher \subseteq Report
  /\ context \in {"live", "done"}
  /\ producer \in {"open", "flushing", "closed"}
  /\ faults \in 0..MaxFaults

(* Nobody receives for a call that has returned, and the channel has no    *)
(* buffer.  Still, as long as the context lives, neither side waits in     *)
(* vain: the call a report is delivered to has not returned, and a call    *)
(* that waits has its report, or its message still with the producer.      *)
CallAndReportMeet ==
  context = "live" =>
    /\ \A r \in poller : answer[r.call] = "waiting"
    /\ \A c \in Calls : answer[c] = "waiting" =>
         c \in (buffer \cup wire) \ reported \/ \E r \in reports \cup poller : r.call = c

(* Once main closes the producer it gets through, past reports without a   *)
(* receiver that the delivering goroutine waits on, unless Flush itself    *)
(* has taken the report of a call that gave up: then main waits for ever.  *)
ShutdownGoesOn ==
  producer = "flushing" ~>
    (producer # "flushing" \/ \E r \in flusher : answer[r.call] # "waiting")

(* Every call returns: it gets its report, or its context is done.         *)
CallsReturn == \A c \in Calls : InProgress(c) ~> ~InProgress(c)

(* A call keeps the contract the outbox relies on: nil only for a message  *)
(* in the log of the broker, and never two messages for one call.          *)
Contract == INSTANCE PublishContract WITH
  taken  <- log,
  answer <- [c \in Calls |-> IF InProgress(c) THEN "called" ELSE answer[c]]

ImplementsContract == Contract!Spec

=============================================================================
