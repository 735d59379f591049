----------------------------- MODULE Orchestron -----------------------------
(***************************************************************************)
(* The parts together, from the API to the broker: EventProcessor fills    *)
(* event_outbox and dead_letter_queue, the outbox processor empties the    *)
(* one, an operator marks rows of the other.  The outbox appears as the    *)
(* contract that Outbox implements; every part of a row's way that Outbox  *)
(* details is one step here.                                               *)
(***************************************************************************)
EXTENDS DeadLetterQueue

CONSTANTS
  EventTypes, Versions, SchemaTexts, TypeOf, Oversized, Malformed, Accepts,
  RetryBackoffs,
  MaxFaults      \* bound: faults in a behaviour

ASSUME OrchestronAssumption ==
  /\ Versions \subseteq Seq(Nat)
  /\ TypeOf \in [Events -> EventTypes]
  /\ Malformed \subseteq SchemaTexts
  /\ Accepts \in [SchemaTexts -> SUBSET Events]
  /\ RetryBackoffs \subseteq Int
  /\ MaxFaults \in Nat

VARIABLES
  schemas, retryBaseDelay, process, stage, reason, outboxRows, deadLetters, faults,
  delivered,     \* rows of event_outbox the broker has taken
  settled        \* rows that are no longer pending

processorVars ==
  <<schemas, retryBaseDelay, process, stage, reason, outboxRows, deadLetters, faults>>
vars == <<processorVars, entries, delivered, settled>>

Processor == INSTANCE EventProcessor

(* Each INSERT of an event makes a row of its own.                         *)
Rows == Events \X (1..(1 + MaxFaults))

Stored == {row \in Rows : row[2] <= outboxRows[row[1]]}

Outbox == INSTANCE OutboxContract WITH stored <- Stored

-----------------------------------------------------------------------------

(* A step of the API or of a goroutine, and the row it may add to the dead *)
(* letter queue.                                                           *)
ProcessorStep(Step) ==
  /\ Step
  /\ \/ \E e \in Events :
          deadLetters'[e] = deadLetters[e] + 1 /\ SendToDeadLetterQueue(e)
     \/ deadLetters' = deadLetters /\ UNCHANGED entries
  /\ UNCHANGED <<delivered, settled>>

(* The loop of the outbox processor hands a row to the broker, again if it *)
(* could not record it, and records it.                                    *)
OutboxStep(row) ==
  /\ process = "up"
  /\ UNCHANGED <<processorVars, entries>>
  /\ Outbox!Deliver(row) \/ Outbox!Settle(row)

(* Mutant: reprocessing hands the event to the outbox but not to the       *)
(* validator.                                                              *)
OperatorStep_Resubmits ==
  /\ process = "up"
  /\ \E id \in DOMAIN entries :
       /\ ~entries[id].processed
       /\ ReprocessEntry(id)
       /\ outboxRows' = [outboxRows EXCEPT ![entries[id].event] = 1]
  /\ UNCHANGED <<schemas, retryBaseDelay, process, stage, reason, deadLetters, faults,
                 delivered, settled>>

OperatorStep ==
  /\ process = "up"
  /\ UNCHANGED <<processorVars, delivered, settled>>
  /\ \E id \in 1..(Len(entries) + 1) : ReprocessEntry(id)

Init ==
  /\ Processor!Init
  /\ InitDeadLetters
  /\ delivered = {} /\ settled = {}

Next ==
  \/ ProcessorStep(Processor!Next)
  \/ \E row \in Rows : OutboxStep(row)
  \/ OperatorStep

Spec == Init /\ [][Next]_vars

(* Goroutines are scheduled, the service is restarted, and the outbox does *)
(* what the liveness of Outbox says of it.                                 *)
FairSpec ==
  /\ Spec
  /\ \A e \in Events : WF_vars(ProcessorStep(Processor!ProcessEvent(e)))
  /\ WF_vars(ProcessorStep(Processor!Restart))
  /\ \A row \in Rows : WF_vars(OutboxStep(row))

-----------------------------------------------------------------------------
(* Properties                                                              *)

(* Every variable has its type.                                            *)
TypeOK ==
  /\ Processor!TypeOK
  /\ DeadLettersTypeOK
  /\ {delivered, settled} \subseteq SUBSET Rows

Delivered(e) == \E row \in delivered : row[1] = e

Settled(e) == \E row \in settled : row[1] = e

(* The broker only ever sees events that conform to a registered schema of *)
(* their type and respect the size limit.                                  *)
DeliveredIsValid == \A e \in Events : Delivered(e) => Processor!Valid(e)

(* How far an event has come.                                              *)
Place(e) ==
  IF Settled(e) THEN "settled"
  ELSE IF Delivered(e) THEN "delivered"
  ELSE Processor!Fate(e)

Journey == INSTANCE EventJourney WITH fate <- [e \in Events |-> Place(e)]

(* From the API to the broker every event takes one of the ways of         *)
(* EventJourney: none is delivered without being stored or recorded        *)
(* without being delivered, and none comes back from the dead letter queue,*)
(* also when an operator has it "reprocessed".                             *)
ImplementsJourney == Journey!JourneySpec

(* Every accepted event is delivered and settled, ends in the dead letter  *)
(* queue, or is lost for one of the causes that EventProcessor explains;   *)
(* unless the latest schema of its type never loads.                       *)
AcceptedIsSettled ==
  \A e \in Events :
    []<>~Processor!Blocked(e) =>
      (stage[e] \in Processor!Running ~>
         \/ Settled(e)
         \/ deadLetters[e] > 0
         \/ Processor!Lost(e) /\ (faults > 0 \/ retryBaseDelay <= 0))

=============================================================================
