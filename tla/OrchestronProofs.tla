-------------------------- MODULE OrchestronProofs --------------------------
(***************************************************************************)
(* Theorems of Orchestron, for every set of events, versions, schemas and  *)
(* every bound on faults.  The pipeline keeps in the composition what it   *)
(* keeps alone: every behaviour of the whole is one of EventProcessor, so  *)
(* the theorems about it are used here as they stand.                      *)
(***************************************************************************)
EXTENDS Orchestron, SequenceTheorems, TLAPS

P == INSTANCE EventProcessorProofs

-----------------------------------------------------------------------------
(* The pipeline within the whole                                           *)

(* The constants are what the pipeline assumes of them.                    *)
LEMMA PipelineAssumptions == P!RegistryAssumption /\ P!ProcessorAssumption
BY OrchestronAssumption DEF P!RegistryAssumption, P!ProcessorAssumption

(* A step of the pipeline in the whole is a step of the pipeline.          *)
LEMMA PipelineNext == Processor!Next => P!Next
BY DEF Processor!Next, P!Next, Processor!ProcessEvent, P!ProcessEvent,
   Processor!ReceiveEvent, P!ReceiveEvent, Processor!Register, P!Register,
   Processor!RegisterSchema, P!RegisterSchema, Processor!Registered, P!Registered,
   Processor!FindByType, P!FindByType, Processor!TextLess, P!TextLess,
   Processor!ValidatePayloadSize, P!ValidatePayloadSize, Processor!GetSchema, P!GetSchema,
   Processor!Validate, P!Validate, Processor!TransformAndEnrich, P!TransformAndEnrich,
   Processor!PublishEvent, P!PublishEvent,
   Processor!PublishUnacknowledged, P!PublishUnacknowledged,
   Processor!SendToDeadLetterQueue, P!SendToDeadLetterQueue,
   Processor!DeadLetterFails, P!DeadLetterFails, Processor!Stop, P!Stop,
   Processor!Panic, P!Panic, Processor!Die, P!Die, Processor!Restart, P!Restart,
   Processor!Goto, P!Goto, Processor!Reject, P!Reject, Processor!Fault, P!Fault,
   Processor!Running, P!Running, Processor!processorVars, P!processorVars

(* The outbox loops and the operator leave the pipeline alone.             *)
LEMMA PipelineStep == [Next]_vars => [P!Next]_P!vars
<1>1. ProcessorStep(Processor!Next) => P!Next
  BY PipelineNext DEF ProcessorStep
<1>2. UNCHANGED processorVars => UNCHANGED P!vars
  BY DEF processorVars, P!vars, P!processorVars
<1> QED
  BY <1>1, <1>2 DEF Next, OutboxStep, OperatorStep, vars

(* The whole behaves like the pipeline, seen through its variables.        *)
LEMMA PipelineRuns == Spec => P!Spec
<1>1. Init => P!Init
  BY DEF Init, Processor!Init, P!Init, Processor!InitSchemas, P!InitSchemas
<1> QED
  BY <1>1, PipelineStep, PTL DEF Spec, P!Spec

(* What is proved of the pipeline holds of it in the whole.                *)
LEMMA PipelineHolds ==
  Spec => [](P!FateInv /\ P!TypeOK /\ P!ExclusiveFate /\ P!OutboxOnlyValidated)
<1>1. P!Spec => []P!FateInv
  BY P!SpecFate, PipelineAssumptions
<1>2. P!Spec => []P!TypeOK
  BY P!TypeCorrect, PipelineAssumptions
<1>3. P!Spec => []P!ExclusiveFate
  BY P!Exclusive, PipelineAssumptions
<1>4. P!Spec => []P!OutboxOnlyValidated
  BY P!Validated, PipelineAssumptions
<1> QED
  BY <1>1, <1>2, <1>3, <1>4, PipelineRuns, PTL

(* What a step of the pipeline does to its tables: rows are only added, and*)
(* an event that keeps its place has got one through a fault.              *)
LEMMA PipelineEffect ==
  ASSUME P!FateInv, [P!Next]_P!vars
  PROVE  /\ P!Effect /\ faults \in Nat /\ faults' \in Nat /\ faults' >= faults
         /\ \A e \in Events : /\ outboxRows[e] \in Nat /\ outboxRows'[e] \in Nat
                              /\ outboxRows'[e] >= outboxRows[e]
                              /\ deadLetters[e] \in Nat
                              /\ deadLetters'[e] \in Nat
                              /\ deadLetters'[e] >= deadLetters[e]
         /\ \A e \in Events : outboxRows'[e] # outboxRows[e] /\ stage'[e] = "publish"
                                => faults' = faults + 1
<1>1. P!FateInv'
  BY P!NextFate, PipelineAssumptions
<1>2. P!FateTypeOK /\ P!FateTypeOK'
  BY <1>1 DEF P!FateInv
<1>3. P!Effect /\ faults' >= faults
  BY <1>2, P!StepEffect, PipelineAssumptions
<1>4. faults \in Nat /\ faults' \in Nat
  <2>1. MaxFaults \in Nat
    BY OrchestronAssumption
  <2> QED
    BY <1>2, <2>1 DEF P!FateTypeOK
<1>5. \A e \in Events : /\ outboxRows[e] \in Nat /\ outboxRows'[e] \in Nat
                        /\ deadLetters[e] \in Nat /\ deadLetters'[e] \in Nat
  BY <1>2 DEF P!FateTypeOK
<1>6. \A e \in Events : outboxRows'[e] >= outboxRows[e] /\ deadLetters'[e] >= deadLetters[e]
  BY <1>3, <1>5 DEF P!Effect, P!Nothing, P!Advances, P!Stores, P!Rejects, P!Moves, P!Ends
<1>7. ASSUME NEW e \in Events, outboxRows'[e] # outboxRows[e], stage'[e] = "publish"
      PROVE  faults' = faults + 1
  <2>1. ASSUME NEW f \in Events, P!PublishEvent(f) PROVE FALSE
    <3>1. stage'[f] = "returned" /\ \A g \in Events \ {f} : outboxRows'[g] = outboxRows[g]
      BY <1>2, <2>1 DEF P!PublishEvent, P!Goto, P!FateTypeOK
    <3> QED
      BY <1>7, <3>1
  <2>2. ASSUME NEW f \in Events, P!PublishUnacknowledged(f) PROVE faults' = faults + 1
    BY <2>2 DEF P!PublishUnacknowledged, P!Fault
  <2>3. \/ outboxRows' = outboxRows
        \/ \E f \in Events : P!PublishEvent(f) \/ P!PublishUnacknowledged(f)
    BY DEF P!Next, P!ProcessEvent, P!ReceiveEvent, P!Register, P!ValidatePayloadSize,
       P!GetSchema, P!Validate, P!TransformAndEnrich, P!SendToDeadLetterQueue,
       P!DeadLetterFails, P!Stop, P!Panic, P!Die, P!Restart, P!vars, P!processorVars
  <2> QED
    BY <1>7, <2>1, <2>2, <2>3
<1> QED
  BY <1>3, <1>4, <1>5, <1>6, <1>7

-----------------------------------------------------------------------------
(* The tables and the broker                                               *)

(* Only rows of the outbox are delivered, and only those recorded.         *)
DeliveredWasStored == delivered \subseteq Stored /\ settled \subseteq delivered

(* Each INSERT but one of an event, and that one too while the event is    *)
(* still on its way to it, goes back to a fault.                           *)
RowsExplained ==
  \A e \in Events :
    outboxRows[e] <= IF stage[e] \in {"absent", "size", "schema", "validate", "transform",
                                      "publish"}
                     THEN faults ELSE 1 + faults

(* Both views of the dead letter queue agree: the rows of the table and the*)
(* count that the pipeline keeps.                                          *)
EntriesCounted ==
  /\ DeadLettersTypeOK
  /\ \A id \in DOMAIN entries : deadLetters[entries[id].event] > 0

CompositionInv ==
  DeliveredWasStored /\ RowsExplained /\ EntriesCounted

(* A row of the outbox stays there.                                        *)
LEMMA StoredGrows ==
  ASSUME P!FateInv, [Next]_vars
  PROVE  Stored \subseteq Stored'
<1>1. \A e \in Events : /\ outboxRows[e] \in Nat /\ outboxRows'[e] \in Nat
                        /\ outboxRows'[e] >= outboxRows[e]
  BY PipelineStep, PipelineEffect
<1>2. ASSUME NEW row \in Rows PROVE row[1] \in Events /\ row[2] \in Nat
  BY <1>2, OrchestronAssumption DEF Rows
<1> QED
  BY <1>1, <1>2 DEF Stored

(* The outbox loop delivers what is stored and settles what is delivered.  *)
LEMMA NextDelivered ==
  ASSUME P!FateInv, DeliveredWasStored, [Next]_vars
  PROVE  DeliveredWasStored'
<1>1. Stored \subseteq Stored'
  BY StoredGrows
<1>2. Stored \subseteq Rows
  BY DEF Stored
<1>3. ASSUME NEW row \in Rows, OutboxStep(row)
      PROVE  delivered' \subseteq Stored /\ settled' \subseteq delivered'
  BY <1>2, <1>3 DEF OutboxStep, Outbox!Deliver, Outbox!Settle, DeliveredWasStored
<1>4. CASE UNCHANGED <<delivered, settled>>
  BY <1>1, <1>4 DEF DeliveredWasStored, Rows
<1>5. (\E row \in Rows : OutboxStep(row)) \/ UNCHANGED <<delivered, settled>>
  BY DEF Next, ProcessorStep, OperatorStep, vars
<1> QED
  BY <1>1, <1>3, <1>4, <1>5 DEF DeliveredWasStored, Rows

(* RowsExplained is inductive.                                             *)
LEMMA NextExplained ==
  ASSUME P!FateInv, RowsExplained, [Next]_vars
  PROVE  RowsExplained'
<1>1. /\ P!Effect /\ faults \in Nat /\ faults' \in Nat /\ faults' >= faults
      /\ \A e \in Events : /\ outboxRows[e] \in Nat /\ outboxRows'[e] \in Nat
      /\ \A e \in Events : outboxRows'[e] # outboxRows[e] /\ stage'[e] = "publish"
                             => faults' = faults + 1
  BY PipelineStep, PipelineEffect
<1> SUFFICES ASSUME NEW e \in Events
             PROVE  outboxRows'[e] <= IF stage'[e] \in {"absent", "size", "schema", "validate",
                                                        "transform", "publish"}
                                      THEN faults' ELSE 1 + faults'
  BY DEF RowsExplained
<1>2. outboxRows[e] <= IF stage[e] \in {"absent", "size", "schema", "validate", "transform",
                                        "publish"}
                       THEN faults ELSE 1 + faults
  BY DEF RowsExplained
<1>3. CASE outboxRows'[e] = outboxRows[e] /\ stage'[e] = stage[e]
  BY <1>1, <1>2, <1>3
<1>4. CASE P!Advances(e)
  BY <1>1, <1>2, <1>4 DEF P!Advances
<1>5. CASE P!Stores(e)
  BY <1>1, <1>2, <1>5 DEF P!Stores
<1>6. CASE P!Rejects(e)
  BY <1>1, <1>2, <1>6 DEF P!Rejects
<1>7. CASE P!Ends
  BY <1>1, <1>2, <1>7 DEF P!Ends, P!Running
<1> QED
  BY <1>1, <1>3, <1>4, <1>5, <1>6, <1>7
  DEF P!Effect, P!Nothing, P!Advances, P!Stores, P!Rejects, P!Moves

(* What an operation of the dead letter queue does to its entries.         *)
LEMMA QueueTypes ==
  ASSUME DeadLettersTypeOK
  PROVE  /\ \A e \in Events : SendToDeadLetterQueue(e) =>
              /\ entries' \in Seq(Entry)
              /\ DOMAIN entries \subseteq DOMAIN entries'
              /\ \A id \in DOMAIN entries : entries'[id] = entries[id]
              /\ \A id \in DOMAIN entries' \ DOMAIN entries : entries'[id].event = e
         /\ \A i : ReprocessEntry(i) =>
              /\ entries' \in Seq(Entry)
              /\ DOMAIN entries' = DOMAIN entries
              /\ \A id \in DOMAIN entries : entries'[id].event = entries[id].event
<1>1. /\ entries \in Seq(Entry) /\ DOMAIN entries = 1..Len(entries) /\ Len(entries) \in Nat
      /\ \A id \in DOMAIN entries : entries[id] \in Entry
  BY DEF DeadLettersTypeOK
<1>2. ASSUME NEW e \in Events, SendToDeadLetterQueue(e)
      PROVE  /\ entries' \in Seq(Entry)
             /\ DOMAIN entries \subseteq DOMAIN entries'
             /\ \A id \in DOMAIN entries : entries'[id] = entries[id]
             /\ \A id \in DOMAIN entries' \ DOMAIN entries : entries'[id].event = e
  <2> DEFINE new == [event |-> e, processed |-> FALSE]
  <2>1. new \in Entry /\ new.event = e
    BY DEF Entry
  <2>2. entries' = Append(entries, new)
    BY <1>2 DEF SendToDeadLetterQueue
  <2> HIDE DEF new
  <2>3. /\ entries' \in Seq(Entry) /\ DOMAIN entries' = 1..(Len(entries) + 1)
        /\ \A id \in 1..Len(entries) : entries'[id] = entries[id]
        /\ entries'[Len(entries) + 1] = new
    BY <1>1, <2>1, <2>2, AppendProperties
  <2> QED
    BY <1>1, <2>1, <2>3
<1>3. ASSUME NEW i, ReprocessEntry(i)
      PROVE  /\ entries' \in Seq(Entry)
             /\ DOMAIN entries' = DOMAIN entries
             /\ \A id \in DOMAIN entries : entries'[id].event = entries[id].event
  <2>1. entries' = [id \in DOMAIN entries |->
          IF id = i THEN [entries[id] EXCEPT !.processed = TRUE] ELSE entries[id]]
    BY <1>3 DEF ReprocessEntry
  <2>2. ASSUME NEW x \in Entry
        PROVE  /\ [x EXCEPT !.processed = TRUE] \in Entry
               /\ [x EXCEPT !.processed = TRUE].event = x.event
    BY DEF Entry
  <2>3. \A id \in DOMAIN entries : entries'[id] \in Entry
    BY <1>1, <2>1, <2>2
  <2>4. DOMAIN entries' = 1..Len(entries) /\ entries' \in [1..Len(entries) -> Entry]
    BY <1>1, <2>1, <2>3
  <2>5. entries' \in Seq(Entry)
    BY <1>1, <2>4, SeqDef
  <2>6. ASSUME NEW id \in DOMAIN entries
        PROVE  entries'[id].event = entries[id].event
    BY <1>1, <2>1, <2>2, <2>6
  <2> QED
    BY <2>1, <2>5, <2>6
<1> QED
  BY <1>2, <1>3

(* Entries are rows of failed events.                                      *)
LEMMA NextEntries ==
  ASSUME P!FateInv, EntriesCounted, [Next]_vars
  PROVE  EntriesCounted'
<1>1. \A e \in Events : /\ deadLetters[e] \in Nat /\ deadLetters'[e] \in Nat
                        /\ deadLetters'[e] >= deadLetters[e]
  BY PipelineStep, PipelineEffect
<1>2. /\ DeadLettersTypeOK /\ entries \in Seq(Entry)
      /\ \A id \in DOMAIN entries : /\ entries[id].event \in Events
                                    /\ deadLetters[entries[id].event] > 0
  <2>1. /\ DeadLettersTypeOK /\ entries \in Seq(Entry)
        /\ \A id \in DOMAIN entries : deadLetters[entries[id].event] > 0
    BY DEF EntriesCounted, DeadLettersTypeOK
  <2>2. \A id \in DOMAIN entries : entries[id] \in Entry
    BY <2>1
  <2>3. \A x \in Entry : x.event \in Events
    BY DEF Entry
  <2> QED
    BY <2>1, <2>2, <2>3
<1>3. CASE UNCHANGED entries
  BY <1>1, <1>2, <1>3 DEF EntriesCounted, DeadLettersTypeOK
<1>4. ASSUME NEW e \in Events, SendToDeadLetterQueue(e), deadLetters'[e] = deadLetters[e] + 1
      PROVE  EntriesCounted'
  <2>1. /\ entries' \in Seq(Entry) /\ DOMAIN entries \subseteq DOMAIN entries'
        /\ \A id \in DOMAIN entries : entries'[id] = entries[id]
        /\ \A id \in DOMAIN entries' \ DOMAIN entries : entries'[id].event = e
    BY <1>2, <1>4, QueueTypes
  <2>2. \A id \in DOMAIN entries' : deadLetters'[entries'[id].event] > 0
    BY <1>1, <1>2, <1>4, <2>1
  <2> QED
    BY <2>1, <2>2 DEF EntriesCounted, DeadLettersTypeOK
<1>5. ASSUME NEW i, ReprocessEntry(i), deadLetters' = deadLetters
      PROVE  EntriesCounted'
  <2>1. /\ entries' \in Seq(Entry) /\ DOMAIN entries' = DOMAIN entries
        /\ \A id \in DOMAIN entries : entries'[id].event = entries[id].event
    BY <1>2, <1>5, QueueTypes
  <2> QED
    BY <1>2, <1>5, <2>1 DEF EntriesCounted, DeadLettersTypeOK
<1> QED
  BY <1>3, <1>4, <1>5 DEF Next, ProcessorStep, OutboxStep, OperatorStep, vars, processorVars

(* CompositionInv holds throughout.                                        *)
LEMMA SpecComposition == Spec => []CompositionInv
<1>1. Init => CompositionInv
  <2>1. Init => DeliveredWasStored
    BY DEF Init, DeliveredWasStored
  <2>2. Init => RowsExplained
    <3>1. Init => faults = 0 /\ outboxRows = [e \in Events |-> 0]
      BY DEF Init, Processor!Init
    <3>2. ASSUME faults = 0, outboxRows = [e \in Events |-> 0], NEW e \in Events
          PROVE  outboxRows[e] <= IF stage[e] \in {"absent", "size", "schema", "validate",
                                                  "transform", "publish"}
                                  THEN faults ELSE 1 + faults
      <4>1. outboxRows[e] = 0
        BY <3>2
      <4>2. 0 <= faults /\ 0 <= 1 + faults
        BY <3>2
      <4> QED
        BY <4>1, <4>2
    <3> QED
      BY <3>1, <3>2 DEF RowsExplained
  <2>3. Init => EntriesCounted
    BY DEF Init, InitDeadLetters, EntriesCounted, DeadLettersTypeOK
  <2> QED
    BY <2>1, <2>2, <2>3 DEF CompositionInv
<1>2. P!FateInv /\ CompositionInv /\ [Next]_vars => CompositionInv'
  BY NextDelivered, NextExplained, NextEntries DEF CompositionInv
<1> QED
  BY <1>1, <1>2, PipelineHolds, PTL DEF Spec

-----------------------------------------------------------------------------
(* Theorems                                                                *)

(* Every reachable state is well typed.                                    *)
THEOREM TypeCorrect == Spec => []TypeOK
<1>1. P!TypeOK /\ CompositionInv => TypeOK
  <2>1. P!TypeOK => Processor!TypeOK
    BY DEF P!TypeOK, Processor!TypeOK, P!SchemasTypeOK, Processor!SchemasTypeOK,
           P!Registered, Processor!Registered, P!Stages, Processor!Stages,
           P!Running, Processor!Running, P!Reasons, Processor!Reasons
  <2>2. CompositionInv => DeadLettersTypeOK /\ {delivered, settled} \subseteq SUBSET Rows
    BY DEF CompositionInv, DeliveredWasStored, EntriesCounted, Stored
  <2> QED
    BY <2>1, <2>2 DEF TypeOK
<1> QED
  BY <1>1, PipelineHolds, SpecComposition, PTL

(* Whatever happens between the API and the broker, the broker only sees   *)
(* events that a registered schema accepts.                                *)
THEOREM Validity == Spec => []DeliveredIsValid
<1>1. P!OutboxOnlyValidated /\ P!FateInv /\ CompositionInv => DeliveredIsValid
  <2> SUFFICES ASSUME P!OutboxOnlyValidated, P!FateInv, CompositionInv,
                      NEW row \in delivered, NEW e \in Events, row[1] = e
               PROVE  Processor!Valid(e)
    BY DEF DeliveredIsValid, Delivered
  <2>1. row \in Rows /\ row[2] <= outboxRows[e]
    BY DEF CompositionInv, DeliveredWasStored, Stored
  <2>2. row[2] \in Nat /\ row[2] >= 1
    BY <2>1, OrchestronAssumption DEF Rows
  <2>3. outboxRows[e] \in Nat
    BY DEF P!FateInv, P!FateTypeOK
  <2>4. P!Valid(e)
    BY <2>1, <2>2, <2>3 DEF P!OutboxOnlyValidated
  <2> QED
    BY <2>4 DEF P!Valid, Processor!Valid, P!Registered, Processor!Registered
<1> QED
  BY <1>1, PipelineHolds, SpecComposition, PTL

(* A dead letter stays dead: no event in the dead letter queue reaches the *)
(* broker, also when an operator has it "reprocessed".                     *)
DeadLettersStayDead == \A id \in DOMAIN entries : ~Delivered(entries[id].event)

(* No event of the dead letter queue reaches the broker, and marking it as *)
(* processed does not bring it there.                                      *)
THEOREM Dead == Spec => []DeadLettersStayDead
<1>1. P!ExclusiveFate /\ P!FateInv /\ CompositionInv => DeadLettersStayDead
  <2> SUFFICES ASSUME P!ExclusiveFate, P!FateInv, CompositionInv,
                      NEW id \in DOMAIN entries, NEW row \in delivered,
                      row[1] = entries[id].event
               PROVE  FALSE
    BY DEF DeadLettersStayDead, Delivered
  <2>1. row \in Rows /\ row[2] <= outboxRows[row[1]]
    BY DEF CompositionInv, DeliveredWasStored, Stored
  <2>2. row[1] \in Events /\ row[2] \in Nat /\ row[2] >= 1
    BY <2>1, OrchestronAssumption DEF Rows
  <2>3. deadLetters[row[1]] > 0
    BY DEF CompositionInv, EntriesCounted
  <2>4. outboxRows[row[1]] \in Nat
    BY <2>2 DEF P!FateInv, P!FateTypeOK
  <2> QED
    BY <2>1, <2>2, <2>3, <2>4 DEF P!ExclusiveFate
<1> QED
  BY <1>1, PipelineHolds, SpecComposition, PTL

(* One accepted event makes as many messages as rows, and a row more only  *)
(* for an INSERT whose answer was lost.                                    *)
MessagesAccounted ==
  \A e \in Events :
    \A row \in delivered : row[1] = e => row[2] <= 1 + faults

(* Every message of an event beyond the first goes back to an INSERT whose *)
(* answer was lost.                                                        *)
THEOREM Messages == Spec => []MessagesAccounted
<1>1. P!FateInv /\ CompositionInv => MessagesAccounted
  <2> SUFFICES ASSUME P!FateInv, CompositionInv, NEW e \in Events,
                      NEW row \in delivered, row[1] = e
               PROVE  row[2] <= 1 + faults
    BY DEF MessagesAccounted
  <2>1. row \in Rows /\ row[2] <= outboxRows[e]
    BY DEF CompositionInv, DeliveredWasStored, Stored
  <2>2. row[2] \in Nat
    BY <2>1, OrchestronAssumption DEF Rows
  <2>3. MaxFaults \in Nat
    BY OrchestronAssumption
  <2>4. outboxRows[e] \in Nat /\ faults \in Nat
    BY <2>3 DEF P!FateInv, P!FateTypeOK
  <2>5. outboxRows[e] <= 1 + faults
    BY <2>4 DEF CompositionInv, RowsExplained
  <2> QED
    BY <2>1, <2>2, <2>4, <2>5
<1> QED
  BY <1>1, PipelineHolds, SpecComposition, PTL

-----------------------------------------------------------------------------
(* Refinement                                                              *)

(* Only what is stored is delivered, and only that is recorded, so the     *)
(* place of an event differs from its fate in the pipeline only when it is *)
(* stored.                                                                 *)
LEMMA PlaceAndFate ==
  ASSUME P!FateInv, DeliveredWasStored, NEW e \in Events
  PROVE  /\ Settled(e) => Delivered(e)
         /\ \A row \in Stored : row[1] = e => P!Fate(e) = "stored"
         /\ Delivered(e) => P!Fate(e) = "stored"
         /\ ~Delivered(e) => Place(e) = P!Fate(e)
<1>1. Settled(e) => Delivered(e)
  BY DEF DeliveredWasStored, Settled, Delivered
<1>2. ASSUME NEW row \in Stored, row[1] = e PROVE P!Fate(e) = "stored"
  <2>1. row \in Rows /\ row[2] <= outboxRows[e]
    BY <1>2 DEF Stored
  <2>2. row[2] \in Nat /\ row[2] >= 1
    BY <2>1, OrchestronAssumption DEF Rows
  <2>3. outboxRows[e] \in Nat
    BY DEF P!FateInv, P!FateTypeOK
  <2>4. outboxRows[e] > 0
    BY <2>1, <2>2, <2>3
  <2> QED
    BY <2>4 DEF P!Fate
<1>3. Delivered(e) => P!Fate(e) = "stored"
  BY <1>2 DEF Delivered, DeliveredWasStored
<1>4. ~Delivered(e) => Place(e) = P!Fate(e)
  BY <1>1 DEF Place, P!Fate, Processor!Fate, P!Running, Processor!Running
<1> QED
  BY <1>1, <1>2, <1>3, <1>4

(* At the start no event has arrived anywhere.                             *)
LEMMA InitJourney == Init => Journey!Init
<1> SUFFICES ASSUME Init PROVE [e \in Events |-> Place(e)] = [e \in Events |-> "absent"]
  BY DEF Journey!Init
<1>1. ASSUME NEW e \in Events PROVE Place(e) = "absent"
  <2>1. /\ delivered = {} /\ settled = {} /\ stage[e] = "absent"
        /\ outboxRows[e] = 0 /\ deadLetters[e] = 0
    BY DEF Init, Processor!Init
  <2> QED
    BY <2>1 DEF Place, Settled, Delivered, Processor!Fate, Processor!Running
<1> QED
  BY <1>1

(* A step of the pipeline: what moves is not delivered yet, and what is    *)
(* delivered stays stored.                                                 *)
LEMMA PipelineJourney ==
  ASSUME P!FateInv, P!FateInv', DeliveredWasStored, DeliveredWasStored',
         [P!Next]_P!vars, UNCHANGED <<delivered, settled>>
  PROVE  [Journey!JourneyNext]_([e \in Events |-> Place(e)])
<1> DEFINE fate == [e \in Events |-> P!Fate(e)]
           place == [e \in Events |-> Place(e)]
<1>1. [P!Abstract!Next]_fate
  BY P!NextRefines, PipelineAssumptions
<1>2. \A e \in Events : ~Delivered(e) => place[e] = fate[e] /\ place'[e] = fate'[e]
  <2>1. \A e \in Events : ~Delivered(e) => Place(e) = P!Fate(e)
    BY PlaceAndFate
  <2>2. ASSUME NEW e \in Events, ~Delivered(e)' PROVE Place(e)' = P!Fate(e)'
    <3>1. ~Settled(e)'
      BY <2>2 DEF DeliveredWasStored, Settled, Delivered
    <3> QED
      BY <2>2, <3>1 DEF Place, P!Fate, Processor!Fate, P!Running, Processor!Running
  <2>3. \A e \in Events : Delivered(e)' <=> Delivered(e)
    BY DEF Delivered
  <2> QED
    BY <2>1, <2>2, <2>3
<1>3. \A e \in Events : Delivered(e) => fate[e] = "stored" /\ place'[e] = place[e]
  <2>1. \A e \in Events : Delivered(e) => fate[e] = "stored"
    BY PlaceAndFate
  <2>2. \A e \in Events : Delivered(e) => Place(e)' = Place(e)
    BY DEF Place, Settled, Delivered
  <2> QED
    BY <2>1, <2>2
<1>4. place = [e \in Events |-> place[e]] /\ place' = [e \in Events |-> place'[e]]
  OBVIOUS
<1>5. CASE fate' = fate
  <2>1. \A e \in Events : place'[e] = place[e]
    BY <1>2, <1>3, <1>5
  <2>2. place' = place
    BY <1>4, <2>1
  <2> QED
    BY <2>2
<1>6. ASSUME NEW e \in Events, NEW x, NEW y, x # "stored", fate[e] = x, fate' = [fate EXCEPT ![e] = y]
      PROVE  place[e] = x /\ place' = [place EXCEPT ![e] = y]
  <2>1. ~Delivered(e) /\ place[e] = x /\ place'[e] = y
    BY <1>2, <1>3, <1>6
  <2>2. \A f \in Events \ {e} : place'[f] = place[f]
    BY <1>2, <1>3, <1>6
  <2> QED
    BY <1>4, <2>1, <2>2
<1>7. ASSUME NEW e \in Events, P!Abstract!Accept(e) \/ P!Abstract!Store(e) \/ P!Abstract!Bury(e)
      PROVE  Journey!Next
  <2>1. CASE P!Abstract!Accept(e)
    <3>1. Journey!Accept(e)
      BY <1>6, <2>1 DEF P!Abstract!Accept, Journey!Accept
    <3> QED
      BY <3>1 DEF Journey!Next
  <2>2. CASE P!Abstract!Store(e)
    <3>1. Journey!Store(e)
      BY <1>6, <2>2 DEF P!Abstract!Store, Journey!Store
    <3> QED
      BY <3>1 DEF Journey!Next
  <2>3. CASE P!Abstract!Bury(e)
    <3>1. Journey!Bury(e)
      BY <1>6, <2>3 DEF P!Abstract!Bury, Journey!Bury
    <3> QED
      BY <3>1 DEF Journey!Next
  <2> QED
    BY <1>7, <2>1, <2>2, <2>3
<1>8. ASSUME NEW S \in SUBSET Events, P!Abstract!Lose(S) PROVE Journey!Next
  <2>1. \A e \in S : fate[e] = "accepted" /\ fate'[e] = "lost"
    BY <1>8 DEF P!Abstract!Lose
  <2>2. \A e \in Events \ S : fate'[e] = fate[e]
    BY <1>8 DEF P!Abstract!Lose
  <2>3. \A e \in S : place[e] = "accepted" /\ place'[e] = "lost"
    BY <1>2, <1>3, <2>1
  <2>4. \A e \in Events \ S : place'[e] = place[e]
    BY <1>2, <1>3, <2>2
  <2>5. Journey!Lose(S)
    BY <1>4, <2>3, <2>4 DEF Journey!Lose
  <2> QED
    BY <2>5 DEF Journey!Next
<1> QED
  BY <1>1, <1>5, <1>7, <1>8 DEF P!Abstract!Next, Journey!JourneyNext

(* A step of the outbox loop takes the event of its row one place on, the  *)
(* first time; a further row of the event changes nothing.                 *)
LEMMA OutboxJourney ==
  ASSUME P!FateInv, DeliveredWasStored, NEW row \in Rows, OutboxStep(row)
  PROVE  [Journey!JourneyNext]_([e \in Events |-> Place(e)])
<1> DEFINE place == [e \in Events |-> Place(e)]
           e == row[1]
<1>1. e \in Events
  BY DEF Rows
<1>2. \A f \in Events : Processor!Fate(f)' = Processor!Fate(f)
  BY DEF OutboxStep, processorVars, Processor!Fate, Processor!Running
<1>3. CASE Outbox!Deliver(row)
  <2>1. row \in Stored /\ delivered' = delivered \cup {row} /\ settled' = settled
    BY <1>3 DEF Outbox!Deliver
  <2>2. /\ \A f \in Events : Settled(f)' = Settled(f)
        /\ \A f \in Events \ {e} : Delivered(f)' = Delivered(f)
        /\ Delivered(e)'
    BY <1>1, <2>1 DEF Settled, Delivered
  <2>3. \A f \in Events \ {e} : Place(f)' = Place(f)
    BY <1>2, <2>2 DEF Place
  <2>4. CASE Delivered(e)
    <3>1. Place(e)' = Place(e)
      BY <1>1, <2>2, <2>4 DEF Place
    <3>2. place' = place
      BY <1>1, <2>3, <3>1
    <3> QED
      BY <3>2
  <2>5. CASE ~Delivered(e)
    <3>1. ~Settled(e) /\ P!Fate(e) = "stored" /\ Place(e) = P!Fate(e)
      BY <1>1, <2>1, <2>5, PlaceAndFate
    <3>2. Place(e)' = "delivered"
      BY <1>1, <2>2, <3>1 DEF Place
    <3>3. place[e] = "stored" /\ place' = [place EXCEPT ![e] = "delivered"]
      BY <1>1, <2>3, <3>1, <3>2
    <3>4. Journey!Deliver(e)
      BY <3>3 DEF Journey!Deliver
    <3> QED
      BY <1>1, <3>4 DEF Journey!JourneyNext
  <2> QED
    BY <2>4, <2>5
<1>4. CASE Outbox!Settle(row)
  <2>1. row \in delivered /\ settled' = settled \cup {row} /\ delivered' = delivered
    BY <1>4 DEF Outbox!Settle
  <2>2. /\ \A f \in Events : Delivered(f)' = Delivered(f)
        /\ \A f \in Events \ {e} : Settled(f)' = Settled(f)
        /\ Settled(e)' /\ Delivered(e)
    BY <1>1, <2>1 DEF Settled, Delivered
  <2>3. \A f \in Events \ {e} : Place(f)' = Place(f)
    BY <1>2, <2>2 DEF Place
  <2>4. Place(e)' = "settled" /\ Place(e) \in {"delivered", "settled"}
    BY <1>1, <2>2 DEF Place
  <2>5. CASE Place(e) = "settled"
    <3>1. place' = place
      BY <1>1, <2>3, <2>4, <2>5
    <3> QED
      BY <3>1
  <2>6. CASE Place(e) = "delivered"
    <3>1. place[e] = "delivered" /\ place' = [place EXCEPT ![e] = "settled"]
      BY <1>1, <2>3, <2>4, <2>6
    <3>2. Journey!Settle(e)
      BY <3>1 DEF Journey!Settle
    <3> QED
      BY <1>1, <3>2 DEF Journey!JourneyNext
  <2> QED
    BY <2>4, <2>5, <2>6
<1> QED
  BY <1>3, <1>4 DEF OutboxStep

(* The service as a whole implements EventJourney: an accepted event ends  *)
(* recorded as delivered, in the dead letter queue or lost, in one of them *)
(* for good, and it is never delivered but from the outbox.                *)
THEOREM Refinement == Spec => ImplementsJourney
<1>1. P!FateInv /\ P!FateInv' /\ CompositionInv /\ CompositionInv' /\ [Next]_vars =>
        [Journey!JourneyNext]_([e \in Events |-> Place(e)])
  <2> SUFFICES ASSUME P!FateInv, P!FateInv', CompositionInv, CompositionInv', [Next]_vars
               PROVE  [Journey!JourneyNext]_([e \in Events |-> Place(e)])
    OBVIOUS
  <2>1. DeliveredWasStored /\ DeliveredWasStored'
    BY DEF CompositionInv
  <2>2. ASSUME UNCHANGED <<delivered, settled>>
        PROVE  [Journey!JourneyNext]_([e \in Events |-> Place(e)])
    BY <2>1, <2>2, PipelineStep, PipelineJourney
  <2> QED
    BY <2>1, <2>2, OutboxJourney DEF Next, ProcessorStep, OperatorStep, vars
<1> QED
  BY <1>1, InitJourney, PipelineHolds, SpecComposition, PTL
     DEF Spec, ImplementsJourney, Journey!JourneySpec

(* At the start nothing is stored.                                         *)
LEMMA NothingStored == Init => Outbox!Init
<1> SUFFICES ASSUME Init PROVE Stored = {}
  BY DEF Init, Outbox!Init
<1>1. outboxRows = [e \in Events |-> 0]
  BY DEF Init, Processor!Init
<1>2. ASSUME NEW row \in Rows PROVE row[1] \in Events /\ row[2] \in Nat /\ row[2] >= 1
  BY <1>2, OrchestronAssumption DEF Rows
<1> QED
  BY <1>1, <1>2 DEF Stored

(* An INSERT of the pipeline stores one row, and one there is room for.    *)
LEMMA InsertStores ==
  ASSUME P!FateInv, P!FateInv', RowsExplained', UNCHANGED <<delivered, settled>>,
         NEW e \in Events, outboxRows' = [outboxRows EXCEPT ![e] = @ + 1]
  PROVE  Outbox!Next
<1> DEFINE new == <<e, outboxRows[e] + 1>>
<1>1. /\ outboxRows \in [Events -> Nat] /\ outboxRows' \in [Events -> Nat]
      /\ MaxFaults \in Nat /\ faults' \in 0..MaxFaults
  BY OrchestronAssumption DEF P!FateInv, P!FateTypeOK
<1>2. /\ outboxRows[e] \in Nat /\ outboxRows'[e] = outboxRows[e] + 1
      /\ \A f \in Events \ {e} : outboxRows'[f] = outboxRows[f]
  BY <1>1
<1>3. outboxRows'[e] <= faults' \/ outboxRows'[e] <= 1 + faults'
  BY DEF RowsExplained
<1>4. outboxRows[e] + 1 \in 1..(1 + MaxFaults)
  BY <1>1, <1>2, <1>3
<1>5. new \in Rows /\ new[1] = e /\ new[2] = outboxRows[e] + 1
  BY <1>4 DEF Rows
<1>6. \A row \in Rows : row[1] \in Events /\ row[2] \in Nat /\ row = <<row[1], row[2]>>
  BY <1>1 DEF Rows
<1> HIDE DEF new
<1>7. new \notin Stored
  BY <1>2, <1>5 DEF Stored
<1>8. ASSUME NEW row \in Rows
      PROVE  row[2] <= outboxRows'[row[1]] <=> row[2] <= outboxRows[row[1]] \/ row = new
  <2>1. CASE row[1] # e
    BY <1>2, <1>5, <1>6, <2>1
  <2>2. CASE row[1] = e
    <3>1. row = new <=> row[2] = outboxRows[e] + 1
      BY <1>5, <1>6, <2>2 DEF new
    <3> QED
      BY <1>2, <1>6, <2>2, <3>1
  <2> QED
    BY <2>1, <2>2
<1>9. Stored' = Stored \cup {new}
  BY <1>5, <1>8 DEF Stored, Rows
<1> QED
  BY <1>5, <1>7, <1>9 DEF Outbox!Next, Outbox!Store

(* The outbox of the whole: its rows are the INSERTs of the pipeline, and  *)
(* the broker gets them as the contract says.                              *)
OutboxKeepsContract == Outbox!Spec

(* In the composition the outbox keeps the contract that Outbox, with its  *)
(* loops and crashes, implements: no event is handed to the broker before  *)
(* its row is stored, none recorded before it is handed over, and no row   *)
(* disappears, whatever the pipeline, its restarts and the operator do.    *)
THEOREM OutboxContractKept == Spec => OutboxKeepsContract
<1>1. P!FateInv /\ P!FateInv' /\ CompositionInv /\ CompositionInv' /\ [Next]_vars =>
        [Outbox!Next]_(Outbox!vars)
  <2> SUFFICES ASSUME P!FateInv, P!FateInv', CompositionInv, CompositionInv', [Next]_vars
               PROVE  [Outbox!Next]_(Outbox!vars)
    OBVIOUS
  <2>1. RowsExplained'
    BY DEF CompositionInv
  <2>2. ASSUME NEW row \in Rows, OutboxStep(row) PROVE Outbox!Next
    BY <2>2 DEF OutboxStep, Outbox!Next
  <2>3. CASE UNCHANGED <<outboxRows, delivered, settled>>
    BY <2>3 DEF Outbox!vars, Stored, Rows
  <2>4. ASSUME NEW e \in Events, P!PublishEvent(e) \/ P!PublishUnacknowledged(e),
               UNCHANGED <<delivered, settled>>
        PROVE  Outbox!Next
    <3>1. outboxRows' = [outboxRows EXCEPT ![e] = @ + 1]
      BY <2>4 DEF P!PublishEvent, P!PublishUnacknowledged
    <3> QED
      BY <2>1, <2>4, <3>1, InsertStores
  <2>5. \/ outboxRows' = outboxRows
        \/ \E e \in Events : P!PublishEvent(e) \/ P!PublishUnacknowledged(e)
    BY PipelineStep DEF P!Next, P!ProcessEvent, P!ReceiveEvent, P!Register,
       P!ValidatePayloadSize, P!GetSchema, P!Validate, P!TransformAndEnrich,
       P!SendToDeadLetterQueue, P!DeadLetterFails, P!Stop, P!Panic, P!Die, P!Restart,
       P!vars, P!processorVars
  <2>6. (\E row \in Rows : OutboxStep(row)) \/ UNCHANGED <<delivered, settled>>
    BY DEF Next, ProcessorStep, OperatorStep, vars
  <2> QED
    BY <2>2, <2>3, <2>4, <2>5, <2>6
<1> QED
  BY <1>1, NothingStored, PipelineHolds, SpecComposition, PTL
     DEF Spec, OutboxKeepsContract, Outbox!Spec

=============================================================================
