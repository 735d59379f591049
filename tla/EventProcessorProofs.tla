------------------------ MODULE EventProcessorProofs ------------------------
(***************************************************************************)
(* Theorems of EventProcessor for every set of events, types, versions and *)
(* schemas, every setting and every bound on faults.                       *)
(***************************************************************************)
EXTENDS EventProcessor, WellFoundedInduction, TLAPS

-----------------------------------------------------------------------------
(* Types                                                                   *)

(* The two tables and the position of each goroutine: what the fate of an  *)
(* event depends on.                                                       *)
FateTypeOK ==
  /\ stage \in [Events -> Stages]
  /\ outboxRows \in [Events -> Nat]
  /\ deadLetters \in [Events -> Nat]
  /\ faults \in 0..MaxFaults

(* A fault stays within the bound and is counted.                          *)
LEMMA FaultType == ASSUME faults \in 0..MaxFaults, Fault
                   PROVE  faults' \in 0..MaxFaults /\ faults' > 0
<1>1. MaxFaults \in Nat
  BY ProcessorAssumption
<1> QED
  BY <1>1 DEF Fault

(* Where an event stands limits the tables it can be in.                   *)
Placed(e) ==
  /\ outboxRows[e] = 0 \/ deadLetters[e] = 0
  /\ deadLetters[e] > 0 => stage[e] = "returned"
  /\ outboxRows[e] > 0 => stage[e] \in {"publish", "returned", "killed"}

(* ExclusiveFate alone is not inductive: it must be known that an event on *)
(* its way to the dead letter queue has no row in the outbox.              *)
FateInv == FateTypeOK /\ \A e \in Events : Placed(e)

-----------------------------------------------------------------------------
(* One lemma on what a step does to the fate of events                     *)

(* Event e moves; every other event stays where it is.                     *)
Moves(e) ==
  /\ \A f \in Events \ {e} : /\ stage'[f] = stage[f]
                             /\ outboxRows'[f] = outboxRows[f]
                             /\ deadLetters'[f] = deadLetters[f]

(* A goroutine goes on without writing to a table.                         *)
Advances(e) ==
  /\ Moves(e)
  /\ outboxRows'[e] = outboxRows[e] /\ deadLetters'[e] = deadLetters[e]
  /\ \/ stage[e] = "absent" /\ stage'[e] = "size"
     \/ /\ stage[e] \in {"size", "schema", "validate", "transform"}
        /\ stage'[e] \in Running

(* A goroutine inserts a row into the outbox.                              *)
Stores(e) ==
  /\ Moves(e)
  /\ stage[e] = "publish" /\ stage'[e] \in {"publish", "returned"}
  /\ outboxRows'[e] = outboxRows[e] + 1 /\ deadLetters'[e] = deadLetters[e]

(* A goroutine ends in the dead letter queue, or fails to get there.       *)
Rejects(e) ==
  /\ Moves(e)
  /\ stage[e] = "reject" /\ stage'[e] = "returned"
  /\ outboxRows'[e] = outboxRows[e]
  /\ \/ deadLetters'[e] = deadLetters[e] + 1
     \/ deadLetters'[e] = deadLetters[e] /\ faults' > 0

(* The process ends and its goroutines with it.                            *)
Ends ==
  /\ stage' = [e \in Events |-> IF stage[e] \in Running THEN "killed" ELSE stage[e]]
  /\ outboxRows' = outboxRows /\ deadLetters' = deadLetters
  /\ faults' > 0 \/ retryBaseDelay <= 0

Nothing == UNCHANGED <<stage, outboxRows, deadLetters>>

Effect ==
  \/ Nothing
  \/ \E e \in Events : Advances(e) \/ Stores(e) \/ Rejects(e)
  \/ Ends

(* Every step has one of the effects above, and faults only grow.          *)
LEMMA StepEffect ==
  ASSUME FateTypeOK, [Next]_vars
  PROVE  /\ Effect
         /\ faults' \in 0..MaxFaults /\ faults' >= faults
         /\ retryBaseDelay' = retryBaseDelay
<1> DEFINE Frame == /\ faults' \in 0..MaxFaults /\ faults' >= faults
                    /\ retryBaseDelay' = retryBaseDelay
<1>m. MaxFaults \in Nat
  BY ProcessorAssumption
<1>1. ASSUME NEW e \in Events, ReceiveEvent(e) PROVE Advances(e) /\ Frame
  BY <1>1 DEF ReceiveEvent, Goto, Advances, Moves, FateTypeOK
<1>2. ASSUME NEW e \in Events, ValidatePayloadSize(e) PROVE Advances(e) /\ Frame
  BY <1>2 DEF ValidatePayloadSize, Reject, Goto, Advances, Moves, FateTypeOK, Running
<1>3. ASSUME NEW e \in Events, GetSchema(e) PROVE Advances(e) /\ Frame
  BY <1>3 DEF GetSchema, Reject, Goto, Advances, Moves, FateTypeOK, Running
<1>4. ASSUME NEW e \in Events, Validate(e) PROVE Advances(e) /\ Frame
  BY <1>4 DEF Validate, Reject, Goto, Advances, Moves, FateTypeOK, Running
<1>5. ASSUME NEW e \in Events, TransformAndEnrich(e) PROVE Advances(e) /\ Frame
  BY <1>5 DEF TransformAndEnrich, Goto, Advances, Moves, FateTypeOK, Running
<1>6. ASSUME NEW e \in Events, PublishEvent(e) PROVE Stores(e) /\ Frame
  BY <1>6 DEF PublishEvent, Goto, Stores, Moves, FateTypeOK
<1>7. ASSUME NEW e \in Events, PublishUnacknowledged(e) PROVE Stores(e) /\ Frame
  BY <1>m, <1>7 DEF PublishUnacknowledged, Fault, Stores, Moves, FateTypeOK
<1>8. ASSUME NEW e \in Events, SendToDeadLetterQueue(e) PROVE Rejects(e) /\ Frame
  BY <1>8 DEF SendToDeadLetterQueue, Goto, Rejects, Moves, FateTypeOK
<1>9. ASSUME NEW e \in Events, DeadLetterFails(e) PROVE Rejects(e) /\ Frame
  BY <1>m, <1>9 DEF DeadLetterFails, Goto, Fault, Rejects, Moves, FateTypeOK
<1>10. CASE Stop
  BY <1>m, <1>10 DEF Stop, Die, Fault, Effect, Ends, FateTypeOK
<1>11. ASSUME NEW e \in Events, Panic(e) PROVE Ends /\ Frame
  BY <1>11 DEF Panic, Die, Ends, FateTypeOK
<1>12. CASE Restart
  BY <1>12 DEF Restart, Effect, Nothing, FateTypeOK
<1>13. ASSUME NEW t \in EventTypes, NEW v \in Versions, NEW text \in SchemaTexts,
              Register(t, v, text)
       PROVE  Nothing /\ Frame
  BY <1>13 DEF Register, processorVars, Nothing, FateTypeOK
<1>14. CASE UNCHANGED vars
  BY <1>14 DEF vars, processorVars, Effect, Nothing, FateTypeOK
<1> QED
  BY <1>1, <1>2, <1>3, <1>4, <1>5, <1>6, <1>7, <1>8, <1>9, <1>10, <1>11, <1>12,
     <1>13, <1>14 DEF Next, ProcessEvent, Effect

-----------------------------------------------------------------------------
(* Exclusive fate                                                          *)

(* FateInv is inductive.                                                   *)
LEMMA NextFate == FateInv /\ [Next]_vars => FateInv'
<1> SUFFICES ASSUME FateInv, [Next]_vars PROVE FateInv'
  OBVIOUS
<1>0. FateTypeOK
  BY DEF FateInv
<1>1. Effect /\ faults' \in 0..MaxFaults
  BY <1>0, StepEffect
<1>2. stage' \in [Events -> Stages]
      /\ outboxRows' \in [Events -> Nat] /\ deadLetters' \in [Events -> Nat]
  <2>1. [Next]_vars => /\ stage' \in [Events -> Stages]
                       /\ outboxRows' \in [Events -> Nat]
                       /\ deadLetters' \in [Events -> Nat]
    BY <1>0 DEF FateTypeOK, Stages, Running, Next, ProcessEvent, ReceiveEvent,
       ValidatePayloadSize, GetSchema, Validate, TransformAndEnrich, PublishEvent,
       PublishUnacknowledged, SendToDeadLetterQueue, DeadLetterFails, Panic, Stop, Die,
       Restart, Register, Reject, Goto, vars, processorVars
  <2> QED
    BY <2>1
<1>3. ASSUME NEW e \in Events PROVE Placed(e)'
  BY <1>0, <1>1, <1>2 DEF FateInv, FateTypeOK, Placed, Effect, Nothing, Moves, Advances,
     Stores, Rejects, Ends, Running
<1> QED
  BY <1>1, <1>2, <1>3 DEF FateInv, FateTypeOK

(* FateInv holds throughout.                                               *)
LEMMA SpecFate == Spec => []FateInv
<1>1. Init => FateInv
  <2>1. MaxFaults \in Nat
    BY ProcessorAssumption
  <2> QED
    BY <2>1 DEF Init, FateInv, FateTypeOK, Placed, Stages
<1> QED
  BY <1>1, NextFate, PTL DEF Spec

(* No event is ever in the outbox and in the dead letter queue.            *)
THEOREM Exclusive == Spec => []ExclusiveFate
<1>1. FateInv => ExclusiveFate
  BY DEF FateInv, Placed, ExclusiveFate
<1> QED
  BY <1>1, SpecFate, PTL

-----------------------------------------------------------------------------
(* Losses                                                                  *)

DelayTypeOK == retryBaseDelay \in Int

(* An event that is finished with and in no table: with a fault or a panic.*)
LEMMA NextLoss ==
  ASSUME FateInv, DelayTypeOK, LossIsExplained, [Next]_vars
  PROVE  LossIsExplained' /\ DelayTypeOK'
<1>0. /\ FateTypeOK /\ Effect /\ FateInv'
      /\ faults' \in 0..MaxFaults /\ faults' >= faults /\ retryBaseDelay' = retryBaseDelay
  BY StepEffect, NextFate DEF FateInv
<1>d. DelayTypeOK'
  BY <1>0 DEF DelayTypeOK
<1>1. CASE faults > 0 \/ retryBaseDelay <= 0
  BY <1>0, <1>1, <1>d DEF LossIsExplained, FateTypeOK
<1>2. CASE ~(faults > 0 \/ retryBaseDelay <= 0) /\ ~(faults' > 0)
  <2>1. SUFFICES ASSUME NEW e \in Events, Lost(e)' PROVE FALSE
    BY <1>d DEF LossIsExplained
  <2>2. ~Lost(e)
    BY <1>2 DEF LossIsExplained
  <2>3. ~Ends
    BY <1>2 DEF Ends
  <2>4. outboxRows[e] \in Nat /\ deadLetters[e] \in Nat
    BY <1>0 DEF FateTypeOK
  <2>5. CASE Nothing
    BY <2>1, <2>2, <2>5 DEF Nothing, Lost, Kept
  <2>6. ASSUME NEW f \in Events, Advances(f) PROVE FALSE
    BY <2>1, <2>2, <2>6 DEF Advances, Moves, Lost, Kept, Running
  <2>7. ASSUME NEW f \in Events, Stores(f) PROVE FALSE
    BY <2>1, <2>2, <2>4, <2>7 DEF Stores, Moves, Lost, Kept
  <2>8. ASSUME NEW f \in Events, Rejects(f) PROVE FALSE
    BY <1>2, <2>1, <2>2, <2>4, <2>8 DEF Rejects, Moves, Lost, Kept
  <2> QED
    BY <1>0, <2>3, <2>5, <2>6, <2>7, <2>8 DEF Effect
<1>3. CASE faults' > 0
  BY <1>3, <1>d DEF LossIsExplained
<1> QED
  BY <1>1, <1>2, <1>3

(* Without a database fault, a process that ends or an unset retry_backoff *)
(* no accepted event disappears.                                           *)
THEOREM NoUnexplainedLoss == Spec => []LossIsExplained
<1>1. Init => LossIsExplained /\ DelayTypeOK
  BY ProcessorAssumption DEF Init, LossIsExplained, Lost, DelayTypeOK
<1>2. FateInv /\ DelayTypeOK /\ LossIsExplained /\ [Next]_vars =>
        LossIsExplained' /\ DelayTypeOK'
  BY NextLoss
<1> QED
  BY <1>1, <1>2, SpecFate, PTL DEF Spec

-----------------------------------------------------------------------------
(* Validation                                                              *)

(* An event is past validation only with a payload some registered schema  *)
(* accepts, and the registry only grows.                                   *)
ValidationInv ==
  /\ FateTypeOK
  /\ SchemasTypeOK
  /\ \A e \in Events :
       /\ stage[e] \in {"schema", "validate"} => e \notin Oversized
       /\ stage[e] \in {"transform", "publish"} \/ outboxRows[e] > 0 => Valid(e)

(* Registration keeps every schema that was there.                         *)
LEMMA RegistryGrows ==
  ASSUME SchemasTypeOK, NEW t \in EventTypes, NEW v \in Versions, NEW text \in SchemaTexts,
         RegisterSchema(t, v, text)
  PROVE  /\ SchemasTypeOK'
         /\ \A u \in EventTypes :
              /\ DOMAIN schemas[u] \subseteq DOMAIN schemas'[u]
              /\ \A w \in DOMAIN schemas[u] : schemas'[u][w] = schemas[u][w]
<1>1. CASE UNCHANGED schemas
  BY <1>1 DEF SchemasTypeOK, Registered
<1>2. CASE schemas' = [schemas EXCEPT ![t] =
             [w \in Registered(t) \cup {v} |-> IF w = v THEN text ELSE @[w]]]
           /\ v \notin Registered(t)
  <2>1. schemas'[t] = [w \in Registered(t) \cup {v} |->
                         IF w = v THEN text ELSE schemas[t][w]]
    BY <1>2 DEF SchemasTypeOK
  <2>2. \A u \in EventTypes \ {t} : schemas'[u] = schemas[u]
    BY <1>2 DEF SchemasTypeOK
  <2>3. DOMAIN schemas' = EventTypes /\ schemas' = [u \in EventTypes |-> schemas'[u]]
    BY <1>2 DEF SchemasTypeOK
  <2>4. /\ DOMAIN schemas'[t] \subseteq Versions
        /\ schemas'[t] \in [DOMAIN schemas'[t] -> SchemaTexts]
    BY <2>1 DEF SchemasTypeOK, Registered
  <2>5. SchemasTypeOK'
    BY <2>2, <2>3, <2>4 DEF SchemasTypeOK, Registered
  <2> QED
    BY <1>2, <2>1, <2>2, <2>5 DEF Registered
<1> QED
  BY <1>1, <1>2 DEF RegisterSchema

(* Only a registration touches the registry.                               *)
LEMMA OnlyRegisterAdds ==
  ASSUME [Next]_vars
  PROVE  schemas' = schemas \/ \E t \in EventTypes, v \in Versions, text \in SchemaTexts :
                                Register(t, v, text)
BY DEF Next, ProcessEvent, ReceiveEvent, ValidatePayloadSize, GetSchema, Validate,
   TransformAndEnrich, PublishEvent, PublishUnacknowledged, SendToDeadLetterQueue,
   DeadLetterFails, Panic, Stop, Die, Restart, vars

(* ValidationInv is inductive: a registration keeps Valid, and no other    *)
(* step touches the schemas.                                               *)
LEMMA NextValidation == ValidationInv /\ FateInv /\ [Next]_vars => ValidationInv'
<1> SUFFICES ASSUME ValidationInv, FateInv, [Next]_vars PROVE ValidationInv'
  OBVIOUS
<1>0. FateTypeOK /\ FateTypeOK'
  BY NextFate DEF ValidationInv, FateInv
<1>t. TypeOf \in [Events -> EventTypes]
  BY ProcessorAssumption
<1>1. ASSUME NEW t \in EventTypes, NEW v \in Versions, NEW text \in SchemaTexts,
             Register(t, v, text)
      PROVE  ValidationInv'
  <2>1. /\ SchemasTypeOK'
        /\ \A u \in EventTypes :
              /\ DOMAIN schemas[u] \subseteq DOMAIN schemas'[u]
              /\ \A w \in DOMAIN schemas[u] : schemas'[u][w] = schemas[u][w]
    BY <1>1, RegistryGrows DEF Register, ValidationInv
  <2>2. ASSUME NEW e \in Events, Valid(e) PROVE Valid(e)'
    <3>1. PICK v1 \in DOMAIN schemas[TypeOf[e]] :
            /\ schemas[TypeOf[e]][v1] \notin Malformed
            /\ e \in Accepts[schemas[TypeOf[e]][v1]]
      BY <2>2 DEF Valid, Registered
    <3>2. v1 \in DOMAIN schemas'[TypeOf[e]]
          /\ schemas'[TypeOf[e]][v1] = schemas[TypeOf[e]][v1]
      BY <1>t, <2>1, <3>1
    <3> QED
      BY <2>2, <3>1, <3>2 DEF Valid, Registered
  <2>3. stage' = stage /\ outboxRows' = outboxRows
    BY <1>1 DEF Register, processorVars
  <2> QED
    BY <1>0, <2>1, <2>2, <2>3 DEF ValidationInv
<1>2. CASE schemas' = schemas
  <2>1. SchemasTypeOK' /\ \A e \in Events : Valid(e)' <=> Valid(e)
    BY <1>2 DEF ValidationInv, SchemasTypeOK, Registered, Valid
  <2>2. ASSUME NEW f \in Events,
               /\ stage'[f] \in {"schema", "validate"} => f \notin Oversized
               /\ stage'[f] \in {"transform", "publish"} \/ outboxRows'[f] > 0 => Valid(f),
               \A e \in Events \ {f} : stage'[e] = stage[e] /\ outboxRows'[e] = outboxRows[e]
        PROVE  ValidationInv'
    BY <1>0, <2>1, <2>2 DEF ValidationInv
  <2>3. ASSUME NEW f \in Events, ReceiveEvent(f) \/ ValidatePayloadSize(f) \/ GetSchema(f)
        PROVE  ValidationInv'
    <3>1. /\ outboxRows' = outboxRows
          /\ \A e \in Events \ {f} : stage'[e] = stage[e]
          /\ stage'[f] \in {"size", "schema", "validate", "reject"}
          /\ stage'[f] = "schema" => f \notin Oversized
          /\ stage'[f] = "validate" => stage[f] = "schema"
      BY <1>0, <2>3 DEF ReceiveEvent, ValidatePayloadSize, GetSchema, Reject, Goto, FateTypeOK
    <3> QED
      BY <2>2, <3>1 DEF ValidationInv
  <2>4. ASSUME NEW f \in Events, Validate(f) PROVE ValidationInv'
    <3>1. PICK v \in FindByType(TypeOf[f]) :
            /\ schemas[TypeOf[f]][v] \notin Malformed
            /\ IF f \in Accepts[schemas[TypeOf[f]][v]]
               THEN Goto(f, "validate", "transform") /\ UNCHANGED reason
               ELSE Reject(f, "validate", "schema_validation_failed")
      BY <2>4 DEF Validate
    <3>2. /\ outboxRows' = outboxRows
          /\ \A e \in Events \ {f} : stage'[e] = stage[e]
          /\ stage[f] = "validate" /\ stage'[f] \in {"transform", "reject"}
          /\ stage'[f] = "transform" => f \in Accepts[schemas[TypeOf[f]][v]]
      BY <1>0, <2>4, <3>1 DEF Validate, Reject, Goto, FateTypeOK
    <3>3. stage'[f] = "transform" => Valid(f)
      BY <3>1, <3>2 DEF Valid, FindByType, ValidationInv
    <3> QED
      BY <2>2, <3>2, <3>3 DEF ValidationInv
  <2>5. ASSUME NEW f \in Events,
               \/ TransformAndEnrich(f) \/ PublishEvent(f) \/ PublishUnacknowledged(f)
        PROVE  ValidationInv'
    <3>1. /\ \A e \in Events \ {f} : stage'[e] = stage[e] /\ outboxRows'[e] = outboxRows[e]
          /\ stage[f] \in {"transform", "publish"} /\ stage'[f] \in {"publish", "returned"}
      BY <1>0, <2>5 DEF TransformAndEnrich, PublishEvent, PublishUnacknowledged, Goto, FateTypeOK
    <3> QED
      BY <2>2, <3>1 DEF ValidationInv
  <2>6. ASSUME NEW f \in Events, SendToDeadLetterQueue(f) \/ DeadLetterFails(f)
        PROVE  ValidationInv'
    <3>1. /\ outboxRows' = outboxRows
          /\ \A e \in Events \ {f} : stage'[e] = stage[e]
          /\ stage'[f] = "returned"
      BY <1>0, <2>6 DEF SendToDeadLetterQueue, DeadLetterFails, Goto, FateTypeOK
    <3> QED
      BY <2>2, <3>1 DEF ValidationInv
  <2>7. CASE Die
    <3>1. /\ outboxRows' = outboxRows
          /\ \A e \in Events : stage'[e] = stage[e] \/ stage'[e] = "killed"
      BY <1>0, <2>7 DEF Die, FateTypeOK
    <3> QED
      BY <1>0, <2>1, <3>1 DEF ValidationInv
  <2>8. CASE stage' = stage /\ outboxRows' = outboxRows
    BY <1>0, <2>1, <2>8 DEF ValidationInv
  <2>9. \/ stage' = stage /\ outboxRows' = outboxRows
        \/ \E t \in EventTypes, v \in Versions, text \in SchemaTexts : Register(t, v, text)
        \/ Die
        \/ \E f \in Events :
             \/ ReceiveEvent(f) \/ ValidatePayloadSize(f) \/ GetSchema(f) \/ Validate(f)
             \/ TransformAndEnrich(f) \/ PublishEvent(f) \/ PublishUnacknowledged(f)
             \/ SendToDeadLetterQueue(f) \/ DeadLetterFails(f)
    BY DEF Next, ProcessEvent, Stop, Panic, Restart, vars, processorVars
  <2> QED
    BY <1>1, <2>3, <2>4, <2>5, <2>6, <2>7, <2>8, <2>9
<1> QED
  BY <1>1, <1>2, OnlyRegisterAdds

(* ValidationInv holds throughout.                                         *)
LEMMA SpecValidation == Spec => []ValidationInv
<1>1. Init => ValidationInv
  <2>1. Init => FateTypeOK
    BY ProcessorAssumption DEF Init, FateTypeOK, Stages
  <2>2. Init => SchemasTypeOK
    BY DEF Init, InitSchemas, SchemasTypeOK, Registered
  <2> QED
    BY <2>1, <2>2 DEF Init, ValidationInv
<1> QED
  BY <1>1, NextValidation, SpecFate, PTL DEF Spec

(* Only events that a registered schema accepts, and that are not too      *)
(* large, get into the outbox.                                             *)
THEOREM Validated == Spec => []OutboxOnlyValidated
<1>1. ValidationInv => OutboxOnlyValidated
  BY DEF ValidationInv, OutboxOnlyValidated
<1> QED
  BY <1>1, SpecValidation, PTL

(* What the two inductive invariants leave out of the types.               *)
SettingsTypeOK ==
  /\ retryBaseDelay \in RetryBackoffs
  /\ process \in {"up", "down"}
  /\ reason \in [Events -> Reasons]

(* Every reachable state is well typed: handleError knows each reason it is*)
(* given, and the registry has one text per version.                       *)
THEOREM TypeCorrect == Spec => []TypeOK
<1>1. Init => SettingsTypeOK
  BY DEF Init, SettingsTypeOK, Reasons
<1>2. SettingsTypeOK /\ [Next]_vars => SettingsTypeOK'
  <2> SUFFICES ASSUME SettingsTypeOK, [Next]_vars PROVE SettingsTypeOK'
    OBVIOUS
  <2>1. retryBaseDelay' = retryBaseDelay
    BY DEF Next, ProcessEvent, ReceiveEvent, ValidatePayloadSize, GetSchema, Validate,
       TransformAndEnrich, PublishEvent, PublishUnacknowledged, SendToDeadLetterQueue,
       DeadLetterFails, Panic, Stop, Die, Restart, Register, vars, processorVars
  <2>2. process' \in {process, "up", "down"}
    BY DEF Next, ProcessEvent, ReceiveEvent, ValidatePayloadSize, GetSchema, Validate,
       TransformAndEnrich, PublishEvent, PublishUnacknowledged, SendToDeadLetterQueue,
       DeadLetterFails, Panic, Stop, Die, Restart, Register, vars, processorVars
  <2>3. \/ reason' = reason
        \/ \E e \in Events, x \in Reasons : reason' = [reason EXCEPT ![e] = x]
    BY DEF Reasons, Next, ProcessEvent, ReceiveEvent, ValidatePayloadSize, GetSchema,
       Validate, TransformAndEnrich, PublishEvent, PublishUnacknowledged,
       SendToDeadLetterQueue, DeadLetterFails, Panic, Stop, Die, Restart, Register,
       Reject, vars, processorVars
  <2> QED
    BY <2>1, <2>2, <2>3 DEF SettingsTypeOK
<1>3. SettingsTypeOK /\ ValidationInv => TypeOK
  BY DEF SettingsTypeOK, ValidationInv, FateTypeOK, TypeOK
<1> QED
  BY <1>1, <1>2, <1>3, SpecValidation, PTL DEF Spec

-----------------------------------------------------------------------------
(* The order of texts is total and transitive, so ORDER BY version DESC    *)
(* LIMIT 1 has one answer on every table that is not empty; a registration *)
(* keeps it so.                                                            *)

(* A set of numbers that is not empty has a least element.                 *)
LEMMA LeastNumber ==
  ASSUME NEW D \in SUBSET Nat, D # {}
  PROVE  \E n \in D : \A m \in D : n <= m
<1>1. PICK n \in D : \A m \in D : ~(<<m, n>> \in OpToRel(<, Nat))
  BY NatLessThanWellFounded, WFMin
<1>2. \A m \in D : ~(m < n)
  BY <1>1 DEF OpToRel
<1> QED
  BY <1>2

(* Texts are compared at their first difference, whatever their lengths.   *)
LEMMA TextLessTransitive ==
  ASSUME NEW u \in Seq(Nat), NEW v \in Seq(Nat), NEW w \in Seq(Nat),
         TextLess(u, v), TextLess(v, w)
  PROVE  TextLess(u, w)
<1>t. /\ Len(u) \in Nat /\ Len(v) \in Nat /\ Len(w) \in Nat
      /\ \A i \in 1..Len(u) : u[i] \in Nat
      /\ \A i \in 1..Len(v) : v[i] \in Nat
      /\ \A i \in 1..Len(w) : w[i] \in Nat
  OBVIOUS
<1>1. PICK n \in 0..Len(u) : /\ n < Len(v)
                             /\ \A k \in 1..n : u[k] = v[k]
                             /\ n = Len(u) \/ u[n + 1] < v[n + 1]
  BY DEF TextLess
<1>2. PICK m \in 0..Len(v) : /\ m < Len(w)
                             /\ \A k \in 1..m : v[k] = w[k]
                             /\ m = Len(v) \/ v[m + 1] < w[m + 1]
  BY DEF TextLess
<1>3. CASE n < m
  <2>1. n < Len(w) /\ (\A k \in 1..n : u[k] = w[k]) /\ v[n + 1] = w[n + 1]
    BY <1>t, <1>1, <1>2, <1>3
  <2> QED
    BY <1>1, <2>1 DEF TextLess
<1>4. CASE n = m
  <2>1. n < Len(w) /\ (\A k \in 1..n : u[k] = w[k]) /\ v[n + 1] < w[n + 1]
    BY <1>t, <1>1, <1>2, <1>4
  <2>2. n + 1 \in 1..Len(v) /\ n + 1 \in 1..Len(w)
    BY <1>t, <1>1, <2>1
  <2>3. n = Len(u) \/ u[n + 1] < w[n + 1]
    <3>1. CASE n < Len(u)
      <4>1. u[n + 1] \in Nat /\ v[n + 1] \in Nat /\ w[n + 1] \in Nat
        BY <1>t, <1>1, <2>2, <3>1
      <4>2. u[n + 1] < v[n + 1]
        BY <1>1, <1>t, <3>1
      <4>3. v[n + 1] < w[n + 1]
        BY <2>1
      <4>4. u[n + 1] < w[n + 1]
        BY <4>1, <4>2, <4>3
      <4> QED
        BY <4>4
    <3> QED
      BY <1>t, <3>1
  <2> QED
    BY <2>1, <2>3 DEF TextLess
<1>5. CASE m < n
  <2>1. m \in 0..Len(u) /\ (\A k \in 1..m : u[k] = w[k]) /\ u[m + 1] = v[m + 1]
    <3>1. n \in Nat /\ m \in Nat /\ n <= Len(u) /\ m + 1 \in 1..n
      BY <1>t, <1>5
    <3>2. m \in 0..Len(u) /\ u[m + 1] = v[m + 1]
      BY <1>t, <1>1, <1>5, <3>1
    <3>3. ASSUME NEW k \in 1..m PROVE u[k] = w[k]
      <4>1. k \in 1..n
        BY <1>5, <3>1
      <4> QED
        BY <1>1, <1>2, <4>1
    <3> QED
      BY <3>2, <3>3
  <2>2. v[m + 1] < w[m + 1]
    BY <1>t, <1>1, <1>2, <1>5
  <2> QED
    BY <1>2, <2>1, <2>2 DEF TextLess
<1> QED
  BY <1>t, <1>3, <1>4, <1>5

(* Of two different texts one comes first.                                 *)
LEMMA TextLessTotal ==
  ASSUME NEW v \in Seq(Nat), NEW w \in Seq(Nat), v # w
  PROVE  TextLess(v, w) \/ TextLess(w, v)
<1> DEFINE D == {n \in Nat : n < Len(v) /\ n < Len(w) /\ v[n + 1] # w[n + 1]}
<1>t. /\ Len(v) \in Nat /\ Len(w) \in Nat
      /\ \A i \in 1..Len(v) : v[i] \in Nat
      /\ \A i \in 1..Len(w) : w[i] \in Nat
  OBVIOUS
<1>0. ASSUME NEW n \in Nat, \A m \in Nat : m < n => v[m + 1] = w[m + 1],
             NEW k \in 1..n
      PROVE  v[k] = w[k]
  <2>1. k - 1 \in Nat /\ k - 1 < n /\ (k - 1) + 1 = k
    BY <1>0
  <2>2. v[(k - 1) + 1] = w[(k - 1) + 1]
    BY <1>0, <2>1
  <2> QED
    BY <2>1, <2>2
<1>1. CASE D = {}
  <2>1. \A m \in Nat : m < Len(v) /\ m < Len(w) => v[m + 1] = w[m + 1]
    BY <1>1
  <2>2. CASE Len(v) < Len(w)
    <3>1. \A m \in Nat : m < Len(v) => v[m + 1] = w[m + 1]
      BY <1>t, <2>1, <2>2
    <3>2. \A k \in 1..Len(v) : v[k] = w[k]
      BY <1>t, <1>0, <3>1
    <3> QED
      BY <1>t, <2>2, <3>2 DEF TextLess
  <2>3. CASE Len(w) < Len(v)
    <3>1. \A m \in Nat : m < Len(w) => v[m + 1] = w[m + 1]
      BY <1>t, <2>1, <2>3
    <3>2. \A k \in 1..Len(w) : v[k] = w[k]
      BY <1>t, <1>0, <3>1
    <3> QED
      BY <1>t, <2>3, <3>2 DEF TextLess
  <2>4. CASE Len(v) = Len(w)
    <3>1. \A m \in Nat : m < Len(v) => v[m + 1] = w[m + 1]
      BY <1>t, <2>1, <2>4
    <3>2. \A k \in 1..Len(v) : v[k] = w[k]
      BY <1>t, <1>0, <3>1
    <3> QED
      BY <2>4, <3>2
  <2> QED
    BY <1>t, <2>2, <2>3, <2>4
<1>2. CASE D # {}
  <2>1. PICK n \in D : \A m \in D : n <= m
    BY <1>2, LeastNumber
  <2>2. n \in Nat /\ n < Len(v) /\ n < Len(w) /\ v[n + 1] # w[n + 1]
    BY <2>1
  <2>3. ASSUME NEW m \in Nat, m < n PROVE v[m + 1] = w[m + 1]
    <3>1. m \notin D
      BY <2>1, <2>2, <2>3
    <3> QED
      BY <1>t, <2>2, <2>3, <3>1
  <2>4. \A k \in 1..n : v[k] = w[k]
    BY <1>0, <2>2, <2>3
  <2>5. v[n + 1] < w[n + 1] \/ w[n + 1] < v[n + 1]
    <3>1. v[n + 1] \in Nat /\ w[n + 1] \in Nat
      BY <1>t, <2>2
    <3> QED
      BY <2>2, <3>1
  <2>6. n \in 0..Len(v) /\ n \in 0..Len(w) /\ \A k \in 1..n : w[k] = v[k]
    BY <1>t, <2>2, <2>4
  <2>7. CASE v[n + 1] < w[n + 1]
    BY <2>2, <2>4, <2>6, <2>7 DEF TextLess
  <2>8. CASE w[n + 1] < v[n + 1]
    BY <2>2, <2>6, <2>8 DEF TextLess
  <2> QED
    BY <2>5, <2>7, <2>8
<1> QED
  BY <1>1, <1>2

-----------------------------------------------------------------------------
(* The latest version                                                      *)

(* A type with a schema has a latest one.                                  *)
LatestExists == \A t \in EventTypes : Registered(t) # {} => FindByType(t) # {}

(* No text sorts before itself.                                            *)
LEMMA TextLessIrreflexive == ASSUME NEW v \in Seq(Nat) PROVE ~TextLess(v, v)
<1> SUFFICES ASSUME NEW n \in 0..Len(v), n < Len(v), v[n + 1] < v[n + 1] PROVE FALSE
  BY DEF TextLess
<1>1. n + 1 \in 1..Len(v)
  OBVIOUS
<1>2. v[n + 1] \in Nat
  BY <1>1
<1> QED
  BY <1>2

(* The query has at most one answer.                                       *)
LEMMA LatestUnique ==
  ASSUME SchemasTypeOK, NEW t \in EventTypes, NEW v \in FindByType(t), NEW w \in FindByType(t)
  PROVE  v = w
<1>1. v \in Seq(Nat) /\ w \in Seq(Nat)
  BY RegistryAssumption DEF SchemasTypeOK, FindByType
<1>2. ASSUME v # w PROVE FALSE
  <2>1. TextLess(v, w) /\ TextLess(w, v)
    BY <1>2 DEF FindByType
  <2> QED
    BY <1>1, <2>1, TextLessTransitive, TextLessIrreflexive
<1> QED
  BY <1>2

(* The new version is the latest, or the latest one stays the latest.      *)
LEMMA RegisterKeepsLatest ==
  ASSUME SchemasTypeOK, LatestExists, NEW t \in EventTypes, NEW v \in Versions,
         NEW text \in SchemaTexts, RegisterSchema(t, v, text)
  PROVE  /\ LatestExists'
         /\ \A u \in EventTypes : Registered(u) \subseteq Registered(u)'
<1>1. CASE UNCHANGED schemas
  BY <1>1 DEF LatestExists, FindByType, Registered
<1>2. CASE /\ v \notin Registered(t)
           /\ schemas' = [schemas EXCEPT ![t] =
                [w \in Registered(t) \cup {v} |-> IF w = v THEN text ELSE @[w]]]
  <2>1. Registered(t)' = Registered(t) \cup {v}
    BY <1>2 DEF SchemasTypeOK, Registered
  <2>2. \A u \in EventTypes \ {t} : schemas'[u] = schemas[u]
    BY <1>2 DEF SchemasTypeOK
  <2>3. Registered(t) \subseteq Seq(Nat) /\ v \in Seq(Nat)
    BY RegistryAssumption DEF SchemasTypeOK
  <2>4. FindByType(t)' # {}
    <3>1. CASE Registered(t) = {}
      BY <2>1, <3>1 DEF FindByType
    <3>2. ASSUME NEW m \in FindByType(t) PROVE FindByType(t)' # {}
      <4>1. m \in Registered(t) /\ \A w \in Registered(t) \ {m} : TextLess(w, m)
        BY <3>2 DEF FindByType
      <4>2. CASE TextLess(v, m)
        BY <2>1, <4>1, <4>2 DEF FindByType
      <4>3. CASE TextLess(m, v)
        <5>1. \A w \in Registered(t) : TextLess(w, v)
          BY <2>3, <4>1, <4>3, TextLessTransitive
        <5> QED
          BY <2>1, <5>1 DEF FindByType
      <4> QED
        BY <1>2, <2>3, <4>1, <4>2, <4>3, TextLessTotal
    <3> QED
      BY <3>1, <3>2 DEF LatestExists
  <2>5. \A u \in EventTypes \ {t} : /\ Registered(u)' = Registered(u)
                                    /\ FindByType(u)' = FindByType(u)
    BY <2>2 DEF Registered, FindByType
  <2> QED
    BY <2>1, <2>4, <2>5 DEF LatestExists
<1> QED
  BY <1>1, <1>2 DEF RegisterSchema

-----------------------------------------------------------------------------
(* The schema that was found                                               *)

(* Events past the first read have a schema, and every type with a schema  *)
(* has a latest one.                                                       *)
FoundInv ==
  /\ LatestExists
  /\ \A e \in Events : stage[e] \in {"validate", "transform", "publish"} =>
                         Registered(TypeOf[e]) # {}

(* FoundInv is inductive: schemas are only added, and validation begins    *)
(* only where one was seen.                                                *)
LEMMA NextFound == ValidationInv /\ FoundInv /\ [Next]_vars => FoundInv'
<1> SUFFICES ASSUME ValidationInv, FoundInv, [Next]_vars PROVE FoundInv'
  OBVIOUS
<1>t. TypeOf \in [Events -> EventTypes] /\ FateTypeOK /\ SchemasTypeOK
  BY ProcessorAssumption DEF ValidationInv
<1>1. ASSUME NEW t \in EventTypes, NEW v \in Versions, NEW text \in SchemaTexts,
             Register(t, v, text)
      PROVE  FoundInv'
  <2>1. LatestExists' /\ \A u \in EventTypes : Registered(u) \subseteq Registered(u)'
    BY <1>t, <1>1, RegisterKeepsLatest DEF Register, FoundInv
  <2>2. stage' = stage
    BY <1>1 DEF Register, processorVars
  <2> QED
    BY <1>t, <2>1, <2>2 DEF FoundInv
<1>2. CASE schemas' = schemas
  <2>1. LatestExists' /\ \A e \in Events : Registered(TypeOf[e])' = Registered(TypeOf[e])
    BY <1>2 DEF FoundInv, LatestExists, FindByType, Registered
  <2>2. SUFFICES ASSUME NEW e \in Events, stage'[e] \in {"validate", "transform", "publish"}
                 PROVE  Registered(TypeOf[e]) # {}
    BY <2>1 DEF FoundInv
  <2>3. CASE stage[e] \in {"validate", "transform", "publish"}
    BY <2>3 DEF FoundInv
  <2>4. ASSUME NEW f \in Events, GetSchema(f) PROVE Registered(TypeOf[e]) # {}
    BY <1>t, <2>2, <2>3, <2>4 DEF GetSchema, Reject, Goto, FindByType, FateTypeOK
  <2>5. ASSUME NEW f \in Events, ReceiveEvent(f) \/ ValidatePayloadSize(f)
        PROVE  stage[e] \in {"validate", "transform", "publish"}
    BY <1>t, <2>2, <2>5 DEF ReceiveEvent, ValidatePayloadSize, Reject, Goto, FateTypeOK
  <2>6. ASSUME NEW f \in Events, Validate(f) \/ TransformAndEnrich(f) \/ PublishEvent(f)
                                 \/ SendToDeadLetterQueue(f) \/ DeadLetterFails(f)
        PROVE  stage[e] \in {"validate", "transform", "publish"}
    BY <1>t, <2>2, <2>6 DEF Validate, TransformAndEnrich, PublishEvent,
       SendToDeadLetterQueue, DeadLetterFails, Reject, Goto, FateTypeOK
  <2>7. CASE Die
    BY <1>t, <2>2, <2>3, <2>7 DEF Die, FateTypeOK
  <2>8. CASE stage' = stage
    BY <2>2, <2>3, <2>8
  <2>9. \/ stage' = stage \/ Die
        \/ \E t \in EventTypes, v \in Versions, text \in SchemaTexts : Register(t, v, text)
        \/ \E f \in Events :
             \/ ReceiveEvent(f) \/ ValidatePayloadSize(f) \/ GetSchema(f) \/ Validate(f)
             \/ TransformAndEnrich(f) \/ PublishEvent(f)
             \/ SendToDeadLetterQueue(f) \/ DeadLetterFails(f)
    BY DEF Next, ProcessEvent, PublishUnacknowledged, Stop, Panic, Restart, vars,
           processorVars
  <2>10. stage' = stage \/ ~(\E t \in EventTypes, v \in Versions, text \in SchemaTexts :
                               Register(t, v, text))
    BY DEF Register, processorVars
  <2> QED
    BY <2>3, <2>4, <2>5, <2>6, <2>7, <2>8, <2>9, <2>10
<1> QED
  BY <1>1, <1>2, OnlyRegisterAdds

(* Between the two reads of a validation, and after them, the type has a   *)
(* latest schema, whatever is registered meanwhile under whatever version. *)
THEOREM StaysFound == Spec => []SchemaStaysFound
<1>1. Init => FoundInv
  BY DEF Init, InitSchemas, FoundInv, LatestExists, Registered
<1>2. FoundInv => SchemaStaysFound
  <2>1. TypeOf \in [Events -> EventTypes]
    BY ProcessorAssumption
  <2> QED
    BY <2>1 DEF FoundInv, LatestExists, SchemaStaysFound
<1> QED
  BY <1>1, <1>2, NextFound, SpecValidation, PTL DEF Spec

-----------------------------------------------------------------------------
(* Refinement                                                              *)

(* The initial states correspond: no event has arrived.                    *)
LEMMA InitRefines == Init => Abstract!Init
BY DEF Init, Abstract!Init, Fate, Running

(* Each step gives at most one event its fate, or loses the unfinished.    *)
LEMMA NextRefines ==
  ASSUME FateInv, [Next]_vars
  PROVE  [Abstract!Next]_([e \in Events |-> Fate(e)])
<1> DEFINE fate == [e \in Events |-> Fate(e)]
<1>0. FateTypeOK /\ Effect /\ FateInv'
  BY StepEffect, NextFate DEF FateInv
<1>1. ASSUME NEW e \in Events, Moves(e), NEW x, Fate(e)' = x
      PROVE  fate' = [fate EXCEPT ![e] = x]
  <2>1. \A f \in Events \ {e} : Fate(f)' = Fate(f)
    BY <1>1 DEF Moves, Fate
  <2> QED
    BY <1>1, <2>1
<1>2. CASE Nothing
  <2>1. \A e \in Events : Fate(e)' = Fate(e)
    BY <1>2 DEF Nothing, Fate
  <2> QED
    BY <2>1
<1>3. ASSUME NEW e \in Events, Advances(e) PROVE [Abstract!Next]_fate
  <2>1. outboxRows[e] = 0 /\ deadLetters[e] = 0
    BY <1>0, <1>3 DEF Advances, FateInv, FateTypeOK, Placed
  <2>2. Fate(e)' = "accepted"
    BY <1>3, <2>1 DEF Advances, Fate, Running
  <2>3. CASE stage[e] = "absent"
    <3>1. fate[e] = "absent"
      BY <2>1, <2>3 DEF Fate, Running
    <3>2. Abstract!Accept(e)
      BY <1>1, <1>3, <2>2, <3>1 DEF Advances, Abstract!Accept
    <3> QED
      BY <3>2 DEF Abstract!Next
  <2>4. CASE stage[e] # "absent"
    <3>1. fate[e] = "accepted"
      BY <1>3, <2>1, <2>4 DEF Advances, Fate, Running
    <3>2. fate' = fate
      BY <1>1, <1>3, <2>2, <3>1 DEF Advances
    <3> QED
      BY <3>2
  <2> QED
    BY <2>3, <2>4
<1>4. ASSUME NEW e \in Events, Stores(e) PROVE [Abstract!Next]_fate
  <2>1. outboxRows[e] \in Nat /\ deadLetters[e] = 0
    BY <1>0, <1>4 DEF Stores, FateInv, FateTypeOK, Placed
  <2>2. Fate(e)' = "stored"
    BY <1>4, <2>1 DEF Stores, Fate
  <2>3. CASE outboxRows[e] > 0
    <3>1. fate[e] = "stored"
      BY <2>3 DEF Fate
    <3>2. fate' = fate
      BY <1>1, <1>4, <2>2, <3>1 DEF Stores
    <3> QED
      BY <3>2
  <2>4. CASE ~(outboxRows[e] > 0)
    <3>1. fate[e] = "accepted"
      BY <1>4, <2>1, <2>4 DEF Stores, Fate, Running
    <3>2. Abstract!Store(e)
      BY <1>1, <1>4, <2>2, <3>1 DEF Stores, Abstract!Store
    <3> QED
      BY <3>2 DEF Abstract!Next
  <2> QED
    BY <2>3, <2>4
<1>5. ASSUME NEW e \in Events, Rejects(e) PROVE [Abstract!Next]_fate
  <2>1. outboxRows[e] = 0 /\ deadLetters[e] = 0
    BY <1>0, <1>5 DEF Rejects, FateInv, FateTypeOK, Placed
  <2>2. fate[e] = "accepted"
    BY <1>5, <2>1 DEF Rejects, Fate, Running
  <2>3. CASE deadLetters'[e] = deadLetters[e] + 1
    <3>1. Fate(e)' = "dead"
      BY <1>5, <2>1, <2>3 DEF Rejects, Fate
    <3>2. Abstract!Bury(e)
      BY <1>1, <1>5, <2>2, <3>1 DEF Rejects, Abstract!Bury
    <3> QED
      BY <3>2 DEF Abstract!Next
  <2>4. CASE deadLetters'[e] = deadLetters[e]
    <3>1. Fate(e)' = "lost"
      BY <1>5, <2>1, <2>4 DEF Rejects, Fate, Running
    <3>2. fate' = [fate EXCEPT ![e] = "lost"]
      BY <1>1, <1>5, <3>1 DEF Rejects
    <3>3. Abstract!Lose({e})
      BY <2>2, <3>2 DEF Abstract!Lose
    <3> QED
      BY <3>3 DEF Abstract!Next
  <2> QED
    BY <1>5, <2>3, <2>4 DEF Rejects
<1>6. CASE Ends
  <2> DEFINE S == {e \in Events : fate[e] = "accepted"}
  <2>1. \A e \in S : Fate(e)' = "lost"
    BY <1>0, <1>6 DEF Ends, Fate, Running, FateTypeOK
  <2>2. \A e \in Events \ S : Fate(e)' = Fate(e)
    BY <1>0, <1>6 DEF Ends, Fate, Running, FateTypeOK
  <2>3. Abstract!Lose(S)
    BY <2>1, <2>2 DEF Abstract!Lose
  <2> QED
    BY <2>3 DEF Abstract!Next
<1> QED
  BY <1>0, <1>2, <1>3, <1>4, <1>5, <1>6 DEF Effect

(* The pipeline implements EventFate.                                      *)
THEOREM Refinement == Spec => ImplementsFate
<1>1. FateInv /\ [Next]_vars => [Abstract!Next]_([e \in Events |-> Fate(e)])
  BY NextRefines
<1> QED
  BY <1>1, InitRefines, SpecFate, PTL DEF Spec, ImplementsFate, Abstract!Spec

=============================================================================
