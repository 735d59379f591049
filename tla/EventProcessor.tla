--------------------------- MODULE EventProcessor ---------------------------
(***************************************************************************)
(* From the HTTP request to the outbox or the dead letter queue:           *)
(* receiveEventHandler, which answers 202 and hands the event to a         *)
(* goroutine of its own, and EventProcessorImpl.ProcessEvent, which that   *)
(* goroutine runs on context.Background while schemas are being registered.*)
(*                                                                         *)
(* A step of an event is the part of ProcessEvent from one access to the   *)
(* database to the next.  Reads that fail and are retried leave no trace   *)
(* and have no step.  One process suffices: goroutines of several share    *)
(* nothing but the tables, and those of one process share nothing else.    *)
(***************************************************************************)
EXTENDS SchemaRegistry, FiniteSets

CONSTANTS
  Events,         \* events that may be sent to the API
  TypeOf,         \* [Events -> EventTypes]
  Oversized,      \* events whose payload exceeds cfg.API.MaxPayloadSize
  Malformed,      \* schema texts gojsonschema cannot load
  Accepts,        \* [SchemaTexts -> SUBSET Events]: payloads that are valid
  RetryBackoffs,  \* values of cfg.Outbox.RetryBackoff to start with
  MaxFaults       \* bound: faults in a behaviour

ASSUME ProcessorAssumption ==
  /\ TypeOf \in [Events -> EventTypes]
  /\ Malformed \subseteq SchemaTexts
  /\ Accepts \in [SchemaTexts -> SUBSET Events]
  /\ RetryBackoffs \subseteq Int
  /\ MaxFaults \in Nat

VARIABLES
  retryBaseDelay,  \* the processor's setting; fixed at the start
  process,         \* up or down
  stage,           \* where the goroutine of an event stands in ProcessEvent
  reason,          \* errorType passed to handleError
  outboxRows,      \* [Events -> Nat]: rows of event_outbox
  deadLetters,     \* [Events -> Nat]: rows of dead_letter_queue
  faults           \* faults so far

processorVars == <<retryBaseDelay, process, stage, reason, outboxRows, deadLetters,
                   faults>>
vars == <<schemas, processorVars>>

-----------------------------------------------------------------------------

Running == {"size", "schema", "validate", "transform", "publish", "reject"}

Stages == Running \cup {"absent", "returned", "killed"}

Reasons == {"none", "payload_size_exceeded", "schema_validation_failed"}

Fault == faults < MaxFaults /\ faults' = faults + 1

(* The goroutine of e goes from one stage to another.                      *)
Goto(e, from, to) ==
  /\ stage[e] = from
  /\ stage' = [stage EXCEPT ![e] = to]

(* ProcessEvent calls handleError.                                         *)
Reject(e, from, errorType) ==
  /\ Goto(e, from, "reject")
  /\ reason' = [reason EXCEPT ![e] = errorType]

-----------------------------------------------------------------------------
(* The API                                                                 *)

(* The handler starts the goroutine and answers 202 Accepted.              *)
ReceiveEvent(e) ==
  /\ process = "up"
  /\ Goto(e, "absent", "size")
  /\ UNCHANGED <<schemas, retryBaseDelay, process, reason, outboxRows, deadLetters,
                 faults>>

(* The registry may grow at any time.                                      *)
Register(t, v, text) ==
  /\ process = "up"
  /\ RegisterSchema(t, v, text)
  /\ UNCHANGED processorVars

-----------------------------------------------------------------------------
(* ProcessEvent                                                            *)

(* Mutant: an oversized event is refused without handleError.              *)
ValidatePayloadSize_NoDeadLetter(e) ==
  /\ Goto(e, "size", IF e \in Oversized THEN "returned" ELSE "schema")
  /\ UNCHANGED <<schemas, retryBaseDelay, process, reason, outboxRows, deadLetters,
                 faults>>

(* Mutant: handleError is called, but ProcessEvent does not return.        *)
ValidatePayloadSize_GoesOn(e) ==
  /\ Goto(e, "size", "schema")
  /\ deadLetters' = IF e \in Oversized THEN [deadLetters EXCEPT ![e] = @ + 1]
                                       ELSE deadLetters
  /\ UNCHANGED <<schemas, retryBaseDelay, process, reason, outboxRows, faults>>

ValidatePayloadSize(e) ==
  /\ IF e \in Oversized
     THEN Reject(e, "size", "payload_size_exceeded")
     ELSE Goto(e, "size", "schema") /\ UNCHANGED reason
  /\ UNCHANGED <<schemas, retryBaseDelay, process, outboxRows, deadLetters, faults>>

(* Mutant: the check for a nil schema is missing.                          *)
GetSchema_NoNilCheck(e) ==
  /\ retryBaseDelay > 0
  /\ Goto(e, "schema", "validate")
  /\ UNCHANGED <<schemas, retryBaseDelay, process, reason, outboxRows, deadLetters,
                 faults>>

(* First half of validateSchema: is there any schema?  Its text is not     *)
(* kept.  A missing schema is not a retryable error.                       *)
GetSchema(e) ==
  /\ retryBaseDelay > 0
  /\ IF FindByType(TypeOf[e]) = {}
     THEN Reject(e, "schema", "schema_validation_failed")
     ELSE Goto(e, "schema", "validate") /\ UNCHANGED reason
  /\ UNCHANGED <<schemas, retryBaseDelay, process, outboxRows, deadLetters, faults>>

(* Mutant: an error of the JSON schema library counts as valid.            *)
Validate_ErrorIsValid(e) ==
  /\ \E v \in FindByType(TypeOf[e]) :
       IF schemas[TypeOf[e]][v] \in Malformed \/ e \in Accepts[schemas[TypeOf[e]][v]]
       THEN Goto(e, "validate", "transform") /\ UNCHANGED reason
       ELSE Reject(e, "validate", "schema_validation_failed")
  /\ UNCHANGED <<schemas, retryBaseDelay, process, outboxRows, deadLetters, faults>>

(* Second half: Validate reads the latest schema again.  No schema, or one *)
(* that does not load, is an error like a lost connection: retried without *)
(* end, so the step waits for a schema that loads.                         *)
Validate(e) ==
  /\ \E v \in FindByType(TypeOf[e]) :
       /\ schemas[TypeOf[e]][v] \notin Malformed
       /\ IF e \in Accepts[schemas[TypeOf[e]][v]]
          THEN Goto(e, "validate", "transform") /\ UNCHANGED reason
          ELSE Reject(e, "validate", "schema_validation_failed")
  /\ UNCHANGED <<schemas, retryBaseDelay, process, outboxRows, deadLetters, faults>>

(* transformEvent and enrichEvent look up functions by the exact type; the *)
(* only ones registered have the key "*" and cannot fail.  Neither touches *)
(* what decides the fate of the event.                                     *)
TransformAndEnrich(e) ==
  /\ Goto(e, "transform", "publish")
  /\ UNCHANGED <<schemas, retryBaseDelay, process, reason, outboxRows, deadLetters,
                 faults>>

(* publishEvent: PublishEvent inserts a row and returns.                   *)
PublishEvent(e) ==
  /\ Goto(e, "publish", "returned")
  /\ outboxRows' = [outboxRows EXCEPT ![e] = @ + 1]
  /\ UNCHANGED <<schemas, retryBaseDelay, process, reason, deadLetters, faults>>

(* Mutant: an error of PublishEvent is not marked retryable.               *)
PublishUnacknowledged_GivesUp(e) ==
  /\ Goto(e, "publish", "reject")
  /\ outboxRows' = [outboxRows EXCEPT ![e] = @ + 1]
  /\ Fault
  /\ UNCHANGED <<schemas, retryBaseDelay, process, reason, deadLetters>>

(* The row is inserted but the answer is lost: retry.Do calls again.       *)
PublishUnacknowledged(e) ==
  /\ stage[e] = "publish"
  /\ outboxRows' = [outboxRows EXCEPT ![e] = @ + 1]
  /\ Fault
  /\ UNCHANGED <<schemas, retryBaseDelay, process, stage, reason, deadLetters>>

(* handleError: SendToDeadLetterQueue tries one INSERT.                    *)
SendToDeadLetterQueue(e) ==
  /\ Goto(e, "reject", "returned")
  /\ deadLetters' = [deadLetters EXCEPT ![e] = @ + 1]
  /\ UNCHANGED <<schemas, retryBaseDelay, process, reason, outboxRows, faults>>

(* The INSERT fails, with or without having committed; nobody retries.     *)
DeadLetterFails(e) ==
  /\ Goto(e, "reject", "returned")
  /\ \/ UNCHANGED deadLetters
     \/ deadLetters' = [deadLetters EXCEPT ![e] = @ + 1]
  /\ Fault
  /\ UNCHANGED <<schemas, retryBaseDelay, process, reason, outboxRows>>

-----------------------------------------------------------------------------
(* The process                                                             *)

(* All goroutines end where they are.                                      *)
Die ==
  /\ process = "up"
  /\ process' = "down"
  /\ stage' = [e \in Events |-> IF stage[e] \in Running THEN "killed" ELSE stage[e]]
  /\ UNCHANGED <<schemas, retryBaseDelay, reason, outboxRows, deadLetters>>

(* A crash, or an orderly shutdown: main waits for the HTTP requests in    *)
(* progress but not for the goroutines they have started.                  *)
Stop == Die /\ Fault

(* retry.NewExponential panics unless its base is positive, and nothing    *)
(* recovers from a panic in the goroutine.                                 *)
Panic(e) ==
  /\ stage[e] = "schema"
  /\ retryBaseDelay <= 0
  /\ Die
  /\ UNCHANGED faults

Restart ==
  /\ process = "down"
  /\ process' = "up"
  /\ UNCHANGED <<schemas, retryBaseDelay, stage, reason, outboxRows, deadLetters,
                 faults>>

-----------------------------------------------------------------------------

Init ==
  /\ InitSchemas
  /\ retryBaseDelay \in RetryBackoffs
  /\ process = "up"
  /\ stage = [e \in Events |-> "absent"]
  /\ reason = [e \in Events |-> "none"]
  /\ outboxRows = [e \in Events |-> 0]
  /\ deadLetters = [e \in Events |-> 0]
  /\ faults = 0

(* One step of the goroutine of e.                                         *)
ProcessEvent(e) ==
  \/ ValidatePayloadSize(e) \/ GetSchema(e) \/ Validate(e) \/ TransformAndEnrich(e)
  \/ PublishEvent(e) \/ PublishUnacknowledged(e)
  \/ SendToDeadLetterQueue(e) \/ DeadLetterFails(e)
  \/ Panic(e)

Next ==
  \/ \E e \in Events : ReceiveEvent(e) \/ ProcessEvent(e)
  \/ \E t \in EventTypes, v \in Versions, text \in SchemaTexts : Register(t, v, text)
  \/ Stop
  \/ Restart

Spec == Init /\ [][Next]_vars

(* Goroutines are scheduled and the database answers again and again.      *)
FairSpec ==
  /\ Spec
  /\ \A e \in Events : WF_vars(ProcessEvent(e))

-----------------------------------------------------------------------------
(* Properties                                                              *)

(* Every variable has its type.                                            *)
TypeOK ==
  /\ SchemasTypeOK
  /\ retryBaseDelay \in RetryBackoffs
  /\ process \in {"up", "down"}
  /\ stage \in [Events -> Stages]
  /\ reason \in [Events -> Reasons]
  /\ outboxRows \in [Events -> Nat]
  /\ deadLetters \in [Events -> Nat]
  /\ faults \in 0..MaxFaults

(* No event is both published and dead-lettered, even when the answers of  *)
(* inserts are lost: publishEvent never gives up, so an event whose insert *)
(* may have committed never reaches handleError.                           *)
ExclusiveFate == \A e \in Events : outboxRows[e] = 0 \/ deadLetters[e] = 0

Valid(e) ==
  /\ e \notin Oversized
  /\ \E v \in Registered(TypeOf[e]) :
       schemas[TypeOf[e]][v] \notin Malformed /\ e \in Accepts[schemas[TypeOf[e]][v]]

(* What is in the outbox conforms to a registered schema of its type and   *)
(* respects the size limit, though the schema is read twice and may change *)
(* in between.                                                             *)
OutboxOnlyValidated == \A e \in Events : outboxRows[e] > 0 => Valid(e)

(* The schema whose presence GetSchema established is still there, or has  *)
(* a successor, when Validate reads the latest one: otherwise the event    *)
(* would wait for ever in a loop of retries.                               *)
SchemaStaysFound ==
  \A e \in Events : stage[e] \in {"validate", "transform", "publish"} =>
    FindByType(TypeOf[e]) # {}

Kept(e) == outboxRows[e] > 0 \/ deadLetters[e] > 0

Lost(e) == stage[e] \in {"returned", "killed"} /\ ~Kept(e)

(* An accepted event disappears only through a fault of the database or a  *)
(* process that ends, or through the panic of an unset retry_backoff.      *)
LossIsExplained == (\E e \in Events : Lost(e)) => faults > 0 \/ retryBaseDelay <= 0

(* The pipeline gives each event one fate and sticks to it.                *)
Fate(e) ==
  IF outboxRows[e] > 0 THEN "stored"
  ELSE IF deadLetters[e] > 0 THEN "dead"
  ELSE IF stage[e] \in Running THEN "accepted"
  ELSE IF stage[e] = "absent" THEN "absent"
  ELSE "lost"

Abstract == INSTANCE EventFate WITH fate <- [e \in Events |-> Fate(e)]

(* The pipeline implements EventFate: no step moves an event from one      *)
(* table to the other, brings a lost event back or takes a stored one away.*)
ImplementsFate == Abstract!Spec

(* The latest schema of the type does not load.                            *)
Blocked(e) ==
  \E v \in FindByType(TypeOf[e]) : schemas[TypeOf[e]][v] \in Malformed

(* Every accepted event is dealt with, unless its latest schema never      *)
(* loads: validation waits through a broken schema and goes on when a      *)
(* later one loads.                                                        *)
EventsAreProcessed ==
  \A e \in Events :
    []<>~Blocked(e) => (stage[e] \in Running ~> stage[e] \in {"returned", "killed"})

(* An event that was answered 202 survives the end of the process          *)
(* (README.md: "Ensures reliable event publishing even during failures").  *)
AcceptedSurvives == \A e \in Events : stage[e] = "killed" => Kept(e)

=============================================================================
