------------------------------ MODULE MCOutbox ------------------------------
(***************************************************************************)
(* Small instances of Outbox for TLC.  Each MC_ operator gives one CONSTANT*)
(* its value in a cfg.                                                     *)
(***************************************************************************)
EXTENDS Outbox, TLC

CONSTANTS i1, i2, e1, e2  \* model values: instances and events

Route(broker, maxRetries, exchange) ==
  [broker |-> broker, maxRetries |-> maxRetries, topic |-> "",
   exchange |-> exchange, routingKey |-> ""]

MC_EventTypes == {"order", "user"}

(* The defaults of config.go (kafka) with a limit of one retry, so that    *)
(* the limit is within reach of a few faults; no routes.                   *)
MC_KafkaRouting ==
  [defaults |-> Route("kafka", 1, ""), routes |-> <<>>]

(* Everything through RabbitMQ; one type names an exchange that neither    *)
(* the service nor anybody else has declared.                              *)
MC_RabbitRouting ==
  [defaults |-> Route("rabbitmq", 1, ""),
   routes   |-> ("user" :> Route("", 0, "users"))]

MC_TypeOf == [e \in Events |-> IF e = e2 THEN "user" ELSE "order"]

Symmetry == Permutations({i1, i2})

=============================================================================
