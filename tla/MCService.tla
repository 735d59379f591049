------------------------------ MODULE MCService ------------------------------
(***************************************************************************)
(* A small instance of Service: configurations that start and that do not, *)
(* and three clients, one of them without a valid key.                     *)
(***************************************************************************)
EXTENDS Service, TLC

CONSTANTS r1, r2, r3  \* model values: requests

(* What is common to the files below.                                      *)
BaseFile ==
  ("api.api_keys" :> {"key-1", "key-2"}) @@ ("api.rate_limit_burst" :> 1)
    @@ ("database.password" :> "postgres") @@ ("outbox.retry_backoff" :> Duration(1))

(* A complete file; one that leaves retry_backoff unset; RabbitMQ and      *)
(* an interval without a unit; the size "1MB" of README.md; "0s"; a number *)
(* of retries that librdkafka refuses.                                     *)
MCFiles ==
  {BaseFile,
   ("api.api_keys" :> {"key-1"}) @@ ("database.password" :> "postgres"),
   ("broker.type" :> "rabbitmq") @@ ("outbox.process_interval" :> Number(5)) @@ BaseFile,
   ("api.max_payload_size" :> Text) @@ BaseFile,
   ("outbox.process_interval" :> Duration(0)) @@ BaseFile,
   ("broker.kafka.max_retries" :> 0) @@ BaseFile}

(* Nothing; secrets from plain variables, one of them wrong for the        *)
(* database; an unknown broker.                                            *)
MCEnvironments ==
  {<<>>,
   ("API_KEY" :> "key-1") @@ ("outbox.retry_backoff" :> Duration(1)),
   ("DB_PASSWORD" :> "other"),
   ("broker.type" :> "nats")}

MCKeyOf == [r \in Requests |-> IF r = r3 THEN "key-2" ELSE "key-1"]

MCKind == [r \in Requests |-> CASE r = r1 -> "event" [] r = r2 -> "schema" [] OTHER -> "bad"]

=============================================================================
