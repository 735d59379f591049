-------------------------- MODULE MCKafkaPublisher --------------------------
(***************************************************************************)
(* KafkaPublisher for TLC: its constants are numbers and stand in the cfg. *)
(***************************************************************************)
EXTENDS KafkaPublisher
=============================================================================
