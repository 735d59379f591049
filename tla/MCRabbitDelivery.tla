-------------------------- MODULE MCRabbitDelivery --------------------------
(***************************************************************************)
(* A small instance of RabbitDelivery: two subscribers on one queue.       *)
(***************************************************************************)
EXTENDS RabbitDelivery

CONSTANTS s1, s2

MCSubscribers == {s1, s2}

=============================================================================
