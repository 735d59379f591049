---------------------------- MODULE EventJourney ----------------------------
(***************************************************************************)
(* What becomes of an accepted event in the whole service: what EventFate  *)
(* says of the way to its tables, and from the outbox on to the broker.    *)
(* An event is delivered only from the outbox, recorded only after it was  *)
(* delivered, and no way leads from one end to another.                    *)
(***************************************************************************)
EXTENDS EventFate

Deliver(e) == fate[e] = "stored" /\ fate' = [fate EXCEPT ![e] = "delivered"]

Settle(e) == fate[e] = "delivered" /\ fate' = [fate EXCEPT ![e] = "settled"]

JourneyNext == Next \/ \E e \in Events : Deliver(e) \/ Settle(e)

JourneySpec == Init /\ [][JourneyNext]_fate

=============================================================================
