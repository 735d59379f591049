------------------------------ MODULE EventFate ------------------------------
(***************************************************************************)
(* What becomes of an event the service has accepted.  It ends in the      *)
(* outbox or in the dead letter queue, never in both and never in one      *)
(* after the other; or it is lost, and then it appears in neither.         *)
(***************************************************************************)
CONSTANT Events

VARIABLE fate  \* [Events -> {"absent", "accepted", "stored", "dead", "lost"}]

Init == fate = [e \in Events |-> "absent"]

Accept(e) == fate[e] = "absent" /\ fate' = [fate EXCEPT ![e] = "accepted"]

Store(e) == fate[e] = "accepted" /\ fate' = [fate EXCEPT ![e] = "stored"]

Bury(e) == fate[e] = "accepted" /\ fate' = [fate EXCEPT ![e] = "dead"]

(* A process that dies may take all its unfinished events with it.         *)
Lose(S) ==
  /\ \A e \in S : fate[e] = "accepted"
  /\ fate' = [e \in Events |-> IF e \in S THEN "lost" ELSE fate[e]]

Next ==
  \/ \E e \in Events : Accept(e) \/ Store(e) \/ Bury(e)
  \/ \E S \in SUBSET Events : Lose(S)

Spec == Init /\ [][Next]_fate

=============================================================================
