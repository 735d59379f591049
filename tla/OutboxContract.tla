--------------------------- MODULE OutboxContract ---------------------------
(***************************************************************************)
(* What a transactional outbox promises, whatever its implementation: a    *)
(* row that was stored may be handed to the broker any number of times,    *)
(* and it is taken off the list of pending work only after it was handed   *)
(* over at least once.  No row is ever forgotten and none is ever given up *)
(* (README.md: "Transactional Outbox - Ensures reliable event publishing   *)
(* even during failures").                                                 *)
(***************************************************************************)
CONSTANT Rows  \* identities of outbox rows

VARIABLES
  stored,     \* rows committed to the outbox
  delivered,  \* rows the broker has accepted at least once
  settled     \* rows no longer pending

vars == <<stored, delivered, settled>>

Init ==
  /\ stored = {}
  /\ delivered = {}
  /\ settled = {}

(* A new row becomes pending work.                                         *)
Store(r) ==
  /\ r \notin stored
  /\ stored' = stored \cup {r}
  /\ UNCHANGED <<delivered, settled>>

(* The broker accepts a row for the first time.  Later copies of it change *)
(* nothing here: the promise is at-least-once.                             *)
Deliver(r) ==
  /\ r \in stored
  /\ delivered' = delivered \cup {r}
  /\ UNCHANGED <<stored, settled>>

(* A row leaves the pending list.                                          *)
Settle(r) ==
  /\ r \in delivered
  /\ settled' = settled \cup {r}
  /\ UNCHANGED <<stored, delivered>>

Next == \E r \in Rows : Store(r) \/ Deliver(r) \/ Settle(r)

Spec == Init /\ [][Next]_vars

=============================================================================
