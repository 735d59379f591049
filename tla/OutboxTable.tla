----------------------------- MODULE OutboxTable -----------------------------
(***************************************************************************)
(* What the callers of OutboxRepositoryImpl may rely on: the table         *)
(* event_outbox as if every repository call were one indivisible step.     *)
(* Outbox, one level up, is written against this view of the table.        *)
(***************************************************************************)
EXTENDS Integers

CONSTANT MaxRows  \* bound: rows ever inserted

VARIABLE table    \* partial function from ids to rows

Ids == 1..MaxRows

Row == [status : {"PENDING", "PUBLISHED", "FAILED"}, retryCount : Nat]

Inserts(r) ==
  /\ r \in Ids \ DOMAIN table
  /\ table' = [q \in DOMAIN table \cup {r} |->
                 IF q = r THEN [status |-> "PENDING", retryCount |-> 0] ELSE table[q]]

Settles(r, status) == table' = [table EXCEPT ![r].status = status]

Counts(r) == table' = [table EXCEPT ![r].retryCount = @ + 1]

CleansUp(S) ==
  /\ \A r \in S : table[r].status = "PUBLISHED"
  /\ table' = [q \in DOMAIN table \ S |-> table[q]]

Init == table = [r \in {} |-> [status |-> "PENDING", retryCount |-> 0]]

Next ==
  \/ \E r \in Ids : Inserts(r)
  \/ \E r \in DOMAIN table :
       Counts(r) \/ \E status \in {"PUBLISHED", "FAILED"} : Settles(r, status)
  \/ \E S \in SUBSET DOMAIN table : CleansUp(S)

Spec == Init /\ [][Next]_table

=============================================================================
