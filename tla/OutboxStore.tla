----------------------------- MODULE OutboxStore -----------------------------
(***************************************************************************)
(* The outbox repository below the level of whole calls: a connection of   *)
(* the pool is taken, a transaction begun, one statement executed under    *)
(* the locks of the rows it writes, and the transaction committed or       *)
(* rolled back.  The goroutines of one instance share its pool, all of     *)
(* them the table; OutboxTable is the view they have of it.                *)
(*                                                                         *)
(* The database is PostgreSQL in READ COMMITTED: a statement waits for the *)
(* lock of a row and then sees the row as last committed.  When            *)
(* transactions wait for each other in a circle, it aborts one of them.    *)
(***************************************************************************)
EXTENDS Integers, FiniteSets, Sequences, Functions

CONSTANTS
  Instances,     \* running copies of cmd/orchestron on one database
  Clients,       \* goroutines that call the repository
  InstanceOf,    \* [Clients -> Instances]
  KindsOf,       \* [Clients -> SUBSET Kinds]: the calls each of them makes
  Cancellable,   \* clients whose context main can cancel (the polling loop)
  MaxOpenConns,  \* cfg.MaxOpenConns, the size of each pool
  MaxRows,       \* bound: rows ever inserted
  MaxCounts,     \* bound: calls of IncrementRetryCount
  MaxFaults      \* bound: faults in a behaviour

(* Save, FindPendingEntries, MarkAsPublished, MarkAsFailed,                *)
(* IncrementRetryCount and CleanupOldEntries.                              *)
Kinds == {"save", "find", "publish", "fail", "count", "cleanup"}

ASSUME StoreAssumption ==
  /\ IsFiniteSet(Clients)
  /\ InstanceOf \in [Clients -> Instances]
  /\ KindsOf \in [Clients -> SUBSET Kinds]
  /\ Cancellable \subseteq Clients
  /\ {MaxOpenConns, MaxRows} \subseteq Nat \ {0}
  /\ {MaxCounts, MaxFaults} \subseteq Nat

VARIABLES
  table,      \* event_outbox as committed: partial function from ids to rows
  inserted,   \* ids the sequence of the table has handed out
  call,       \* [Clients -> Call]: what each client is doing
  draft,      \* per client, the rows its statement has locked and their new values
  todo,       \* per client, the rows its DELETE has still to visit, in its order
  free,       \* [Instances -> Nat]: connections of each pool that nobody holds
  cancelled,  \* clients whose context is done
  acked,      \* per id, the calls of IncrementRetryCount that returned nil
  counts,     \* calls of IncrementRetryCount so far
  faults      \* faults so far, by kind

vars == <<table, inserted, call, draft, todo, free, cancelled, acked, counts, faults>>

-----------------------------------------------------------------------------
(* Types and helpers                                                       *)

Ids == 1..MaxRows

Row == [status : {"PENDING", "PUBLISHED", "FAILED"}, retryCount : Nat]

(* A call waits for a connection (begin), is about to execute its          *)
(* statement (exec), visits the rows of a DELETE (scan), or has only to    *)
(* commit (commit).                                                        *)
Call == [kind : Kinds, row : Ids, phase : {"idle", "begin", "exec", "scan", "commit"}]

NoCall == [kind |-> "find", row |-> 1, phase |-> "idle"]

NewRow == [status |-> "PENDING", retryCount |-> 0]

NoDraft == [r \in {} |-> NewRow]

Locked(c, r) == \E d \in Clients \ {c} : r \in DOMAIN draft[d]

Phase(c, phase) == call' = [call EXCEPT ![c].phase = phase]

(* A fault hits a COMMIT under way, or anything else.                      *)
FaultKinds == {"statement", "commit"}

Fault(kind) ==
  /\ faults["statement"] + faults["commit"] < MaxFaults
  /\ faults' = [faults EXCEPT ![kind] = @ + 1]

(* Mutant: the error branch returns without tx.Rollback().                 *)
Release_Leaks(c) ==
  /\ free' = free
  /\ draft' = [draft EXCEPT ![c] = NoDraft]
  /\ todo' = [todo EXCEPT ![c] = <<>>]
  /\ call' = [call EXCEPT ![c] = NoCall]

(* The transaction ends: its locks go, its connection is back in the pool. *)
Release(c) ==
  /\ free' = [free EXCEPT ![InstanceOf[c]] = @ + 1]
  /\ draft' = [draft EXCEPT ![c] = NoDraft]
  /\ todo' = [todo EXCEPT ![c] = <<>>]
  /\ call' = [call EXCEPT ![c] = NoCall]

(* The sequence gives the new row the next id.                             *)
Insert ==
  /\ inserted' = inserted + 1
  /\ table' = [r \in DOMAIN table \cup {inserted + 1} |->
                 IF r = inserted + 1 THEN NewRow ELSE table[r]]

(* The value an UPDATE gives to a row.                                     *)
Updated(kind, row) ==
  CASE kind = "publish" -> [row EXCEPT !.status = "PUBLISHED"]
    [] kind = "fail"    -> [row EXCEPT !.status = "FAILED"]
    [] kind = "count"   -> [row EXCEPT !.retryCount = @ + 1]

-----------------------------------------------------------------------------
(* Calls                                                                   *)

(* A client calls the repository.  An update names a row that was once     *)
(* read from the table and may be gone by now.                             *)
Invoke(c, kind, r) ==
  /\ call[c].phase = "idle"
  /\ kind \in KindsOf[c]
  /\ kind \in {"publish", "fail", "count"} => r <= inserted
  /\ kind \notin {"publish", "fail", "count"} => r = 1
  /\ kind = "save" => inserted < MaxRows
  /\ counts' = IF kind = "count" THEN counts + 1 ELSE counts
  /\ counts' <= MaxCounts
  /\ call' = [call EXCEPT ![c] = [kind |-> kind, row |-> r, phase |-> "begin"]]
  /\ UNCHANGED <<table, inserted, draft, todo, free, cancelled, acked, faults>>

(* BeginTxx, or the connection a plain query needs: wait for a free one.   *)
Begin(c) ==
  /\ call[c].phase = "begin" /\ c \notin cancelled
  /\ free[InstanceOf[c]] > 0
  /\ free' = [free EXCEPT ![InstanceOf[c]] = @ - 1]
  /\ Phase(c, "exec")
  /\ UNCHANGED <<table, inserted, draft, todo, cancelled, acked, counts, faults>>

(* BeginTxx fails: the context is done or the database refuses.            *)
BeginFails(c) ==
  /\ call[c].phase = "begin"
  /\ \/ c \in cancelled /\ UNCHANGED faults
     \/ Fault("statement")
  /\ call' = [call EXCEPT ![c] = NoCall]
  /\ UNCHANGED <<table, inserted, draft, todo, free, cancelled, acked, counts>>

(* FindPendingEntries: one SELECT, whose rows are read before it returns.  *)
Find(c) ==
  /\ call[c].phase = "exec" /\ call[c].kind = "find"
  /\ Release(c)
  /\ UNCHANGED <<table, inserted, cancelled, acked, counts, faults>>

(* Save: one INSERT outside any transaction.                               *)
Save(c) ==
  /\ call[c].phase = "exec" /\ call[c].kind = "save"
  /\ inserted < MaxRows
  /\ Insert
  /\ Release(c)
  /\ UNCHANGED <<cancelled, acked, counts, faults>>

(* The INSERT fails, or it commits and its answer is lost.                 *)
SaveFails(c) ==
  /\ call[c].phase = "exec" /\ call[c].kind = "save"
  /\ Fault("statement")
  /\ \/ inserted < MaxRows /\ Insert
     \/ UNCHANGED <<table, inserted>>
  /\ Release(c)
  /\ UNCHANGED <<cancelled, acked, counts>>

(* Mutant: the new value is computed without waiting for the row's lock.   *)
Update_NoLock(c) ==
  /\ call[c].phase = "exec" /\ call[c].kind \in {"publish", "fail", "count"}
  /\ draft' = [draft EXCEPT ![c] =
                 IF call[c].row \in DOMAIN table
                 THEN [r \in {call[c].row} |-> Updated(call[c].kind, table[r])]
                 ELSE NoDraft]
  /\ Phase(c, "commit")
  /\ UNCHANGED <<table, inserted, todo, free, cancelled, acked, counts, faults>>

(* Mutant: the statement runs on r.db, not on tx, and needs a second       *)
(* connection while the transaction keeps the first.                       *)
Update_SecondConnection(c) ==
  /\ call[c].phase = "exec" /\ call[c].kind \in {"publish", "fail", "count"}
  /\ free[InstanceOf[c]] > 0
  /\ ~Locked(c, call[c].row)
  /\ draft' = [draft EXCEPT ![c] =
                 IF call[c].row \in DOMAIN table
                 THEN [r \in {call[c].row} |-> Updated(call[c].kind, table[r])]
                 ELSE NoDraft]
  /\ Phase(c, "commit")
  /\ UNCHANGED <<table, inserted, todo, free, cancelled, acked, counts, faults>>

(* UPDATE ... WHERE id = row.  No row with that id is not an error.        *)
Update(c) ==
  /\ call[c].phase = "exec" /\ call[c].kind \in {"publish", "fail", "count"}
  /\ ~Locked(c, call[c].row)
  /\ draft' = [draft EXCEPT ![c] =
                 IF call[c].row \in DOMAIN table
                 THEN [r \in {call[c].row} |-> Updated(call[c].kind, table[r])]
                 ELSE NoDraft]
  /\ Phase(c, "commit")
  /\ UNCHANGED <<table, inserted, todo, free, cancelled, acked, counts, faults>>

(* DELETE ... WHERE status = PUBLISHED AND published_at < t: the rows that *)
(* match when the statement starts, any of which may be old enough, in the *)
(* order in which its plan comes to them, which may be any.                *)
CleanupOldEntries(c) ==
  /\ call[c].phase = "exec" /\ call[c].kind = "cleanup"
  /\ LET Published == {r \in DOMAIN table : table[r].status = "PUBLISHED"}
     IN  \E n \in 0..MaxRows : \E plan \in Injection(1..n, Published) :
           todo' = [todo EXCEPT ![c] = plan]
  /\ Phase(c, "scan")
  /\ UNCHANGED <<table, inserted, draft, free, cancelled, acked, counts, faults>>

(* Mutant: the row is deleted as the statement found it at its start.      *)
Visit_NoRecheck(c) ==
  /\ call[c].phase = "scan" /\ todo[c] # <<>>
  /\ LET r == Head(todo[c])
     IN  /\ todo' = [todo EXCEPT ![c] = Tail(@)]
         /\ draft' = IF r \in DOMAIN table
                     THEN [draft EXCEPT ![c] =
                             [q \in DOMAIN @ \cup {r} |-> IF q = r THEN table[r] ELSE @[q]]]
                     ELSE draft
  /\ UNCHANGED <<table, inserted, call, free, cancelled, acked, counts, faults>>

(* The DELETE comes to a row: it waits for its lock and tests the row as   *)
(* it is by then.                                                          *)
Visit(c) ==
  /\ call[c].phase = "scan" /\ todo[c] # <<>>
  /\ LET r == Head(todo[c])
     IN  /\ ~Locked(c, r)
         /\ todo' = [todo EXCEPT ![c] = Tail(@)]
         /\ draft' = IF r \in DOMAIN table /\ table[r].status = "PUBLISHED"
                     THEN [draft EXCEPT ![c] =
                             [q \in DOMAIN @ \cup {r} |-> IF q = r THEN table[r] ELSE @[q]]]
                     ELSE draft
  /\ UNCHANGED <<table, inserted, call, free, cancelled, acked, counts, faults>>

ScanEnds(c) ==
  /\ call[c].phase = "scan" /\ todo[c] = <<>>
  /\ Phase(c, "commit")
  /\ UNCHANGED <<table, inserted, draft, todo, free, cancelled, acked, counts, faults>>

(* The DELETE of c waits for a row that d holds.  An UPDATE that waits     *)
(* holds no row yet.                                                       *)
WaitsFor(c, d) ==
  /\ call[c].phase = "scan" /\ todo[c] # <<>>
  /\ d # c /\ Head(todo[c]) \in DOMAIN draft[d]

(* c is on a circle of clients each of which waits for the next.           *)
Deadlocked(c) ==
  \E S \in SUBSET Clients :
    /\ c \in S
    /\ \A d \in S : (\E e \in S : WaitsFor(d, e)) /\ (\E e \in S : WaitsFor(e, d))

(* What a commit does to the table.                                        *)
Apply(c) ==
  table' = IF call[c].kind = "cleanup"
           THEN [r \in DOMAIN table \ DOMAIN draft[c] |-> table[r]]
           ELSE [r \in DOMAIN table |-> IF r \in DOMAIN draft[c] THEN draft[c][r] ELSE table[r]]

(* tx.Commit returns nil.                                                  *)
Commit(c) ==
  /\ call[c].phase = "commit" /\ c \notin cancelled
  /\ Apply(c)
  /\ acked' = IF call[c].kind = "count"
              THEN [r \in Ids |-> IF r \in DOMAIN draft[c] THEN acked[r] + 1 ELSE acked[r]]
              ELSE acked
  /\ Release(c)
  /\ UNCHANGED <<inserted, cancelled, counts, faults>>

(* The connection breaks during COMMIT: the caller gets an error, and the  *)
(* transaction is committed or not.                                        *)
CommitFails(c) ==
  /\ call[c].phase = "commit"
  /\ Fault("commit")
  /\ Apply(c) \/ UNCHANGED table
  /\ Release(c)
  /\ UNCHANGED <<inserted, cancelled, acked, counts>>

(* The statement fails, or PostgreSQL aborts it as part of a circle, or    *)
(* database/sql ends the transaction because its context is done:          *)
(* tx.Rollback().                                                          *)
Rollback(c) ==
  /\ call[c].phase \in {"exec", "scan", "commit"}
  /\ \/ (c \in cancelled \/ Deadlocked(c)) /\ UNCHANGED faults
     \/ call[c].phase # "commit" /\ call[c].kind # "save" /\ Fault("statement")
  /\ Release(c)
  /\ UNCHANGED <<table, inserted, cancelled, acked, counts>>

(* main cancels the context of the loop.                                   *)
Cancel(c) ==
  /\ c \in Cancellable \ cancelled
  /\ cancelled' = cancelled \cup {c}
  /\ UNCHANGED <<table, inserted, call, draft, todo, free, acked, counts, faults>>

-----------------------------------------------------------------------------

Init ==
  /\ table = [r \in {} |-> NewRow]
  /\ inserted = 0
  /\ call = [c \in Clients |-> NoCall]
  /\ draft = [c \in Clients |-> NoDraft]
  /\ todo = [c \in Clients |-> <<>>]
  /\ free = [i \in Instances |-> MaxOpenConns]
  /\ cancelled = {}
  /\ acked = [r \in Ids |-> 0]
  /\ counts = 0
  /\ faults = [kind \in FaultKinds |-> 0]

Operation(c) ==
  \/ \E kind \in Kinds, r \in Ids : Invoke(c, kind, r)
  \/ Begin(c) \/ BeginFails(c)
  \/ Find(c) \/ Save(c) \/ SaveFails(c) \/ Update(c)
  \/ CleanupOldEntries(c) \/ Visit(c) \/ ScanEnds(c)
  \/ Commit(c) \/ CommitFails(c) \/ Rollback(c)

Next == \E c \in Clients : Operation(c) \/ Cancel(c)

Spec == Init /\ [][Next]_vars

(* The steps that take a client on: those of a call that goes well, and    *)
(* the end of one whose context is done or that waits in a circle.         *)
Proceed(c) ==
  \/ Begin(c)
  \/ Find(c) \/ Save(c) \/ Update(c)
  \/ CleanupOldEntries(c) \/ Visit(c) \/ ScanEnds(c)
  \/ Commit(c)
  \/ c \in cancelled /\ BeginFails(c)
  \/ (c \in cancelled \/ Deadlocked(c)) /\ Rollback(c)

(* Fairness.  Statements are executed and transactions end.  A connection  *)
(* or a row lock that is free again and again is some day given to a       *)
(* client that waits for it: database/sql hands a returned connection to a *)
(* waiting request first, and PostgreSQL queues those who wait for a lock  *)
(* and looks for circles among them after deadlock_timeout.                *)
FairSpec == Spec /\ \A c \in Clients : SF_vars(Proceed(c))

-----------------------------------------------------------------------------
(* Properties                                                              *)

PageOf(S) == [S -> Row]

(* Every variable has its type.                                            *)
TypeOK ==
  /\ inserted \in 0..MaxRows
  /\ DOMAIN table \subseteq 1..inserted
  /\ table \in PageOf(DOMAIN table)
  /\ call \in [Clients -> Call]
  /\ DOMAIN draft = Clients
  /\ \A c \in Clients : draft[c] \in PageOf(DOMAIN draft[c])
  /\ todo \in [Clients -> Seq(Ids)]
  /\ free \in [Instances -> 0..MaxOpenConns]
  /\ cancelled \subseteq Cancellable
  /\ acked \in [Ids -> Nat]
  /\ counts \in 0..MaxCounts
  /\ faults \in [FaultKinds -> 0..MaxFaults]

Holding(i) ==
  {c \in Clients : InstanceOf[c] = i /\ call[c].phase \in {"exec", "scan", "commit"}}

(* Every way out of a repository call gives its connection back, error     *)
(* branches and cancelled contexts included: the pool never shrinks.       *)
PoolAccounted == \A i \in Instances : free[i] + Cardinality(Holding(i)) = MaxOpenConns

(* No two transactions hold the same row, and what one is about to commit  *)
(* for a row was computed from the row as it still is.                     *)
DraftIsCurrent ==
  \A c \in Clients : \A r \in DOMAIN draft[c] :
    /\ \A d \in Clients \ {c} : r \notin DOMAIN draft[d]
    /\ r \in DOMAIN table
    /\ call[c].kind = "cleanup" => table[r].status = "PUBLISHED"
    /\ call[c].kind # "cleanup" => draft[c][r] = Updated(call[c].kind, table[r])

(* No update of retry_count is lost, though several loops may count the    *)
(* same row at once: the column is the number of calls that returned nil,  *)
(* up to commits whose answer was lost.                                    *)
CountsAccounted ==
  \A r \in DOMAIN table :
    acked[r] <= table[r].retryCount /\ table[r].retryCount <= acked[r] + faults["commit"]

(* Every repository call returns: no callers wait for each other for ever  *)
(* over the connections of a pool, and those whose DELETEs wait for each   *)
(* other over rows leave the circle with an error and give all they hold   *)
(* back.                                                                   *)
CallsReturn == \A c \in Clients : []<>(call[c].phase = "idle")

(* Seen from outside, every call is one indivisible step on the table; in  *)
(* particular the clean-up removes no row that is not PUBLISHED when the   *)
(* DELETE commits.                                                         *)
Contract == INSTANCE OutboxTable

ImplementsTable == Contract!Spec

=============================================================================
