-------------------------- MODULE OutboxStoreProofs --------------------------
(***************************************************************************)
(* Theorems of OutboxStore for any number of instances, callers, rows,     *)
(* connections and faults.                                                 *)
(***************************************************************************)
EXTENDS OutboxStore, FiniteSetTheorems, TLAPS

-----------------------------------------------------------------------------
(* The pool                                                                *)

Busy == {"exec", "scan", "commit"}

(* The bounds are numbers, and there is room for a row.                    *)
LEMMA Bounds ==
  /\ MaxOpenConns \in Nat /\ MaxRows \in Nat /\ MaxCounts \in Nat /\ MaxFaults \in Nat
  /\ 1 \in Ids
BY StoreAssumption DEF Ids

(* A fault of one kind is counted, and stays within the bound.             *)
LEMMA FaultEffect ==
  ASSUME faults \in [FaultKinds -> 0..MaxFaults], NEW kind \in FaultKinds, Fault(kind)
  PROVE  /\ faults' \in [FaultKinds -> 0..MaxFaults]
         /\ faults'[kind] = faults[kind] + 1
         /\ \A k \in FaultKinds : k # kind => faults'[k] = faults[k]
<1>1. MaxFaults \in Nat
  BY Bounds
<1>2. /\ faults["statement"] \in Nat /\ faults["commit"] \in Nat
      /\ faults["statement"] + faults["commit"] < MaxFaults
  BY <1>1 DEF Fault, FaultKinds
<1>3. faults[kind] \in Nat /\ faults[kind] + 1 \in 0..MaxFaults
  BY <1>1, <1>2 DEF FaultKinds
<1> QED
  BY <1>3 DEF Fault

(* The clients that hold a connection of a pool are finitely many.         *)
LEMMA HoldingFinite == ASSUME NEW i \in Instances PROVE IsFiniteSet(Holding(i))
<1>1. Holding(i) \subseteq Clients
  BY DEF Holding
<1> QED
  BY <1>1, FS_Subset, StoreAssumption

(* A client that was not busy takes a connection.                          *)
LEMMA ConnectionTaken ==
  ASSUME TypeOK, PoolAccounted, NEW c \in Clients, Begin(c)
  PROVE  PoolAccounted' /\ free' \in [Instances -> 0..MaxOpenConns]
<1> DEFINE i == InstanceOf[c]
<1>1. i \in Instances
  BY StoreAssumption
<1>2. free' \in [Instances -> 0..MaxOpenConns] /\ free'[i] = free[i] - 1
  BY <1>1, Bounds DEF TypeOK, Begin
<1>3. \A j \in Instances \ {i} : free'[j] = free[j] /\ Holding(j)' = Holding(j)
  BY <1>1 DEF TypeOK, Begin, Phase, Holding
<1>4. Holding(i)' = Holding(i) \cup {c} /\ c \notin Holding(i)
  BY DEF TypeOK, Begin, Phase, Holding
<1>5. Cardinality(Holding(i)') = Cardinality(Holding(i)) + 1 /\ Cardinality(Holding(i)) \in Nat
  BY <1>1, <1>4, HoldingFinite, FS_AddElement, FS_CardinalityType
<1> HIDE DEF i
<1>6. free[i] \in Int /\ free[i] + Cardinality(Holding(i)) = MaxOpenConns
  BY <1>1 DEF TypeOK, PoolAccounted
<1>7. free'[i] + Cardinality(Holding(i)') = MaxOpenConns
  BY <1>2, <1>5, <1>6
<1> QED
  BY <1>2, <1>3, <1>7 DEF PoolAccounted

(* A client that is busy gives its connection back.                        *)
LEMMA ConnectionReturned ==
  ASSUME TypeOK, PoolAccounted, NEW c \in Clients, call[c].phase \in Busy, Release(c)
  PROVE  PoolAccounted' /\ free' \in [Instances -> 0..MaxOpenConns]
<1> DEFINE i == InstanceOf[c]
<1>1. i \in Instances
  BY StoreAssumption
<1>2. free'[i] = free[i] + 1 /\ free' = [free EXCEPT ![i] = @ + 1]
  BY <1>1 DEF TypeOK, Release
<1>3. \A j \in Instances \ {i} : free'[j] = free[j] /\ Holding(j)' = Holding(j)
  BY <1>1 DEF TypeOK, Release, Holding
<1>4. Holding(i)' = Holding(i) \ {c} /\ c \in Holding(i)
  BY DEF TypeOK, Release, Holding, NoCall, Busy
<1>5. /\ Cardinality(Holding(i)') = Cardinality(Holding(i)) - 1
      /\ Cardinality(Holding(i)) \in Nat
      /\ Cardinality(Holding(i)') \in Nat
  <2>1. IsFiniteSet(Holding(i)) /\ IsFiniteSet(Holding(i)')
    BY <1>1, <1>4, HoldingFinite, FS_RemoveElement
  <2> QED
    BY <1>4, <2>1, FS_RemoveElement, FS_CardinalityType
<1> HIDE DEF i
<1>6. /\ free[i] \in 0..MaxOpenConns
      /\ free[i] + Cardinality(Holding(i)) = MaxOpenConns
  BY <1>1 DEF TypeOK, PoolAccounted
<1>7. free'[i] + Cardinality(Holding(i)') = MaxOpenConns /\ free'[i] \in 0..MaxOpenConns
  BY <1>2, <1>5, <1>6, Bounds
<1>8. free' \in [Instances -> 0..MaxOpenConns]
  BY <1>1, <1>2, <1>7 DEF TypeOK
<1> QED
  BY <1>3, <1>7, <1>8 DEF PoolAccounted

(* Nobody else touches the pools.                                          *)
LEMMA ConnectionKept ==
  ASSUME PoolAccounted, free' = free,
         \A d \in Clients : call'[d].phase \in Busy <=> call[d].phase \in Busy
  PROVE  PoolAccounted'
<1>1. \A i \in Instances : Holding(i)' = Holding(i)
  BY DEF Holding, Busy
<1> QED
  BY <1>1 DEF PoolAccounted

-----------------------------------------------------------------------------
(* Type correctness                                                        *)

TypeAndPool == TypeOK /\ PoolAccounted

(* At the start every pool is full and nobody holds anything.              *)
LEMMA InitType == Init => TypeAndPool
<1> SUFFICES ASSUME Init PROVE TypeAndPool
  OBVIOUS
<1>1. DOMAIN table = {} /\ table \in PageOf(DOMAIN table)
  BY DEF Init, PageOf
<1>2. \A c \in Clients : draft[c] \in PageOf(DOMAIN draft[c])
  BY DEF Init, NoDraft, PageOf
<1>3. NoCall \in Call
  BY Bounds DEF NoCall, Call, Kinds
<1>4. TypeOK
  BY <1>1, <1>2, <1>3, Bounds DEF Init, TypeOK
<1>5. \A i \in Instances : Holding(i) = {}
  BY DEF Init, Holding, NoCall
<1>6. \A i \in Instances : Cardinality(Holding(i)) = 0
  BY <1>5, FS_EmptySet
<1>7. PoolAccounted
  BY <1>6, Bounds DEF Init, PoolAccounted
<1> QED
  BY <1>4, <1>7 DEF TypeAndPool

(* What Release leaves behind is well typed.                               *)
LEMMA ReleaseType ==
  ASSUME TypeOK, PoolAccounted, NEW c \in Clients, call[c].phase \in Busy, Release(c)
  PROVE  /\ PoolAccounted'
         /\ free' \in [Instances -> 0..MaxOpenConns]
         /\ call' \in [Clients -> Call]
         /\ DOMAIN draft' = Clients
         /\ \A d \in Clients : draft'[d] \in PageOf(DOMAIN draft'[d])
         /\ todo' \in [Clients -> Seq(Ids)]
<1>1. NoCall \in Call
  BY Bounds DEF NoCall, Call, Kinds
<1>2. NoDraft \in PageOf(DOMAIN NoDraft)
  BY DEF NoDraft, PageOf
<1>3. todo' \in [Clients -> Seq(Ids)]
  <2>1. <<>> \in Seq(Ids)
    OBVIOUS
  <2> QED
    BY <2>1 DEF TypeOK, Release
<1>4. call' \in [Clients -> Call]
  BY <1>1 DEF TypeOK, Release
<1>5. DOMAIN draft' = Clients /\ \A d \in Clients : draft'[d] \in PageOf(DOMAIN draft'[d])
  BY <1>2 DEF TypeOK, Release
<1> QED
  BY <1>3, <1>4, <1>5, ConnectionReturned

(* A call goes from one phase to another.                                  *)
LEMMA PhaseType ==
  ASSUME TypeOK, NEW c \in Clients,
         NEW phase \in {"idle", "begin", "exec", "scan", "commit"}, Phase(c, phase)
  PROVE  call' \in [Clients -> Call]
BY DEF TypeOK, Phase, Call

(* The table stays well typed when the sequence hands out an id.           *)
LEMMA InsertType ==
  ASSUME TypeOK, inserted < MaxRows, Insert
  PROVE  /\ inserted' \in 0..MaxRows
         /\ DOMAIN table' \subseteq 1..inserted'
         /\ table' \in PageOf(DOMAIN table')
<1>1. NewRow \in Row
  BY DEF NewRow, Row
<1>2. inserted' \in 0..MaxRows /\ inserted' = inserted + 1
  BY Bounds DEF TypeOK, Insert
<1>3. DOMAIN table' = DOMAIN table \cup {inserted + 1}
  BY DEF Insert
<1>4. DOMAIN table' \subseteq 1..inserted'
  BY <1>2, <1>3 DEF TypeOK
<1>5. table' \in PageOf(DOMAIN table')
  BY <1>1 DEF TypeOK, Insert, PageOf
<1> QED
  BY <1>2, <1>4, <1>5

(* An UPDATE makes a row of a row.                                         *)
LEMMA UpdatedType ==
  ASSUME NEW row \in Row, NEW kind \in {"publish", "fail", "count"}
  PROVE  Updated(kind, row) \in Row
BY DEF Updated, Row

(* A commit writes rows over rows or removes some.                         *)
LEMMA ApplyType ==
  ASSUME TypeOK, NEW c \in Clients, Apply(c)
  PROVE  DOMAIN table' \subseteq DOMAIN table /\ table' \in PageOf(DOMAIN table')
BY DEF TypeOK, Apply, PageOf

(* Every step of a call keeps the types and the account of the pools.      *)
LEMMA OperationType ==
  ASSUME TypeAndPool, NEW c \in Clients, Operation(c)
  PROVE  TypeAndPool'
<1>t. TypeOK /\ PoolAccounted
  BY DEF TypeAndPool
<1>1. ASSUME NEW kind \in Kinds, NEW r \in Ids, Invoke(c, kind, r) PROVE TypeAndPool'
  <2>1. [kind |-> kind, row |-> r, phase |-> "begin"] \in Call
    BY DEF Call
  <2>2. counts' \in 0..MaxCounts
    BY <1>t, <1>1, Bounds DEF TypeOK, Invoke
  <2>3. TypeOK'
    BY <1>t, <1>1, <2>1, <2>2 DEF TypeOK, Invoke, PageOf
  <2>4. \A d \in Clients : call'[d].phase \in Busy <=> call[d].phase \in Busy
    BY <1>t, <1>1 DEF TypeOK, Invoke, Busy
  <2>5. PoolAccounted'
    BY <1>t, <1>1, <2>4, ConnectionKept DEF Invoke
  <2> QED
    BY <2>3, <2>5 DEF TypeAndPool
<1>2. CASE Begin(c)
  <2>1. PoolAccounted' /\ free' \in [Instances -> 0..MaxOpenConns]
    BY <1>t, <1>2, ConnectionTaken
  <2>2. call' \in [Clients -> Call]
    BY <1>t, <1>2, PhaseType DEF Begin
  <2> QED
    BY <1>t, <1>2, <2>1, <2>2 DEF TypeAndPool, TypeOK, Begin, PageOf
<1>3. CASE BeginFails(c)
  <2>1. NoCall \in Call
    BY Bounds DEF NoCall, Call, Kinds
  <2>2. faults' \in [FaultKinds -> 0..MaxFaults]
    BY <1>t, <1>3, FaultEffect DEF FaultKinds, TypeOK, BeginFails
  <2>3. \A d \in Clients : call'[d].phase \in Busy <=> call[d].phase \in Busy
    BY <1>t, <1>3 DEF TypeOK, BeginFails, NoCall, Busy
  <2>4. PoolAccounted'
    BY <1>t, <1>3, <2>3, ConnectionKept DEF BeginFails
  <2>5. TypeOK'
    BY <1>t, <1>3, <2>1, <2>2 DEF TypeOK, BeginFails, PageOf
  <2> QED
    BY <2>4, <2>5 DEF TypeAndPool
<1>4. ASSUME call[c].phase \in Busy, Release(c),
             inserted' \in 0..MaxRows, DOMAIN table' \subseteq 1..inserted',
             table' \in PageOf(DOMAIN table'),
             acked' \in [Ids -> Nat], faults' \in [FaultKinds -> 0..MaxFaults],
             UNCHANGED <<cancelled, counts>>
      PROVE  TypeAndPool'
  BY <1>t, <1>4, ReleaseType DEF TypeAndPool, TypeOK
<1>5. CASE Find(c)
  BY <1>t, <1>4, <1>5 DEF Find, TypeOK, Busy, PageOf
<1>6. CASE Save(c)
  BY <1>t, <1>4, <1>6, InsertType DEF Save, TypeOK, Busy
<1>7. CASE SaveFails(c)
  <2>1. faults' \in [FaultKinds -> 0..MaxFaults]
    BY <1>t, <1>7, FaultEffect DEF FaultKinds, TypeOK, SaveFails
  <2>2. CASE inserted < MaxRows /\ Insert
    BY <1>t, <1>4, <1>7, <2>1, <2>2, InsertType DEF SaveFails, TypeOK, Busy
  <2>3. CASE UNCHANGED <<table, inserted>>
    BY <1>t, <1>4, <1>7, <2>1, <2>3 DEF SaveFails, TypeOK, Busy, PageOf
  <2> QED
    BY <1>7, <2>2, <2>3 DEF SaveFails
<1>8. ASSUME NEW phase \in Busy, call[c].phase \in Busy,
             call' = call \/ Phase(c, phase),
             DOMAIN draft' = Clients,
             \A d \in Clients : draft'[d] \in PageOf(DOMAIN draft'[d]),
             todo' \in [Clients -> Seq(Ids)],
             UNCHANGED <<table, inserted, free, cancelled, acked, counts, faults>>
      PROVE  TypeAndPool'
  <2>1. call' \in [Clients -> Call]
    BY <1>t, <1>8, PhaseType DEF TypeOK, Busy
  <2>2. \A d \in Clients : call'[d].phase \in Busy <=> call[d].phase \in Busy
    BY <1>t, <1>8 DEF TypeOK, Phase, Call
  <2>3. PoolAccounted'
    BY <1>t, <1>8, <2>2, ConnectionKept
  <2> QED
    BY <1>t, <1>8, <2>1, <2>3 DEF TypeAndPool, TypeOK, PageOf
<1>9. CASE Update(c)
  <2>1. ASSUME call[c].row \in DOMAIN table
        PROVE  [r \in {call[c].row} |-> Updated(call[c].kind, table[r])]
                 \in PageOf({call[c].row})
    BY <1>t, <1>9, <2>1, UpdatedType DEF TypeOK, Update, PageOf
  <2>2. NoDraft \in PageOf(DOMAIN NoDraft)
    BY DEF NoDraft, PageOf
  <2>3. \A d \in Clients : draft'[d] \in PageOf(DOMAIN draft'[d])
    BY <1>t, <1>9, <2>1, <2>2 DEF TypeOK, Update
  <2> QED
    BY <1>t, <1>8, <1>9, <2>3 DEF Update, TypeOK, Busy
<1>10. CASE CleanupOldEntries(c)
  <2>1. PICK n \in 0..MaxRows :
          \E plan \in Injection(1..n, {r \in DOMAIN table : table[r].status = "PUBLISHED"}) :
            todo' = [todo EXCEPT ![c] = plan]
    BY <1>10 DEF CleanupOldEntries
  <2> DEFINE Published == {r \in DOMAIN table : table[r].status = "PUBLISHED"}
  <2>p. Published \subseteq Ids
    BY <1>t, Bounds DEF TypeOK, Ids
  <2>i. PICK plan \in Injection(1..n, Published) : todo' = [todo EXCEPT ![c] = plan]
    BY <2>1
  <2>f. plan \in [1..n -> Published]
    BY DEF Injection
  <2> HIDE DEF Published
  <2>2. plan \in [1..n -> Ids] /\ todo' = [todo EXCEPT ![c] = plan]
    BY <2>p, <2>i, <2>f
  <2>3. n \in Nat /\ plan \in Seq(Ids)
    BY <2>2, Bounds
  <2>4. todo' \in [Clients -> Seq(Ids)]
    BY <1>t, <2>2, <2>3 DEF TypeOK
  <2> QED
    BY <1>t, <1>8, <1>10, <2>4 DEF CleanupOldEntries, TypeOK, Busy
<1>11. CASE Visit(c)
  <2>1. todo[c] \in Seq(Ids) /\ todo[c] # <<>>
    BY <1>t, <1>11 DEF TypeOK, Visit
  <2>2. Tail(todo[c]) \in Seq(Ids)
    BY <2>1
  <2>3. todo' \in [Clients -> Seq(Ids)]
    BY <1>t, <1>11, <2>2 DEF TypeOK, Visit
  <2>4. DOMAIN draft' = Clients /\ \A d \in Clients : draft'[d] \in PageOf(DOMAIN draft'[d])
    BY <1>t, <1>11 DEF TypeOK, Visit, PageOf
  <2> QED
    BY <1>t, <1>8, <1>11, <2>3, <2>4 DEF Visit, TypeOK, Busy
<1>12. CASE ScanEnds(c)
  BY <1>t, <1>8, <1>12 DEF ScanEnds, TypeOK, Busy
<1>13. CASE Commit(c)
  <2>1. acked' \in [Ids -> Nat]
    BY <1>t, <1>13 DEF TypeOK, Commit
  <2> QED
    BY <1>t, <1>4, <1>13, <2>1, ApplyType DEF Commit, TypeOK, Busy
<1>14. CASE CommitFails(c)
  <2>1. faults' \in [FaultKinds -> 0..MaxFaults]
    BY <1>t, <1>14, FaultEffect DEF FaultKinds, TypeOK, CommitFails
  <2>2. DOMAIN table' \subseteq DOMAIN table /\ table' \in PageOf(DOMAIN table')
    BY <1>t, <1>14, ApplyType DEF TypeOK, CommitFails, PageOf
  <2> QED
    BY <1>t, <1>4, <1>14, <2>1, <2>2 DEF CommitFails, TypeOK, Busy
<1>15. CASE Rollback(c)
  <2>1. faults' \in [FaultKinds -> 0..MaxFaults]
    BY <1>t, <1>15, FaultEffect DEF FaultKinds, TypeOK, Rollback
  <2> QED
    BY <1>t, <1>4, <1>15, <2>1 DEF Rollback, TypeOK, Busy, PageOf
<1> QED
  BY <1>1, <1>2, <1>3, <1>5, <1>6, <1>7, <1>9, <1>10, <1>11, <1>12, <1>13, <1>14, <1>15
     DEF Operation

(* Types and pools are preserved by every step.                            *)
LEMMA NextType == TypeAndPool /\ [Next]_vars => TypeAndPool'
<1> SUFFICES ASSUME TypeAndPool, [Next]_vars PROVE TypeAndPool'
  OBVIOUS
<1>1. CASE UNCHANGED vars
  <2>1. \A i \in Instances : Holding(i)' = Holding(i)
    BY <1>1 DEF vars, Holding
  <2> QED
    BY <1>1, <2>1 DEF TypeAndPool, TypeOK, PoolAccounted, vars, PageOf
<1>2. ASSUME NEW c \in Clients, Cancel(c) PROVE TypeAndPool'
  <2>1. \A i \in Instances : Holding(i)' = Holding(i)
    BY <1>2 DEF Cancel, Holding
  <2> QED
    BY <1>2, <2>1 DEF TypeAndPool, TypeOK, PoolAccounted, Cancel, PageOf
<1> QED
  BY <1>1, <1>2, OperationType DEF Next

(* Every reachable state of the store is well typed.                       *)
THEOREM TypeCorrect == Spec => []TypeOK
<1>1. TypeAndPool => TypeOK
  BY DEF TypeAndPool
<1> QED
  BY <1>1, InitType, NextType, PTL DEF Spec

(* However calls, faults and cancellations interleave, no error branch     *)
(* leaks a connection of a pool and none gives one back that it has not.   *)
THEOREM Pool == Spec => []PoolAccounted
<1>1. TypeAndPool => PoolAccounted
  BY DEF TypeAndPool
<1> QED
  BY <1>1, InitType, NextType, PTL DEF Spec

-----------------------------------------------------------------------------
(* What a transaction has locked                                           *)

(* Only a statement that has run holds rows: a DELETE any number, an       *)
(* UPDATE at most the one it names.                                        *)
DraftShape ==
  \A c \in Clients :
    /\ call[c].phase \notin {"scan", "commit"} => DOMAIN draft[c] = {}
    /\ call[c].phase = "scan" => call[c].kind = "cleanup"
    /\ call[c].phase = "commit" => call[c].kind \in {"publish", "fail", "count", "cleanup"}
    /\ call[c].kind # "cleanup" => DOMAIN draft[c] \subseteq {call[c].row}

(* Ids that are still to come have never been counted.                     *)
NotYetCounted == \A r \in Ids : r > inserted => acked[r] = 0

IInv ==
  TypeAndPool /\ DraftShape /\ DraftIsCurrent /\ NotYetCounted /\ CountsAccounted

(* The kinds of step the table and the drafts can see.  A step of c that   *)
(* leaves the others alone:                                                *)
OthersKeep(c) ==
  \A d \in Clients \ {c} : draft'[d] = draft[d] /\ call'[d] = call[d]

(* ... and whose own draft stays or is dropped;                            *)
OwnDraftStays(c) ==
  \/ DOMAIN draft'[c] = {}
  \/ draft'[c] = draft[c] /\ call'[c].kind = call[c].kind

Quiet(c) ==
  /\ OthersKeep(c) /\ OwnDraftStays(c)
  /\ UNCHANGED <<table, inserted, acked>>
  /\ faults'["commit"] >= faults["commit"]

(* ... that inserts a row;                                                 *)
Inserting(c) ==
  /\ OthersKeep(c) /\ DOMAIN draft'[c] = {}
  /\ inserted < MaxRows /\ Insert
  /\ UNCHANGED acked
  /\ faults'["commit"] >= faults["commit"]

(* ... that locks a row of the table and computes its new value;           *)
Locking(c, r) ==
  /\ OthersKeep(c)
  /\ r \in DOMAIN table /\ ~Locked(c, r)
  /\ DOMAIN draft'[c] = DOMAIN draft[c] \cup {r}
  /\ \A q \in DOMAIN draft[c] : q # r => draft'[c][q] = draft[c][q]
  /\ call'[c].kind = call[c].kind
  /\ call[c].kind = "cleanup" => table[r].status = "PUBLISHED"
  /\ call[c].kind # "cleanup" => draft'[c][r] = Updated(call[c].kind, table[r])
  /\ UNCHANGED <<table, inserted, acked, faults>>

(* ... that commits.                                                       *)
Applying(c) ==
  /\ OthersKeep(c) /\ DOMAIN draft'[c] = {}
  /\ call[c].phase = "commit" /\ Apply(c)
  /\ UNCHANGED inserted
  /\ \/ /\ acked' = IF call[c].kind = "count"
                    THEN [r \in Ids |-> IF r \in DOMAIN draft[c] THEN acked[r] + 1 ELSE acked[r]]
                    ELSE acked
        /\ faults' = faults
     \/ acked' = acked /\ faults'["commit"] = faults["commit"] + 1

Effect(c) ==
  Quiet(c) \/ Inserting(c) \/ (\E r \in Ids : Locking(c, r)) \/ Applying(c)

(* The end of a transaction leaves the drafts of the others alone.         *)
LEMMA ReleaseEffect ==
  ASSUME TypeOK, NEW c \in Clients, Release(c)
  PROVE  OthersKeep(c) /\ DOMAIN draft'[c] = {} /\ call'[c] = NoCall
BY DEF TypeOK, Release, OthersKeep, NoDraft

(* Faults count up.                                                        *)
LEMMA FaultCounts ==
  ASSUME TypeOK
  PROVE  /\ faults["commit"] \in Nat /\ faults["commit"] >= faults["commit"]
         /\ Fault("statement") => faults'["commit"] >= faults["commit"]
         /\ Fault("commit") => /\ faults'["commit"] = faults["commit"] + 1
                              /\ faults'["commit"] >= faults["commit"]
<1>1. faults["commit"] \in Nat
  BY Bounds DEF TypeOK, FaultKinds
<1>2. ASSUME Fault("statement") PROVE faults'["commit"] = faults["commit"]
  BY <1>2, FaultEffect DEF TypeOK, FaultKinds
<1>3. ASSUME Fault("commit") PROVE faults'["commit"] = faults["commit"] + 1
  BY <1>3, FaultEffect DEF TypeOK, FaultKinds
<1> QED
  BY <1>1, <1>2, <1>3

(* A change of phase changes neither the kind nor the row of a call.       *)
LEMMA PhaseEffect ==
  ASSUME TypeOK, NEW c \in Clients, NEW phase, Phase(c, phase)
  PROVE  /\ \A d \in Clients \ {c} : call'[d] = call[d]
         /\ call'[c].kind = call[c].kind /\ call'[c].row = call[c].row
         /\ call'[c].phase = phase
BY DEF TypeOK, Phase, Call

(* Every step of a call has one of these effects and keeps the shape.      *)
LEMMA OperationEffect ==
  ASSUME TypeOK, DraftShape, NEW c \in Clients, Operation(c)
  PROVE  Effect(c) /\ DraftShape'
<1>f. faults["commit"] >= faults["commit"]
  BY FaultCounts
<1>0. ASSUME Release(c) PROVE OthersKeep(c) /\ DOMAIN draft'[c] = {} /\ DraftShape'
  BY <1>0, ReleaseEffect DEF DraftShape, OthersKeep, NoCall
<1>1. ASSUME NEW kind \in Kinds, NEW r \in Ids, Invoke(c, kind, r) PROVE Effect(c) /\ DraftShape'
  BY <1>f, <1>1 DEF TypeOK, Invoke, DraftShape, Effect, Quiet, OthersKeep, OwnDraftStays
<1>2. CASE Begin(c)
  BY <1>f, <1>2, PhaseEffect DEF Begin, DraftShape, Effect, Quiet, OthersKeep, OwnDraftStays
<1>3. CASE BeginFails(c)
  <2>1. faults'["commit"] >= faults["commit"]
    BY <1>f, <1>3, FaultCounts DEF BeginFails
  <2> QED
    BY <1>3, <2>1 DEF TypeOK, BeginFails, NoCall, DraftShape, Effect, Quiet, OthersKeep, OwnDraftStays
<1>4. CASE Find(c)
  BY <1>f, <1>0, <1>4 DEF Find, Effect, Quiet, OwnDraftStays
<1>5. CASE Save(c)
  BY <1>f, <1>0, <1>5 DEF Save, Effect, Inserting
<1>6. CASE SaveFails(c)
  BY <1>0, <1>6, FaultCounts DEF SaveFails, Effect, Inserting, Quiet, OwnDraftStays
<1>7. CASE Update(c)
  <2>1. /\ OthersKeep(c) /\ call'[c].kind = call[c].kind /\ call'[c].row = call[c].row
        /\ call'[c].phase = "commit" /\ call[c].row \in Ids
        /\ call[c].kind \in {"publish", "fail", "count"}
        /\ DOMAIN draft[c] = {}
    BY <1>7, PhaseEffect DEF TypeOK, Call, Update, OthersKeep, DraftShape
  <2>2. CASE call[c].row \in DOMAIN table
    <3>1. draft'[c] = [r \in {call[c].row} |-> Updated(call[c].kind, table[r])]
      BY <1>7, <2>2 DEF TypeOK, Update
    <3>2. Locking(c, call[c].row)
      BY <1>7, <2>1, <2>2, <3>1 DEF Update, Locking
    <3>3. DraftShape'
      BY <2>1, <3>1 DEF DraftShape, OthersKeep
    <3> QED
      BY <2>1, <3>2, <3>3 DEF Effect
  <2>3. CASE call[c].row \notin DOMAIN table
    <3>1. DOMAIN draft'[c] = {}
      BY <1>7, <2>3 DEF TypeOK, Update, NoDraft
    <3>2. Quiet(c)
      BY <1>f, <1>7, <2>1, <3>1 DEF Update, Quiet, OwnDraftStays
    <3>3. DraftShape'
      BY <2>1, <3>1 DEF DraftShape, OthersKeep
    <3> QED
      BY <3>2, <3>3 DEF Effect
  <2> QED
    BY <2>2, <2>3
<1>8. CASE CleanupOldEntries(c)
  BY <1>f, <1>8, PhaseEffect
     DEF CleanupOldEntries, DraftShape, Effect, Quiet, OthersKeep, OwnDraftStays
<1>9. CASE Visit(c)
  <2> DEFINE r == Head(todo[c])
  <2>0. r \in Ids
    BY <1>9 DEF TypeOK, Visit
  <2>1. call[c].phase = "scan" /\ call[c].kind = "cleanup" /\ call' = call
    BY <1>9 DEF Visit, DraftShape
  <2>2. CASE r \in DOMAIN table /\ table[r].status = "PUBLISHED"
    <3>1. draft' = [draft EXCEPT ![c] =
            [q \in DOMAIN draft[c] \cup {r} |-> IF q = r THEN table[r] ELSE draft[c][q]]]
      BY <1>9, <2>2 DEF Visit
    <3>2. Locking(c, r)
      BY <1>9, <2>1, <2>2, <3>1 DEF TypeOK, Visit, Locking, OthersKeep
    <3>3. DraftShape'
      BY <2>1, <3>2 DEF DraftShape, Locking, OthersKeep
    <3> QED
      BY <2>0, <3>2, <3>3 DEF Effect
  <2>3. CASE ~(r \in DOMAIN table /\ table[r].status = "PUBLISHED")
    BY <1>f, <1>9, <2>1, <2>3 DEF Visit, DraftShape, Effect, Quiet, OthersKeep, OwnDraftStays
  <2> QED
    BY <2>2, <2>3
<1>10. CASE ScanEnds(c)
  BY <1>f, <1>10, PhaseEffect
     DEF ScanEnds, DraftShape, Effect, Quiet, OthersKeep, OwnDraftStays
<1>11. CASE Commit(c)
  BY <1>0, <1>11 DEF Commit, Effect, Applying
<1>12. CASE CommitFails(c)
  BY <1>0, <1>12, FaultCounts DEF CommitFails, Effect, Applying, Quiet, OwnDraftStays
<1>13. CASE Rollback(c)
  BY <1>f, <1>0, <1>13, FaultCounts DEF Rollback, Effect, Quiet, OwnDraftStays
<1> QED
  BY <1>1, <1>2, <1>3, <1>4, <1>5, <1>6, <1>7, <1>8, <1>9, <1>10, <1>11, <1>12, <1>13
     DEF Operation

-----------------------------------------------------------------------------
(* The row locks do their work                                             *)

(* No step makes a draft stale or puts a row into two of them.             *)
LEMMA EffectKeepsDrafts ==
  ASSUME TypeOK, DraftShape, DraftIsCurrent, NEW c \in Clients, Effect(c)
  PROVE  DraftIsCurrent'
<1>1. CASE Quiet(c)
  BY <1>1 DEF Quiet, OthersKeep, OwnDraftStays, DraftIsCurrent
<1>2. CASE Inserting(c)
  <2>1. \A r \in DOMAIN table : r \in DOMAIN table' /\ table'[r] = table[r]
    BY <1>2 DEF TypeOK, Inserting, Insert
  <2> QED
    BY <1>2, <2>1 DEF Inserting, OthersKeep, DraftIsCurrent
<1>3. ASSUME NEW r \in Ids, Locking(c, r) PROVE DraftIsCurrent'
  <2>1. \A d \in Clients \ {c} : r \notin DOMAIN draft[d]
    BY <1>3 DEF Locking, Locked
  <2>2. ASSUME NEW q \in DOMAIN draft'[c]
        PROVE  /\ \A d \in Clients \ {c} : q \notin DOMAIN draft'[d]
               /\ q \in DOMAIN table'
               /\ call'[c].kind = "cleanup" => table'[q].status = "PUBLISHED"
               /\ call'[c].kind # "cleanup" => draft'[c][q] = Updated(call'[c].kind, table'[q])
    BY <1>3, <2>1, <2>2 DEF Locking, OthersKeep, DraftIsCurrent
  <2>3. ASSUME NEW d \in Clients \ {c}, NEW q \in DOMAIN draft'[d]
        PROVE  /\ \A e \in Clients \ {d} : q \notin DOMAIN draft'[e]
               /\ q \in DOMAIN table'
               /\ call'[d].kind = "cleanup" => table'[q].status = "PUBLISHED"
               /\ call'[d].kind # "cleanup" => draft'[d][q] = Updated(call'[d].kind, table'[q])
    BY <1>3, <2>1, <2>3 DEF Locking, OthersKeep, DraftIsCurrent
  <2> QED
    BY <2>2, <2>3 DEF DraftIsCurrent
<1>4. CASE Applying(c)
  <2>1. \A r \in DOMAIN table \ DOMAIN draft[c] : r \in DOMAIN table' /\ table'[r] = table[r]
    BY <1>4 DEF Applying, Apply
  <2>2. ASSUME NEW d \in Clients \ {c}, NEW q \in DOMAIN draft'[d]
        PROVE  /\ \A e \in Clients \ {d} : q \notin DOMAIN draft'[e]
               /\ q \in DOMAIN table'
               /\ call'[d].kind = "cleanup" => table'[q].status = "PUBLISHED"
               /\ call'[d].kind # "cleanup" => draft'[d][q] = Updated(call'[d].kind, table'[q])
    <3>1. draft'[d] = draft[d] /\ call'[d] = call[d] /\ q \in DOMAIN draft[d]
      BY <1>4, <2>2 DEF Applying, OthersKeep
    <3>2. q \notin DOMAIN draft[c] /\ q \in DOMAIN table
      BY <3>1 DEF DraftIsCurrent
    <3>3. \A e \in Clients \ {d} : q \notin DOMAIN draft'[e]
      BY <1>4, <3>1 DEF Applying, OthersKeep, DraftIsCurrent
    <3> QED
      BY <2>1, <3>1, <3>2, <3>3 DEF DraftIsCurrent
  <2> QED
    BY <1>4, <2>2 DEF Applying, DraftIsCurrent
<1> QED
  BY <1>1, <1>2, <1>3, <1>4 DEF Effect

-----------------------------------------------------------------------------
(* No counted attempt is lost                                              *)

(* What a commit does to the row it holds and to the others.               *)
LEMMA ApplyEffect ==
  ASSUME TypeOK, DraftIsCurrent, NEW c \in Clients, Apply(c), NEW r \in DOMAIN table'
  PROVE  /\ r \in DOMAIN table
         /\ r \notin DOMAIN draft[c] => table'[r] = table[r]
         /\ r \in DOMAIN draft[c] => call[c].kind # "cleanup" /\ table'[r] = Updated(call[c].kind, table[r])
BY DEF Apply, DraftIsCurrent

(* The columns an UPDATE touches.                                          *)
LEMMA UpdatedEffect ==
  ASSUME NEW row \in Row
  PROVE  /\ Updated("publish", row) = [row EXCEPT !.status = "PUBLISHED"]
         /\ Updated("fail", row) = [row EXCEPT !.status = "FAILED"]
         /\ Updated("count", row) = [row EXCEPT !.retryCount = @ + 1]
         /\ Updated("publish", row).retryCount = row.retryCount
         /\ Updated("fail", row).retryCount = row.retryCount
         /\ Updated("count", row).retryCount = row.retryCount + 1
BY DEF Updated, Row

(* The column and the successful calls keep in step.                       *)
LEMMA EffectKeepsCounts ==
  ASSUME TypeOK, TypeOK', DraftShape, DraftIsCurrent, NotYetCounted, CountsAccounted,
         NEW c \in Clients, Effect(c)
  PROVE  NotYetCounted' /\ CountsAccounted'
<1>a. faults["commit"] \in Nat /\ faults'["commit"] \in Nat
  BY Bounds DEF TypeOK, FaultKinds
<1>b. /\ \A r \in DOMAIN table : r \in Ids /\ r \in 1..inserted /\ table[r] \in Row /\ table[r].retryCount \in Nat
      /\ \A r \in Ids : acked[r] \in Nat /\ r \in Nat
      /\ inserted \in Nat
  BY Bounds DEF TypeOK, PageOf, Row, Ids
<1>1. CASE Quiet(c)
  BY <1>a, <1>b, <1>1 DEF Quiet, NotYetCounted, CountsAccounted
<1>2. CASE Inserting(c)
  <2>1. inserted' = inserted + 1 /\ acked' = acked /\ faults'["commit"] >= faults["commit"]
    BY <1>a, <1>b, <1>2 DEF Inserting, Insert
  <2>2. NotYetCounted'
    BY <1>a, <1>b, <2>1 DEF NotYetCounted
  <2>3. ASSUME NEW r \in DOMAIN table'
        PROVE  acked'[r] <= table'[r].retryCount /\ table'[r].retryCount <= acked'[r] + faults'["commit"]
    <3>1. CASE r \in DOMAIN table
      <4>1. table'[r] = table[r]
        BY <1>a, <1>b, <1>2, <3>1 DEF Inserting, Insert
      <4> QED
        BY <1>a, <1>b, <2>1, <3>1, <4>1 DEF CountsAccounted
    <3>2. CASE r = inserted + 1
      <4>1. table'[r].retryCount = 0 /\ r \in Ids /\ r > inserted
        BY <1>a, <1>b, <1>2, <3>2, Bounds DEF Inserting, Insert, NewRow, Ids
      <4>2. acked'[r] = 0
        BY <2>1, <4>1 DEF NotYetCounted
      <4> QED
        BY <1>a, <1>b, <2>1, <4>1, <4>2
    <3> QED
      BY <1>2, <2>3, <3>1, <3>2 DEF Inserting, Insert
  <2> QED
    BY <2>2, <2>3 DEF CountsAccounted
<1>3. ASSUME NEW r \in Ids, Locking(c, r) PROVE NotYetCounted' /\ CountsAccounted'
  BY <1>3 DEF Locking, NotYetCounted, CountsAccounted
<1>4. CASE Applying(c)
  <2>1. \A r \in DOMAIN draft[c] : r \in DOMAIN table
    BY DEF DraftIsCurrent
  <2>2. NotYetCounted'
    BY <1>a, <1>b, <1>4, <2>1 DEF Applying, NotYetCounted
  <2>3. ASSUME NEW r \in DOMAIN table'
        PROVE  acked'[r] <= table'[r].retryCount /\ table'[r].retryCount <= acked'[r] + faults'["commit"]
    <3>1. r \in DOMAIN table /\ r \in Ids /\ acked[r] \in Nat /\ table[r].retryCount \in Nat
      BY <1>a, <1>b, <1>4, ApplyEffect DEF Applying
    <3>2. acked[r] <= table[r].retryCount /\ table[r].retryCount <= acked[r] + faults["commit"]
      BY <3>1 DEF CountsAccounted
    <3>3. CASE r \notin DOMAIN draft[c]
      <4>1. table'[r] = table[r] /\ acked'[r] = acked[r]
        BY <1>4, <3>1, <3>3, ApplyEffect DEF Applying
      <4>2. faults' = faults \/ faults'["commit"] = faults["commit"] + 1
        BY <1>4 DEF Applying
      <4> QED
        BY <1>a, <1>b, <3>1, <3>2, <4>1, <4>2
    <3>4. CASE r \in DOMAIN draft[c] /\ call[c].kind = "count"
      <4>1. table'[r].retryCount = table[r].retryCount + 1
        BY <1>a, <1>b, <1>4, <3>1, <3>4, ApplyEffect, UpdatedEffect DEF Applying
      <4>2. (acked'[r] = acked[r] + 1 /\ faults' = faults) \/ (acked'[r] = acked[r] /\ faults'["commit"] = faults["commit"] + 1)
        BY <1>4, <3>1, <3>4 DEF Applying
      <4> QED
        BY <1>a, <1>b, <3>1, <3>2, <4>1, <4>2
    <3>5. CASE r \in DOMAIN draft[c] /\ call[c].kind # "count"
      <4>1. call[c].kind \in {"publish", "fail"} /\ table'[r] = Updated(call[c].kind, table[r])
        BY <1>4, <3>5, ApplyEffect DEF Applying, DraftShape
      <4>2. table'[r].retryCount = table[r].retryCount
        BY <1>a, <1>b, <3>1, <4>1, UpdatedEffect
      <4>3. acked'[r] = acked[r] /\ (faults' = faults \/ faults'["commit"] = faults["commit"] + 1)
        BY <1>4, <3>5 DEF Applying
      <4> QED
        BY <1>a, <1>b, <3>1, <3>2, <4>2, <4>3
    <3> QED
      BY <3>3, <3>4, <3>5
  <2> QED
    BY <2>2, <2>3 DEF CountsAccounted
<1> QED
  BY <1>1, <1>2, <1>3, <1>4 DEF Effect

(* The invariant holds at the start.                                       *)
LEMMA InitInv == Init => IInv
<1> SUFFICES ASSUME Init PROVE IInv
  OBVIOUS
<1>1. TypeAndPool
  BY InitType
<1>2. DraftShape /\ DraftIsCurrent
  BY DEF Init, DraftShape, DraftIsCurrent, NoDraft, NoCall
<1>3. NotYetCounted /\ CountsAccounted
  BY DEF Init, NotYetCounted, CountsAccounted
<1> QED
  BY <1>1, <1>2, <1>3 DEF IInv

(* The invariant is inductive.                                             *)
LEMMA NextInv == IInv /\ [Next]_vars => IInv'
<1> SUFFICES ASSUME IInv, [Next]_vars PROVE IInv'
  OBVIOUS
<1>1. TypeAndPool' /\ TypeOK' /\ TypeOK
  BY NextType DEF IInv, TypeAndPool
<1>2. ASSUME UNCHANGED <<table, inserted, call, draft, acked, faults>> PROVE IInv'
  BY <1>1, <1>2 DEF IInv, DraftShape, DraftIsCurrent, NotYetCounted, CountsAccounted
<1>3. ASSUME NEW c \in Clients, Operation(c) PROVE IInv'
  <2>1. Effect(c) /\ DraftShape'
    BY <1>1, <1>3, OperationEffect DEF IInv
  <2> QED
    BY <1>1, <2>1, EffectKeepsDrafts, EffectKeepsCounts DEF IInv
<1> QED
  BY <1>2, <1>3 DEF Next, Cancel, vars

(* IInv holds in every reachable state.                                    *)
LEMMA Invariance == Spec => []IInv
<1> QED
  BY InitInv, NextInv, PTL DEF Spec

(* Row locks keep concurrent calls apart: what a transaction is about to   *)
(* commit is computed from the row as it still is, and a DELETE holds      *)
(* PUBLISHED rows only.                                                    *)
THEOREM Serialized == Spec => []DraftIsCurrent
<1>1. IInv => DraftIsCurrent
  BY DEF IInv
<1> QED
  BY <1>1, Invariance, PTL

(* However many loops count attempts at one row, retry_count loses none of *)
(* the calls that returned nil, and exceeds them only by commits whose     *)
(* answer was lost.                                                        *)
THEOREM Counted == Spec => []CountsAccounted
<1>1. IInv => CountsAccounted
  BY DEF IInv
<1> QED
  BY <1>1, Invariance, PTL

-----------------------------------------------------------------------------
(* Refinement                                                              *)

(* The table is empty at the start on both levels.                         *)
LEMMA InitRefines == Init => Contract!Init
BY DEF Init, Contract!Init, NewRow

(* A commit is one step of the table: the clean-up of some PUBLISHED rows, *)
(* the update of one row, or nothing when the row is gone.                 *)
LEMMA ApplyRefines ==
  ASSUME TypeOK, DraftShape, DraftIsCurrent, NEW c \in Clients,
         call[c].phase = "commit", Apply(c)
  PROVE  Contract!Next \/ UNCHANGED table
<1>1. CASE call[c].kind = "cleanup"
  <2>1. DOMAIN draft[c] \in SUBSET DOMAIN table
    BY DEF DraftIsCurrent
  <2>2. Contract!CleansUp(DOMAIN draft[c])
    BY <1>1 DEF Contract!CleansUp, Apply, DraftIsCurrent
  <2> QED
    BY <2>1, <2>2 DEF Contract!Next
<1>2. CASE call[c].kind # "cleanup"
  <2>1. call[c].kind \in {"publish", "fail", "count"} /\ DOMAIN draft[c] \subseteq {call[c].row}
    BY <1>2 DEF DraftShape
  <2>2. table' = [r \in DOMAIN table |-> IF r \in DOMAIN draft[c] THEN draft[c][r] ELSE table[r]]
    BY <1>2 DEF Apply
  <2>3. table = [r \in DOMAIN table |-> table[r]] /\ \A r \in DOMAIN table : table[r] \in Row
    BY DEF TypeOK, PageOf
  <2>4. CASE DOMAIN draft[c] = {}
    BY <2>2, <2>3, <2>4
  <2>5. CASE DOMAIN draft[c] = {call[c].row}
    <3> DEFINE r == call[c].row
    <3>1. r \in DOMAIN table /\ draft[c][r] = Updated(call[c].kind, table[r])
      BY <1>2, <2>5 DEF DraftIsCurrent
    <3>2. table' = [table EXCEPT ![r] = Updated(call[c].kind, table[r])]
      BY <2>2, <2>3, <2>5, <3>1
    <3>3. CASE call[c].kind = "publish"
      <4>1. Contract!Settles(r, "PUBLISHED")
        BY <2>3, <3>1, <3>2, <3>3, UpdatedEffect DEF Contract!Settles
      <4> QED
        BY <3>1, <4>1 DEF Contract!Next
    <3>4. CASE call[c].kind = "fail"
      <4>1. Contract!Settles(r, "FAILED")
        BY <2>3, <3>1, <3>2, <3>4, UpdatedEffect DEF Contract!Settles
      <4> QED
        BY <3>1, <4>1 DEF Contract!Next
    <3>5. CASE call[c].kind = "count"
      <4>1. Contract!Counts(r)
        BY <2>3, <3>1, <3>2, <3>5, UpdatedEffect DEF Contract!Counts
      <4> QED
        BY <3>1, <4>1 DEF Contract!Next
    <3> QED
      BY <2>1, <3>3, <3>4, <3>5
  <2> QED
    BY <2>1, <2>4, <2>5
<1> QED
  BY <1>1, <1>2

(* Every step is one step of the table or none.                            *)
LEMMA NextRefines ==
  ASSUME IInv, [Next]_vars
  PROVE  [Contract!Next]_table
<1>t. TypeOK /\ DraftShape /\ DraftIsCurrent
  BY DEF IInv, TypeAndPool
<1>1. ASSUME NEW c \in Clients, Effect(c) PROVE [Contract!Next]_table
  <2>1. CASE Inserting(c)
    <3>1. inserted + 1 \in Ids \ DOMAIN table
      BY <1>t, <2>1, Bounds DEF TypeOK, Inserting, Ids
    <3>2. Contract!Inserts(inserted + 1)
      BY <2>1, <3>1 DEF Inserting, Insert, NewRow, Contract!Inserts, Contract!Ids, Ids
    <3>3. inserted + 1 \in Contract!Ids
      BY <3>1 DEF Ids, Contract!Ids
    <3> QED
      BY <3>2, <3>3 DEF Contract!Next
  <2>2. CASE Applying(c)
    BY <1>t, <2>2, ApplyRefines DEF Applying
  <2> QED
    BY <1>1, <2>1, <2>2 DEF Effect, Quiet, Locking
<1>2. ASSUME NEW c \in Clients, Operation(c) PROVE Effect(c)
  BY <1>t, <1>2, OperationEffect
<1> QED
  BY <1>1, <1>2 DEF Next, Cancel, vars

(* OutboxStore implements OutboxTable: transactions, locks and the pool    *)
(* make of every repository call one indivisible step on the table, or     *)
(* none.                                                                   *)
THEOREM Refinement == Spec => ImplementsTable
<1>1. IInv /\ [Next]_vars => [Contract!Next]_table
  BY NextRefines
<1> QED
  BY <1>1, InitRefines, Invariance, PTL DEF Spec, ImplementsTable, Contract!Spec

=============================================================================
