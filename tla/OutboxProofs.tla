---------------------------- MODULE OutboxProofs ----------------------------
(***************************************************************************)
(* Theorems of Outbox for every number of instances, events and rows, every*)
(* route table and every bound on faults.                                  *)
(***************************************************************************)
EXTENDS Outbox, TLAPS

-----------------------------------------------------------------------------
(* Helpers                                                                 *)

(* A fault of one kind is counted, and stays within the bound.             *)
LEMMA FaultEffect ==
  ASSUME faults \in [FaultKinds -> 0..MaxFaults], NEW kind \in FaultKinds, Fault(kind)
  PROVE  /\ faults' \in [FaultKinds -> 0..MaxFaults]
         /\ faults'[kind] = faults[kind] + 1
         /\ \A k \in FaultKinds : k # kind => faults'[k] = faults[k]
<1>1. MaxFaults \in Nat
  BY OutboxAssumption
<1>2. faults[kind] \in Nat /\ faults[kind] + 1 <= MaxFaults
  BY <1>1 DEF Fault, FaultKinds
<1> QED
  BY <1>1, <1>2 DEF Fault

(* UpdateEntry changes at most the row it names, and only for a loop that  *)
(* asked for it before its context was cancelled.                          *)
LEMMA UpdateEntryEffect ==
  ASSUME NEW p \in Instances, NEW r \in DOMAIN outbox, NEW entry \in OutboxEntry,
         DOMAIN outbox \subseteq RowIds, outbox \in PageOf(DOMAIN outbox),
         faults \in [FaultKinds -> 0..MaxFaults],
         UpdateEntry(p, r, entry)
  PROVE  /\ DOMAIN outbox' = DOMAIN outbox
         /\ outbox' \in PageOf(DOMAIN outbox)
         /\ \A q \in DOMAIN outbox : q # r => outbox'[q] = outbox[q]
         /\ outbox'[r] \in {entry, outbox[r]}
         /\ faults' \in [FaultKinds -> 0..MaxFaults]
<1>1. faults' = faults \/ Fault("loop")
  BY DEF UpdateEntry
<1>2. faults' \in [FaultKinds -> 0..MaxFaults]
  BY <1>1, FaultEffect DEF FaultKinds
<1> QED
  BY <1>2 DEF UpdateEntry, PageOf

(* Insert adds one pending row and leaves every other row as it was.       *)
LEMMA InsertEffect ==
  ASSUME NEW e \in Events, NEW r \in RowIds,
         DOMAIN outbox \subseteq RowIds, outbox \in PageOf(DOMAIN outbox),
         Insert(e, r)
  PROVE  /\ DOMAIN outbox' = DOMAIN outbox \cup {r}
         /\ DOMAIN outbox' \subseteq RowIds
         /\ outbox' \in PageOf(DOMAIN outbox')
         /\ \A q \in DOMAIN outbox : outbox'[q] = outbox[q]
         /\ r \notin DOMAIN outbox
         /\ outbox'[r] = NewEntry(e)
<1>1. RetryCap \in Nat
  BY OutboxAssumption
<1>2. NewEntry(e) \in OutboxEntry
  BY <1>1 DEF NewEntry, OutboxEntry, OutboxStatus
<1> QED
  BY <1>2 DEF Insert, PageOf

(* The page and the position of a loop after it has finished with a row.   *)
LEMMA NextEntryEffect ==
  ASSUME TypeOK, NEW p \in Instances, NEW r \in DOMAIN batch[p], NextEntry(p, r)
  PROVE  /\ DOMAIN batch' = Instances
         /\ batch' = [q \in Instances |-> batch'[q]]
         /\ \A q \in Instances : /\ DOMAIN batch'[q] \subseteq DOMAIN batch[q]
                                 /\ batch'[q] \in PageOf(DOMAIN batch'[q])
         /\ pc' \in [Instances -> Positions]
         /\ \A q \in Instances \ {p} : pc'[q] = pc[q] /\ batch'[q] = batch[q]
         /\ pc'[p] \in {"idle", "publish"}
         /\ attempts' \in [Instances -> 0..AttemptCap]
<1>1. AttemptCap \in Nat
  BY OutboxAssumption
<1>2. batch'[p] = [q \in DOMAIN batch[p] \ {r} |-> batch[p][q]]
  BY DEF TypeOK, NextEntry
<1>3. batch'[p] \in PageOf(DOMAIN batch'[p]) /\ DOMAIN batch'[p] \subseteq DOMAIN batch[p]
  BY <1>2 DEF TypeOK, PageOf
<1>4. \A q \in Instances \ {p} : batch'[q] = batch[q]
  BY DEF TypeOK, NextEntry
<1>5. DOMAIN batch' = Instances /\ batch' = [q \in Instances |-> batch'[q]]
  BY DEF TypeOK, NextEntry
<1> QED
  BY <1>1, <1>3, <1>4, <1>5 DEF TypeOK, NextEntry, Positions

(* Counting up stays below the cap.                                        *)
LEMMA BumpType ==
  ASSUME NEW cap \in Nat, NEW n \in 0..cap
  PROVE  Bump(n, cap) \in 0..cap
BY DEF Bump

(* What processBatch writes back is a row again.                           *)
LEMMA EntryTypes ==
  ASSUME NEW x \in OutboxEntry
  PROVE  /\ [x EXCEPT !.retryCount = Bump(@, RetryCap)] \in OutboxEntry
         /\ \A s \in OutboxStatus : [x EXCEPT !.status = s] \in OutboxEntry
<1>1. RetryCap \in Nat
  BY OutboxAssumption
<1>2. Bump(x.retryCount, RetryCap) \in 0..RetryCap
  BY <1>1, BumpType DEF OutboxEntry
<1> QED
  BY <1>2 DEF OutboxEntry

-----------------------------------------------------------------------------
(* Type correctness                                                        *)

(* The initial state is well typed: an empty table and idle loops.         *)
LEMMA InitType == Init => TypeOK
<1> SUFFICES ASSUME Init PROVE TypeOK
  OBVIOUS
<1>1. {MaxRows, RetryCap, AttemptCap, MaxFaults} \subseteq Nat
  BY OutboxAssumption
<1>2. DOMAIN outbox = {} /\ outbox \in PageOf(DOMAIN outbox)
  BY DEF Init, PageOf
<1>3. \A p \in Instances : DOMAIN batch[p] = {} /\ batch[p] \in PageOf(DOMAIN batch[p])
  BY DEF Init, PageOf
<1> QED
  BY <1>1, <1>2, <1>3 DEF Init, TypeOK, Positions

(* Every action keeps the types.                                           *)
LEMMA NextType == TypeOK /\ [Next]_vars => TypeOK'
<1> SUFFICES ASSUME TypeOK, [Next]_vars PROVE TypeOK'
  OBVIOUS
<1>n. {MaxRows, RetryCap, AttemptCap, MaxFaults} \subseteq Nat
  BY OutboxAssumption
<1>0. CASE UNCHANGED vars
  BY <1>0 DEF TypeOK, Positions, vars, PageOf
<1>1. ASSUME NEW p \in Instances, Publisher(p) PROVE TypeOK'
  <2>1. ASSUME NEW e \in Events, CallPublishEvent(p, e) PROVE TypeOK'
    BY <2>1 DEF TypeOK, Positions, CallPublishEvent, PageOf
  <2>2. ASSUME NEW e \in Events, SaveEntry(p, e) PROVE TypeOK'
    <3>1. PICK r \in RowIds : Insert(e, r)
      BY <2>2 DEF SaveEntry
    <3> QED
      BY <2>2, <3>1, InsertEffect DEF TypeOK, Positions, SaveEntry, PageOf
  <2>3. ASSUME NEW e \in Events, SaveUnacknowledged(p, e) PROVE TypeOK'
    <3>1. PICK r \in RowIds : Insert(e, r)
      BY <2>3 DEF SaveUnacknowledged
    <3> QED
      BY <2>3, <3>1, InsertEffect, FaultEffect DEF TypeOK, Positions, FaultKinds, SaveUnacknowledged, PageOf
  <2> QED
    BY <1>1, <2>1, <2>2, <2>3 DEF Publisher
<1>2. ASSUME NEW p \in Instances, Processor(p) PROVE TypeOK'
  <2>1. CASE ProcessPendingEntries(p)
    <3>1. PICK S \in SUBSET Pending :
            /\ batch' = [batch EXCEPT ![p] = [r \in S |-> outbox[r]]]
            /\ pc' = [pc EXCEPT ![p] = IF S = {} THEN "idle" ELSE "publish"]
      BY <2>1 DEF ProcessPendingEntries
    <3>2. batch'[p] = [r \in S |-> outbox[r]] /\ S \subseteq DOMAIN outbox
      BY <3>1 DEF TypeOK, Positions, Pending
    <3>3. batch'[p] \in PageOf(DOMAIN batch'[p])
      BY <3>2 DEF TypeOK, Positions, PageOf
    <3>4. \A q \in Instances \ {p} : batch'[q] = batch[q]
      BY <3>1 DEF TypeOK, Positions
    <3>5. DOMAIN batch' = Instances /\ batch' = [q \in Instances |-> batch'[q]]
      BY <3>1 DEF TypeOK, Positions
    <3> QED
      BY <2>1, <3>1, <3>2, <3>3, <3>4, <3>5 DEF TypeOK, Positions, ProcessPendingEntries
  <2>2. CASE LeaveLoop(p)
    BY <2>2 DEF TypeOK, Positions, LeaveLoop, PageOf
  <2>3. ASSUME NEW r \in RowIds, DecodeFailure(p, r) PROVE TypeOK'
    <3>1. r \in DOMAIN batch[p]
      BY <2>3 DEF DecodeFailure, AtRow
    <3>2. CASE NextEntry(p, r)
      BY <2>3, <3>1, <3>2, NextEntryEffect DEF TypeOK, DecodeFailure, PageOf
    <3>3. CASE pc' = [pc EXCEPT ![p] = "undecoded"] /\ UNCHANGED <<batch, attempts>>
      BY <2>3, <3>3 DEF TypeOK, Positions, DecodeFailure, PageOf
    <3> QED
      BY <2>3, <3>2, <3>3 DEF DecodeFailure
  <2>4. ASSUME NEW r \in RowIds, PublishAccepted(p, r) PROVE TypeOK'
    BY <2>4 DEF TypeOK, Positions, PublishAccepted, PageOf
  <2>5. ASSUME NEW r \in RowIds, PublishLost(p, r) PROVE TypeOK'
    BY <2>5 DEF TypeOK, Positions, PublishLost, PageOf
  <2>6. ASSUME NEW r \in RowIds, PublishFails(p, r) PROVE TypeOK'
    <3>1. attempts' \in [Instances -> 0..AttemptCap]
      BY <1>n, <2>6, BumpType DEF TypeOK, Positions, PublishFails
    <3>2. copies' \in [RowIds -> Nat]
      BY <2>6 DEF TypeOK, PublishFails
    <3>3. faults' \in [FaultKinds -> 0..MaxFaults]
      BY <2>6, FaultEffect DEF TypeOK, PublishFails, FaultKinds
    <3> QED
      BY <2>6, <3>1, <3>2, <3>3 DEF TypeOK, PublishFails, PageOf
  <2>7. ASSUME NEW r \in RowIds, MarkAsPublished(p, r) PROVE TypeOK'
    <3>1. r \in DOMAIN batch[p] /\ r \in DOMAIN outbox /\ outbox[r] \in OutboxEntry
      BY <2>7 DEF MarkAsPublished, AtRow, TypeOK, Positions, PageOf
    <3>2. [outbox[r] EXCEPT !.status = "PUBLISHED"] \in OutboxEntry
      BY <3>1, EntryTypes DEF OutboxStatus
    <3> QED
      BY <2>7, <3>1, <3>2, UpdateEntryEffect, NextEntryEffect DEF TypeOK, Positions, MarkAsPublished
  <2>8. ASSUME NEW r \in RowIds, AbandonRetry(p, r) PROVE TypeOK'
    BY <2>8 DEF TypeOK, Positions, AbandonRetry, PageOf
  <2>9. ASSUME NEW r \in RowIds, IncrementRetryCount(p, r) PROVE TypeOK'
    <3>1. r \in DOMAIN batch[p] /\ r \in DOMAIN outbox /\ outbox[r] \in OutboxEntry
      BY <2>9 DEF IncrementRetryCount, AtRow, TypeOK, PageOf
    <3>2. [outbox[r] EXCEPT !.retryCount = Bump(@, RetryCap)] \in OutboxEntry
      BY <3>1, EntryTypes
    <3>3. DOMAIN outbox' = DOMAIN outbox /\ outbox' \in PageOf(DOMAIN outbox)
          /\ faults' \in [FaultKinds -> 0..MaxFaults]
      BY <2>9, <3>1, <3>2, UpdateEntryEffect DEF TypeOK, IncrementRetryCount
    <3>4. CASE NextEntry(p, r)
      BY <2>9, <3>1, <3>3, <3>4, NextEntryEffect DEF TypeOK, IncrementRetryCount
    <3>5. CASE pc' = [pc EXCEPT ![p] = "counted"] /\ UNCHANGED <<batch, attempts>>
      BY <2>9, <3>3, <3>5 DEF TypeOK, Positions, IncrementRetryCount
    <3> QED
      BY <2>9, <3>4, <3>5 DEF IncrementRetryCount
  <2>10. ASSUME NEW r \in RowIds, MarkAsFailed(p, r) PROVE TypeOK'
    <3>1. r \in DOMAIN batch[p] /\ r \in DOMAIN outbox /\ outbox[r] \in OutboxEntry
      BY <2>10 DEF MarkAsFailed, AtRow, TypeOK, Positions, PageOf
    <3>2. [outbox[r] EXCEPT !.status = "FAILED"] \in OutboxEntry
      BY <3>1, EntryTypes DEF OutboxStatus
    <3>3. DOMAIN outbox' = DOMAIN outbox /\ outbox' \in PageOf(DOMAIN outbox)
          /\ faults' \in [FaultKinds -> 0..MaxFaults]
      BY <2>10, <3>1, <3>2, UpdateEntryEffect DEF TypeOK, Positions, MarkAsFailed
    <3> QED
      BY <2>10, <3>1, <3>3, NextEntryEffect DEF TypeOK, Positions, MarkAsFailed
  <2> QED
    BY <1>2, <2>1, <2>2, <2>3, <2>4, <2>5, <2>6, <2>7, <2>8, <2>9, <2>10 DEF Processor
<1>3. ASSUME NEW p \in Instances, LifeCycle(p) PROVE TypeOK'
  <2>1. ASSUME Terminate(p), faults' \in [FaultKinds -> 0..MaxFaults]
        PROVE  TypeOK'
    <3>1. batch' = [batch EXCEPT ![p] = <<>>]
      BY <2>1 DEF Terminate
    <3>2. \A q \in Instances : /\ DOMAIN batch'[q] \subseteq DOMAIN outbox
                               /\ batch'[q] \in PageOf(DOMAIN batch'[q])
      BY <3>1 DEF TypeOK, Positions, PageOf
    <3>3. DOMAIN batch' = Instances /\ batch' = [q \in Instances |-> batch'[q]]
      BY <3>1 DEF TypeOK, Positions
    <3>4. attempts' \in [Instances -> 0..AttemptCap]
      BY <1>n, <2>1 DEF TypeOK, Positions, Terminate
    <3> QED
      BY <2>1, <3>2, <3>3, <3>4 DEF TypeOK, Positions, Terminate
  <2>2. CASE Exit(p)
    BY <2>1, <2>2 DEF TypeOK, Positions, Exit
  <2>3. CASE Crash(p)
    BY <2>1, <2>3, FaultEffect DEF TypeOK, Positions, FaultKinds, Crash
  <2>4. CASE Cancel(p)
    BY <2>4, FaultEffect DEF TypeOK, Positions, FaultKinds, Cancel, PageOf
  <2>5. CASE Restart(p)
    BY <2>5 DEF TypeOK, Positions, Restart, PageOf
  <2>6. CASE ConnectionBreaks(p)
    BY <2>6, FaultEffect DEF TypeOK, Positions, FaultKinds, ConnectionBreaks, PageOf
  <2>7. CASE ChannelCloses(p)
    BY <2>7 DEF TypeOK, Positions, ChannelCloses, PageOf
  <2> QED
    BY <1>3, <2>2, <2>3, <2>4, <2>5, <2>6, <2>7 DEF LifeCycle
<1> QED
  BY <1>0, <1>1, <1>2, <1>3 DEF Next

(* Spec keeps its types: in particular a page never names a row the table  *)
(* does not have, so no update of processBatch misses its row.             *)
THEOREM TypeCorrect == Spec => []TypeOK
BY InitType, NextType, PTL DEF Spec

-----------------------------------------------------------------------------
(* What a step may do to the table                                         *)

(* The error branch of processBatch runs only after the context was        *)
(* cancelled: go-retry gives up for no other reason.                       *)
StoppedLoop == \A p \in Instances : pc[p] \in {"failed", "counted"} => life[p] = "stopping"

(* StoppedLoop is inductive: the branch is entered by a cancelled loop, and*)
(* a process that is cancelled can only exit.                              *)
LEMMA NextStoppedLoop == TypeOK /\ StoppedLoop /\ [Next]_vars => StoppedLoop'
<1> SUFFICES ASSUME TypeOK, StoppedLoop, [Next]_vars, NEW q \in Instances,
                    pc'[q] \in {"failed", "counted"}
             PROVE  life'[q] = "stopping"
  BY DEF StoppedLoop
<1>0. CASE UNCHANGED vars
  BY <1>0 DEF vars, StoppedLoop
<1>1. ASSUME NEW p \in Instances, Publisher(p) PROVE life'[q] = "stopping"
  BY <1>1 DEF Publisher, CallPublishEvent, SaveEntry, SaveUnacknowledged, StoppedLoop
<1>2. ASSUME NEW p \in Instances, Processor(p) PROVE life'[q] = "stopping"
  <2>1. CASE ProcessPendingEntries(p)
    BY <2>1 DEF ProcessPendingEntries, TypeOK, StoppedLoop
  <2>2. CASE LeaveLoop(p)
    BY <2>2 DEF LeaveLoop, TypeOK, StoppedLoop
  <2>3. ASSUME NEW r \in RowIds, \/ DecodeFailure(p, r) \/ MarkAsPublished(p, r)
                                 \/ IncrementRetryCount(p, r) \/ MarkAsFailed(p, r)
        PROVE  life'[q] = "stopping"
    <3>1. life' = life /\ (NextEntry(p, r) \/ pc' = [pc EXCEPT ![p] = "undecoded"]
                          \/ (pc[p] = "failed" /\ pc' = [pc EXCEPT ![p] = "counted"]))
      BY <2>3 DEF DecodeFailure, MarkAsPublished, IncrementRetryCount, MarkAsFailed
    <3>2. NextEntry(p, r) => /\ pc'[p] \in {"idle", "publish"}
                             /\ \A i \in Instances \ {p} : pc'[i] = pc[i]
      BY DEF NextEntry, TypeOK
    <3> QED
      BY <3>1, <3>2 DEF StoppedLoop, TypeOK
  <2>4. ASSUME NEW r \in RowIds,
               PublishAccepted(p, r) \/ PublishLost(p, r) \/ PublishFails(p, r)
        PROVE  life'[q] = "stopping"
    BY <2>4 DEF PublishAccepted, PublishLost, PublishFails, TypeOK, StoppedLoop
  <2>5. ASSUME NEW r \in RowIds, AbandonRetry(p, r) PROVE life'[q] = "stopping"
    BY <2>5 DEF AbandonRetry, TypeOK, StoppedLoop
  <2> QED
    BY <1>2, <2>1, <2>2, <2>3, <2>4, <2>5 DEF Processor
<1>3. ASSUME NEW p \in Instances, LifeCycle(p) PROVE life'[q] = "stopping"
  <2>1. CASE Exit(p) \/ Crash(p)
    BY <2>1 DEF Exit, Crash, Terminate, TypeOK, StoppedLoop
  <2>2. CASE Cancel(p) \/ Restart(p) \/ ConnectionBreaks(p) \/ ChannelCloses(p)
    BY <2>2 DEF Cancel, Restart, ConnectionBreaks, ChannelCloses, TypeOK, StoppedLoop
  <2> QED
    BY <1>3, <2>1, <2>2 DEF LifeCycle
<1> QED
  BY <1>0, <1>1, <1>2, <1>3 DEF Next

(* The broker takes one more copy of a row that some loop is working on.   *)
CopySent(r) ==
  /\ r \in DOMAIN outbox
  /\ copies' = [copies EXCEPT ![r] = @ + 1]
  /\ outbox' = outbox

(* A loop rewrites row r.  Its status stays, or becomes PUBLISHED when that*)
(* loop has just published it.                                             *)
RowUpdated(p, r) ==
  /\ r \in DOMAIN outbox
  /\ DOMAIN outbox' = DOMAIN outbox
  /\ \A q \in DOMAIN outbox : q # r => outbox'[q] = outbox[q]
  /\ \/ outbox'[r].status = outbox[r].status
     \/ pc[p] = "mark" /\ AtRow(p, r) /\ outbox'[r].status = "PUBLISHED"
  /\ copies' = copies

(* A row is added.                                                         *)
RowInserted(r) ==
  /\ r \in RowIds \ DOMAIN outbox
  /\ DOMAIN outbox' = DOMAIN outbox \cup {r}
  /\ \A q \in DOMAIN outbox : outbox'[q] = outbox[q]
  /\ outbox'[r].status = "PENDING"
  /\ copies' = copies

(* Every step is one of these, or leaves table and broker alone.           *)
Effect ==
  \/ outbox' = outbox /\ copies' = copies
  \/ \E r \in RowIds : CopySent(r) \/ RowInserted(r)
  \/ \E p \in Instances, r \in RowIds : RowUpdated(p, r)

(* The steps of the goroutines that call PublishEvent.                     *)
LEMMA PublisherEffect ==
  ASSUME TypeOK, NEW p \in Instances, Publisher(p) PROVE Effect
<1>1. ASSUME NEW e \in Events, NEW r \in RowIds, Insert(e, r), copies' = copies
      PROVE  Effect
  <2>1. /\ DOMAIN outbox' = DOMAIN outbox \cup {r} /\ r \notin DOMAIN outbox
        /\ \A q \in DOMAIN outbox : outbox'[q] = outbox[q]
        /\ outbox'[r] = NewEntry(e)
    BY <1>1, InsertEffect DEF TypeOK
  <2>2. NewEntry(e).status = "PENDING"
    BY DEF NewEntry
  <2>3. RowInserted(r)
    BY <1>1, <2>1, <2>2 DEF RowInserted
  <2> QED
    BY <2>3 DEF Effect
<1>2. \/ outbox' = outbox /\ copies' = copies
      \/ \E e \in Events : \E r \in RowIds : Insert(e, r) /\ copies' = copies
  BY DEF Publisher, CallPublishEvent, SaveEntry, SaveUnacknowledged
<1>3. CASE outbox' = outbox /\ copies' = copies
  BY <1>3 DEF Effect
<1> QED
  BY <1>1, <1>2, <1>3

(* The steps of the outbox processor.                                      *)
LEMMA ProcessorEffect ==
  ASSUME TypeOK, StoppedLoop, NEW p \in Instances, Processor(p) PROVE Effect
<1>0. CASE outbox' = outbox /\ copies' = copies
  BY <1>0 DEF Effect
<1>1. ASSUME NEW r \in RowIds, AtRow(p, r)
      PROVE  r \in DOMAIN outbox /\ outbox[r] \in OutboxEntry
  BY <1>1 DEF AtRow, TypeOK, PageOf
<1>2. ASSUME NEW r \in RowIds, AtRow(p, r), copies' = copies,
             NEW entry \in OutboxEntry, UpdateEntry(p, r, entry),
             \/ entry.status = outbox[r].status
             \/ pc[p] = "mark" /\ entry.status = "PUBLISHED"
      PROVE  Effect
  <2>1. r \in DOMAIN outbox
    BY <1>1, <1>2
  <2>2. /\ DOMAIN outbox' = DOMAIN outbox
        /\ \A q \in DOMAIN outbox : q # r => outbox'[q] = outbox[q]
        /\ outbox'[r] \in {entry, outbox[r]}
    BY <1>2, <2>1, UpdateEntryEffect DEF TypeOK
  <2>3. RowUpdated(p, r)
    BY <1>2, <2>1, <2>2 DEF RowUpdated
  <2> QED
    BY <2>3 DEF Effect
<1>3. ASSUME NEW r \in RowIds, IncrementRetryCount(p, r) PROVE Effect
  <2>1. AtRow(p, r) /\ copies' = copies
    BY <1>3 DEF IncrementRetryCount
  <2>2. /\ [outbox[r] EXCEPT !.retryCount = Bump(@, RetryCap)] \in OutboxEntry
        /\ [outbox[r] EXCEPT !.retryCount = Bump(@, RetryCap)].status = outbox[r].status
    BY <1>1, <2>1, EntryTypes DEF OutboxEntry
  <2>3. PICK entry \in OutboxEntry :
          UpdateEntry(p, r, entry) /\ entry.status = outbox[r].status
    BY <1>3, <2>2 DEF IncrementRetryCount
  <2> QED
    BY <1>2, <2>1, <2>3
<1>4. ASSUME NEW r \in RowIds, MarkAsPublished(p, r) PROVE Effect
  <2>1. AtRow(p, r) /\ copies' = copies /\ pc[p] = "mark"
    BY <1>4 DEF MarkAsPublished
  <2>2. /\ [outbox[r] EXCEPT !.status = "PUBLISHED"] \in OutboxEntry
        /\ [outbox[r] EXCEPT !.status = "PUBLISHED"].status = "PUBLISHED"
    BY <1>1, <2>1, EntryTypes DEF OutboxEntry, OutboxStatus
  <2>3. PICK entry \in OutboxEntry :
          UpdateEntry(p, r, entry) /\ entry.status = "PUBLISHED"
    BY <1>4, <2>2 DEF MarkAsPublished
  <2> QED
    BY <1>2, <2>1, <2>3
<1>5. ASSUME NEW r \in RowIds, MarkAsFailed(p, r) \/ DecodeFailure(p, r) PROVE Effect
  BY <1>0, <1>5 DEF MarkAsFailed, DecodeFailure, StoppedLoop, UpdateEntry
<1>6. ASSUME NEW r \in RowIds, PublishAccepted(p, r) \/ PublishFails(p, r)
      PROVE  Effect
  <2>1. r \in DOMAIN outbox /\ outbox' = outbox
    BY <1>1, <1>6 DEF PublishAccepted, PublishFails, Attempting
  <2>2. copies' = copies \/ copies' = [copies EXCEPT ![r] = @ + 1]
    BY <1>6 DEF PublishAccepted, PublishFails
  <2> QED
    BY <1>0, <2>1, <2>2 DEF Effect, CopySent
<1>7. ASSUME NEW r \in RowIds, PublishLost(p, r) \/ AbandonRetry(p, r) PROVE Effect
  BY <1>0, <1>7 DEF PublishLost, AbandonRetry
<1>8. CASE ProcessPendingEntries(p) \/ LeaveLoop(p)
  BY <1>0, <1>8 DEF ProcessPendingEntries, LeaveLoop
<1> QED
  BY <1>3, <1>4, <1>5, <1>6, <1>7, <1>8 DEF Processor

(* Whoever takes the step, its effect on the table is one of the above.    *)
LEMMA StepEffect == ASSUME TypeOK, StoppedLoop, [Next]_vars PROVE Effect
<1>1. ASSUME NEW p \in Instances, LifeCycle(p) PROVE Effect
  BY <1>1 DEF LifeCycle, Cancel, Exit, Crash, Terminate, Restart,
              ConnectionBreaks, ChannelCloses, Effect
<1>2. CASE UNCHANGED vars
  BY <1>2 DEF vars, Effect
<1> QED
  BY <1>1, <1>2, PublisherEffect, ProcessorEffect DEF Next

-----------------------------------------------------------------------------
(* Action properties, and rows that are never given up                     *)

(* StoppedLoop holds throughout.                                           *)
LEMMA SpecStoppedLoop == Spec => [](TypeOK /\ StoppedLoop)
<1>1. Init => TypeOK /\ StoppedLoop
  BY InitType DEF Init, StoppedLoop
<1>2. TypeOK /\ StoppedLoop /\ [Next]_vars => TypeOK' /\ StoppedLoop'
  BY NextType, NextStoppedLoop
<1> QED
  BY <1>1, <1>2, PTL DEF Spec

(* PUBLISHED is final although no UPDATE tests the status it overwrites:   *)
(* the writes that could undo it are refused or leave the status alone.    *)
THEOREM Final == Spec => PublishedIsFinal
<1>1. TypeOK /\ StoppedLoop /\ [Next]_vars =>
        [\A r \in DOMAIN outbox :
           outbox[r].status = "PUBLISHED" => outbox'[r].status = "PUBLISHED"]_vars
  BY StepEffect DEF Effect, CopySent, RowInserted, RowUpdated
<1> QED
  BY <1>1, SpecStoppedLoop, PTL DEF Spec, PublishedIsFinal

(* No row ever reaches FAILED, whatever GetMaxRetries answers.             *)
THEOREM NeverFailed == Spec => []NothingIsGivenUp
<1>1. Init => NothingIsGivenUp
  BY DEF Init, NothingIsGivenUp
<1>2. TypeOK /\ StoppedLoop /\ NothingIsGivenUp /\ [Next]_vars => NothingIsGivenUp'
  BY StepEffect DEF NothingIsGivenUp, Effect, CopySent, RowInserted, RowUpdated
<1> QED
  BY <1>1, <1>2, SpecStoppedLoop, PTL DEF Spec

-----------------------------------------------------------------------------
(* Delivery, with Kafka                                                    *)

(* SettledIsDelivered is not inductive: the loop that is about to mark a   *)
(* row must know that the broker has it.  With Kafka it does, because the  *)
(* call returns nil only on a delivery report; the AMQP states of channel  *)
(* never occur.                                                            *)
MarkedIsDelivered ==
  \A p \in Instances, r \in RowIds : pc[p] = "mark" /\ AtRow(p, r) => copies[r] > 0

NeverBroken == \A p \in Instances : channel[p] # "broken"

DeliveryInv == TypeOK /\ StoppedLoop /\ MarkedIsDelivered /\ NeverBroken /\ SettledIsDelivered

(* A Kafka producer is never in the AMQP state "broken".                   *)
LEMMA NextNeverBroken ==
  ASSUME BrokerType = "kafka", TypeOK, NeverBroken, [Next]_vars
  PROVE  NeverBroken'
<1> SUFFICES ASSUME NEW q \in Instances PROVE channel'[q] # "broken"
  BY DEF NeverBroken
<1>1. CASE channel' = channel
  BY <1>1 DEF NeverBroken
<1>2. ASSUME NEW p \in Instances, NEW r \in RowIds, PublishLost(p, r)
      PROVE  FALSE
  BY <1>2 DEF PublishLost, CanPublish, CanArrive, NeverBroken, TypeOK
<1>3. ASSUME NEW p \in Instances, LifeCycle(p) PROVE channel'[q] # "broken"
  BY <1>3 DEF LifeCycle, Cancel, Exit, Crash, Terminate, Restart, ConnectionBreaks,
              ChannelCloses, NeverBroken, TypeOK
<1>4. ASSUME NEW p \in Instances, Processor(p) PROVE channel'[q] # "broken"
  BY <1>1, <1>2, <1>4 DEF Processor, ProcessPendingEntries, LeaveLoop, DecodeFailure,
     PublishAccepted, PublishFails, MarkAsPublished, AbandonRetry, IncrementRetryCount,
     MarkAsFailed
<1>5. ASSUME NEW p \in Instances, Publisher(p) PROVE channel'[q] # "broken"
  BY <1>1, <1>5 DEF Publisher, CallPublishEvent, SaveEntry, SaveUnacknowledged
<1> QED
  BY <1>1, <1>3, <1>4, <1>5 DEF Next, vars

(* Copies are never taken back.                                            *)
LEMMA CopiesGrow ==
  ASSUME TypeOK, StoppedLoop, [Next]_vars, NEW r \in RowIds, copies[r] > 0
  PROVE  copies'[r] > 0
<1>1. copies' = copies \/ \E s \in RowIds : copies' = [copies EXCEPT ![s] = @ + 1]
  BY StepEffect DEF Effect, CopySent, RowInserted, RowUpdated
<1>2. copies \in [RowIds -> Nat]
  BY DEF TypeOK
<1> QED
  BY <1>1, <1>2

(* A loop comes to "mark" only through PublishAccepted.                    *)
LEMMA NextMarkedIsDelivered ==
  ASSUME BrokerType = "kafka", TypeOK, StoppedLoop, NeverBroken, MarkedIsDelivered, [Next]_vars
  PROVE  MarkedIsDelivered'
<1> SUFFICES ASSUME NEW q \in Instances, NEW r \in RowIds, pc'[q] = "mark", AtRow(q, r)'
             PROVE  copies'[r] > 0
  BY DEF MarkedIsDelivered
<1>1. CASE pc'[q] = pc[q] /\ batch'[q] = batch[q]
  <2>1. pc[q] = "mark" /\ AtRow(q, r)
    BY <1>1 DEF AtRow
  <2> QED
    BY <2>1, CopiesGrow DEF MarkedIsDelivered
<1>2. ASSUME NEW p \in Instances, Publisher(p) PROVE copies'[r] > 0
  BY <1>1, <1>2 DEF Publisher, CallPublishEvent, SaveEntry, SaveUnacknowledged
<1>3. ASSUME NEW p \in Instances, Processor(p) PROVE copies'[r] > 0
  <2>1. CASE ProcessPendingEntries(p) \/ LeaveLoop(p)
    BY <1>1, <2>1 DEF ProcessPendingEntries, LeaveLoop, TypeOK
  <2>2. ASSUME NEW s \in RowIds, \/ DecodeFailure(p, s) \/ MarkAsPublished(p, s)
                                 \/ IncrementRetryCount(p, s) \/ MarkAsFailed(p, s)
        PROVE  copies'[r] > 0
    <3>1. /\ s \in DOMAIN batch[p]
          /\ \/ NextEntry(p, s)
             \/ /\ batch' = batch
                /\ \E x \in {"undecoded", "counted"} : pc' = [pc EXCEPT ![p] = x]
      BY <2>2 DEF DecodeFailure, MarkAsPublished, IncrementRetryCount, MarkAsFailed, AtRow
    <3>2. CASE NextEntry(p, s)
      BY <1>1, <3>1, <3>2, NextEntryEffect
    <3> QED
      BY <1>1, <3>1, <3>2 DEF TypeOK
  <2>3. ASSUME NEW s \in RowIds, PublishAccepted(p, s) PROVE copies'[r] > 0
    <3>1. CASE q # p
      BY <1>1, <2>3, <3>1 DEF PublishAccepted, TypeOK
    <3>2. CASE q = p
      <4>1. AtRow(p, r) /\ AtRow(p, s)
        BY <2>3, <3>2 DEF PublishAccepted, Attempting, AtRow
      <4>2. r = s
        BY <4>1 DEF AtRow, RowIds
      <4> QED
        BY <2>3, <4>2 DEF PublishAccepted, TypeOK
    <3> QED
      BY <3>1, <3>2
  <2>4. ASSUME NEW s \in RowIds, PublishLost(p, s) PROVE copies'[r] > 0
    BY <2>4 DEF PublishLost, CanPublish, CanArrive, NeverBroken, TypeOK
  <2>5. ASSUME NEW s \in RowIds, PublishFails(p, s) \/ AbandonRetry(p, s)
        PROVE  copies'[r] > 0
    BY <1>1, <2>5 DEF PublishFails, AbandonRetry, TypeOK
  <2> QED
    BY <1>3, <2>1, <2>2, <2>3, <2>4, <2>5 DEF Processor
<1>4. ASSUME NEW p \in Instances, LifeCycle(p) PROVE copies'[r] > 0
  <2>1. CASE Exit(p) \/ Crash(p)
    BY <1>1, <2>1 DEF Exit, Crash, Terminate, TypeOK
  <2>2. CASE Cancel(p) \/ Restart(p) \/ ConnectionBreaks(p) \/ ChannelCloses(p)
    BY <1>1, <2>2 DEF Cancel, Restart, ConnectionBreaks, ChannelCloses, TypeOK
  <2> QED
    BY <1>4, <2>1, <2>2 DEF LifeCycle
<1>5. CASE UNCHANGED vars
  BY <1>1, <1>5 DEF vars
<1> QED
  BY <1>2, <1>3, <1>4, <1>5 DEF Next

(* DeliveryInv is inductive with Kafka.                                    *)
LEMMA NextDelivery ==
  ASSUME BrokerType = "kafka", DeliveryInv, [Next]_vars
  PROVE  DeliveryInv'
<1>1. TypeOK' /\ StoppedLoop' /\ NeverBroken' /\ MarkedIsDelivered'
  BY NextType, NextStoppedLoop, NextNeverBroken, NextMarkedIsDelivered DEF DeliveryInv
<1>2. ASSUME NEW r \in DOMAIN outbox', outbox'[r].status # "PENDING"
      PROVE  copies'[r] > 0
  <2>1. r \in RowIds
    BY <1>1 DEF TypeOK
  <2>2. CASE copies[r] > 0
    BY <2>1, <2>2, CopiesGrow DEF DeliveryInv
  <2>3. CASE r \in DOMAIN outbox /\ outbox'[r].status = outbox[r].status
    BY <1>2, <2>2, <2>3 DEF DeliveryInv, SettledIsDelivered
  <2>4. CASE \E p \in Instances : pc[p] = "mark" /\ AtRow(p, r)
    BY <2>1, <2>2, <2>4 DEF DeliveryInv, MarkedIsDelivered
  <2> QED
    BY <1>2, <2>3, <2>4, StepEffect
    DEF DeliveryInv, Effect, CopySent, RowInserted, RowUpdated
<1> QED
  BY <1>1, <1>2 DEF DeliveryInv, SettledIsDelivered

(* DeliveryInv holds throughout with Kafka.                                *)
LEMMA SpecDelivery == ASSUME BrokerType = "kafka" PROVE Spec => []DeliveryInv
<1>1. Init => DeliveryInv
  BY InitType DEF Init, DeliveryInv, StoppedLoop, MarkedIsDelivered, NeverBroken,
                  SettledIsDelivered
<1>2. DeliveryInv /\ [Next]_vars => DeliveryInv'
  BY NextDelivery
<1> QED
  BY <1>1, <1>2, PTL DEF Spec

(* With Kafka, any number of competing instances and any faults, a row that*)
(* is no longer pending was delivered.                                     *)
THEOREM Delivery == ASSUME BrokerType = "kafka" PROVE Spec => []SettledIsDelivered
BY SpecDelivery, PTL DEF DeliveryInv

-----------------------------------------------------------------------------
(* Refinement                                                              *)

(* The initial states correspond.                                          *)
LEMMA InitRefines == Init => Contract!Init
BY DEF Init, Contract!Init

(* Every step is a step of the contract, or invisible to it.               *)
LEMMA NextRefines ==
  ASSUME BrokerType = "kafka", DeliveryInv, [Next]_vars
  PROVE  [Contract!Next]_Contract!vars
<1> DEFINE delivered == {r \in RowIds : copies[r] > 0}
           settled == {r \in DOMAIN outbox : outbox[r].status # "PENDING"}
<1>t. TypeOK /\ StoppedLoop /\ DOMAIN outbox \subseteq RowIds
  BY DEF DeliveryInv, TypeOK
<1>1. CASE outbox' = outbox /\ copies' = copies
  BY <1>1 DEF Contract!vars
<1>2. ASSUME NEW r \in RowIds, CopySent(r) PROVE Contract!Next
  <2>1. delivered' = delivered \cup {r}
    BY <1>t, <1>2 DEF CopySent, TypeOK
  <2>2. settled' = settled /\ r \in DOMAIN outbox /\ DOMAIN outbox' = DOMAIN outbox
    BY <1>2 DEF CopySent
  <2>3. Contract!Deliver(r)
    BY <2>1, <2>2 DEF Contract!Deliver
  <2> QED
    BY <2>3 DEF Contract!Next
<1>3. ASSUME NEW r \in RowIds, RowInserted(r) PROVE Contract!Next
  <2>1. delivered' = delivered
    BY <1>3 DEF RowInserted
  <2>2. settled' = settled
    BY <1>3 DEF RowInserted
  <2>3. Contract!Store(r)
    BY <1>3, <2>1, <2>2 DEF RowInserted, Contract!Store
  <2> QED
    BY <2>3 DEF Contract!Next
<1>4. ASSUME NEW p \in Instances, NEW r \in RowIds, RowUpdated(p, r)
      PROVE  [Contract!Next]_Contract!vars
  <2>1. delivered' = delivered /\ DOMAIN outbox' = DOMAIN outbox
    BY <1>4 DEF RowUpdated
  <2>2. CASE outbox'[r].status = outbox[r].status
    <3>1. settled' = settled
      BY <1>4, <2>2 DEF RowUpdated
    <3> QED
      BY <2>1, <3>1 DEF Contract!vars
  <2>3. CASE pc[p] = "mark" /\ AtRow(p, r) /\ outbox'[r].status = "PUBLISHED"
    <3>1. settled' = settled \cup {r}
      BY <1>4, <2>3 DEF RowUpdated
    <3>2. r \in delivered
      BY <2>3 DEF DeliveryInv, MarkedIsDelivered
    <3>3. Contract!Settle(r)
      BY <2>1, <3>1, <3>2 DEF Contract!Settle
    <3> QED
      BY <3>3 DEF Contract!Next
  <2> QED
    BY <1>4, <2>2, <2>3 DEF RowUpdated
<1> QED
  BY <1>t, <1>1, <1>2, <1>3, <1>4, StepEffect DEF Effect

(* The outbox with Kafka implements the at-least-once contract: rows are   *)
(* stored once, and settled only after delivery, one at a time.            *)
THEOREM Refinement == ASSUME BrokerType = "kafka" PROVE Spec => ImplementsContract
<1>1. DeliveryInv /\ [Next]_vars => [Contract!Next]_Contract!vars
  BY NextRefines
<1> QED
  BY <1>1, InitRefines, SpecDelivery, PTL DEF Spec, ImplementsContract, Contract!Spec

-----------------------------------------------------------------------------
(* The table                                                               *)

(* What the repository sees of a row: not its event.                       *)
RowOf(entry) == [status |-> entry.status, retryCount |-> entry.retryCount]

Table == INSTANCE OutboxTable WITH table <- [r \in DOMAIN outbox |-> RowOf(outbox[r])]

(* The outbox needs no more of its table than the calls of the repository, *)
(* one indivisible step each, which is what OutboxStore implements with    *)
(* transactions, row locks and a pool of connections.  In particular no    *)
(* step changes two rows, or status and count of one.                      *)
UsesTable == Table!Spec

(* At the start the table is empty.                                        *)
LEMMA InitTable == Init => Table!Init
<1> SUFFICES ASSUME Init
             PROVE  [r \in DOMAIN outbox |-> RowOf(outbox[r])]
                      = [r \in {} |-> [status |-> "PENDING", retryCount |-> 0]]
  BY DEF Table!Init
<1>1. DOMAIN outbox = {}
  BY DEF Init
<1> QED
  BY <1>1

(* The INSERT of a row is Save.                                            *)
LEMMA InsertIsCall ==
  ASSUME TypeOK, NEW e \in Events, NEW r \in RowIds, Insert(e, r)
  PROVE  Table!Inserts(r)
<1>1. /\ DOMAIN outbox' = DOMAIN outbox \cup {r} /\ r \notin DOMAIN outbox
      /\ \A q \in DOMAIN outbox : outbox'[q] = outbox[q]
      /\ outbox'[r] = NewEntry(e)
  BY InsertEffect DEF TypeOK
<1>2. RowOf(outbox'[r]) = [status |-> "PENDING", retryCount |-> 0]
  BY <1>1 DEF RowOf, NewEntry
<1> QED
  BY <1>1, <1>2 DEF Table!Inserts, Table!Ids, RowIds

(* An UPDATE of a row is MarkAsPublished, MarkAsFailed or                  *)
(* IncrementRetryCount, or has no effect.                                  *)
LEMMA UpdateIsCall ==
  ASSUME TypeOK, NEW p \in Instances, NEW r \in DOMAIN outbox, NEW entry,
         \/ entry = [outbox[r] EXCEPT !.retryCount = Bump(@, RetryCap)]
         \/ entry = [outbox[r] EXCEPT !.status = "PUBLISHED"]
         \/ entry = [outbox[r] EXCEPT !.status = "FAILED"],
         UpdateEntry(p, r, entry)
  PROVE  outbox' = outbox \/ Table!Next
<1> DEFINE table == [q \in DOMAIN outbox |-> RowOf(outbox[q])]
<1>1. outbox[r] \in OutboxEntry /\ outbox[r].retryCount \in Nat
  BY DEF TypeOK, PageOf, OutboxEntry
<1>2. SUFFICES ASSUME outbox' = [outbox EXCEPT ![r] = entry] PROVE outbox' = outbox \/ Table!Next
  BY DEF UpdateEntry
<1>3. table' = [table EXCEPT ![r] = RowOf(entry)]
  BY <1>2
<1>4. table[r] = [status |-> outbox[r].status, retryCount |-> outbox[r].retryCount]
  BY DEF RowOf
<1>5. ASSUME NEW status \in {"PUBLISHED", "FAILED"}, entry = [outbox[r] EXCEPT !.status = status]
      PROVE  Table!Next
  <2>1. RowOf(entry) = [status |-> status, retryCount |-> outbox[r].retryCount]
    BY <1>1, <1>5 DEF RowOf, OutboxEntry
  <2>2. RowOf(entry) = [table[r] EXCEPT !.status = status]
    BY <1>4, <2>1
  <2>3. Table!Settles(r, status)
    BY <1>3, <2>2 DEF Table!Settles
  <2> QED
    BY <2>3 DEF Table!Next
<1>6. CASE entry = [outbox[r] EXCEPT !.retryCount = Bump(@, RetryCap)]
  <2>1. CASE Bump(outbox[r].retryCount, RetryCap) = outbox[r].retryCount
    <3>1. entry = outbox[r]
      BY <1>1, <1>6, <2>1 DEF OutboxEntry
    <3> QED
      BY <1>2, <3>1 DEF TypeOK, PageOf
  <2>2. CASE Bump(outbox[r].retryCount, RetryCap) = outbox[r].retryCount + 1
    <3>1. RowOf(entry) = [status |-> outbox[r].status, retryCount |-> outbox[r].retryCount + 1]
      BY <1>1, <1>6, <2>2 DEF RowOf, OutboxEntry
    <3>2. RowOf(entry) = [table[r] EXCEPT !.retryCount = @ + 1]
      BY <1>4, <3>1
    <3>3. Table!Counts(r)
      BY <1>3, <3>2 DEF Table!Counts
    <3> QED
      BY <3>3 DEF Table!Next
  <2> QED
    BY <2>1, <2>2 DEF Bump
<1> QED
  BY <1>5, <1>6

(* Every step makes at most one call of the repository that has an effect. *)
LEMMA NextTable ==
  ASSUME TypeOK, [Next]_vars
  PROVE  [Table!Next]_([r \in DOMAIN outbox |-> RowOf(outbox[r])])
<1>1. CASE outbox' = outbox
  BY <1>1
<1>2. ASSUME NEW p \in Instances, Publisher(p) PROVE outbox' = outbox \/ Table!Next
  <2>1. outbox' = outbox \/ \E e \in Events, r \in RowIds : Insert(e, r)
    BY <1>2 DEF Publisher, CallPublishEvent, SaveEntry, SaveUnacknowledged
  <2>2. Table!Ids = RowIds
    BY DEF Table!Ids, RowIds
  <2> QED
    BY <2>1, <2>2, InsertIsCall DEF Table!Next
<1>3. ASSUME NEW p \in Instances, Processor(p) PROVE outbox' = outbox \/ Table!Next
  <2>1. \/ outbox' = outbox
        \/ \E r \in RowIds : AtRow(p, r) /\
             \/ UpdateEntry(p, r, [outbox[r] EXCEPT !.retryCount = Bump(@, RetryCap)])
             \/ UpdateEntry(p, r, [outbox[r] EXCEPT !.status = "PUBLISHED"])
             \/ UpdateEntry(p, r, [outbox[r] EXCEPT !.status = "FAILED"])
    BY <1>3 DEF Processor, ProcessPendingEntries, LeaveLoop, DecodeFailure, PublishAccepted,
       PublishLost, PublishFails, MarkAsPublished, AbandonRetry, IncrementRetryCount, MarkAsFailed
  <2>2. \A r \in RowIds : AtRow(p, r) => r \in DOMAIN outbox
    BY DEF AtRow, TypeOK
  <2> QED
    BY <2>1, <2>2, UpdateIsCall
<1>4. ASSUME NEW p \in Instances, LifeCycle(p) PROVE outbox' = outbox
  BY <1>4 DEF LifeCycle, Cancel, Exit, Crash, Terminate, Restart, ConnectionBreaks, ChannelCloses
<1> QED
  BY <1>1, <1>2, <1>3, <1>4 DEF Next, vars

(* With either broker the outbox works on its table through the calls of   *)
(* the repository only: Outbox and OutboxStore meet at OutboxTable.        *)
THEOREM TableUse == Spec => UsesTable
<1> QED
  BY InitTable, NextTable, TypeCorrect, PTL DEF Spec, UsesTable, Table!Spec

=============================================================================
