------------------------ MODULE OutboxAccountsProofs ------------------------
(***************************************************************************)
(* The accounts of Outbox, for every value of its constants: how many rows *)
(* an event may have, how many messages a row may have, and what must have *)
(* happened before RabbitMQ loses a message.                               *)
(***************************************************************************)
EXTENDS OutboxProofs, FiniteSetTheorems

-----------------------------------------------------------------------------
(* Helpers                                                                 *)

(* A step counts at most one fault.                                        *)
LEMMA StepFaults ==
  ASSUME TypeOK, [Next]_vars
  PROVE  faults' = faults \/ \E kind \in FaultKinds : Fault(kind)
<1>1. ASSUME NEW p \in Instances, Publisher(p) PROVE faults' = faults \/ Fault("insert")
  BY <1>1 DEF Publisher, CallPublishEvent, SaveEntry, SaveUnacknowledged
<1>2. ASSUME NEW p \in Instances, Processor(p) PROVE faults' = faults \/ Fault("loop")
  BY <1>2 DEF Processor, ProcessPendingEntries, LeaveLoop, DecodeFailure, UpdateEntry,
     PublishAccepted, PublishLost, PublishFails, MarkAsPublished, AbandonRetry,
     IncrementRetryCount, MarkAsFailed
<1>3. ASSUME NEW p \in Instances, LifeCycle(p)
      PROVE  faults' = faults \/ Fault("loop") \/ Fault("connection")
  BY <1>3 DEF LifeCycle, Cancel, Exit, Crash, Restart, ConnectionBreaks, ChannelCloses
<1> QED
  BY <1>1, <1>2, <1>3 DEF FaultKinds, Next, vars

(* The counts of faults are numbers and never go back.                     *)
LEMMA FaultsGrow ==
  ASSUME TypeOK, [Next]_vars, NEW kind \in FaultKinds
  PROVE  /\ faults[kind] \in Nat /\ faults'[kind] \in Nat
         /\ faults'[kind] = faults[kind] \/ faults'[kind] = faults[kind] + 1
<1>1. MaxFaults \in Nat /\ faults[kind] \in Nat /\ faults'[kind] \in Nat
  BY OutboxAssumption, NextType DEF TypeOK
<1>2. faults'[kind] = faults[kind] \/ faults'[kind] = faults[kind] + 1
  BY StepFaults, FaultEffect DEF TypeOK
<1> QED
  BY <1>1, <1>2

(* No update of a row changes the event it belongs to.                     *)
EventsKept ==
  /\ DOMAIN outbox' = DOMAIN outbox
  /\ \A q \in DOMAIN outbox : outbox'[q].event = outbox[q].event

(* UPDATE sets the status or the retry count and nothing else.             *)
LEMMA UpdateKeepsEvent ==
  ASSUME TypeOK, NEW p \in Instances, NEW r \in DOMAIN outbox, NEW entry \in OutboxEntry,
         entry.event = outbox[r].event, UpdateEntry(p, r, entry)
  PROVE  EventsKept
<1>1. /\ DOMAIN outbox' = DOMAIN outbox
      /\ \A q \in DOMAIN outbox : q # r => outbox'[q] = outbox[q]
      /\ outbox'[r] \in {entry, outbox[r]}
  BY UpdateEntryEffect DEF TypeOK
<1> QED
  BY <1>1 DEF EventsKept

(* A step of a processor keeps the events of all rows.                     *)
LEMMA ProcessorKeepsEvents ==
  ASSUME TypeOK, NEW p \in Instances, Processor(p)
  PROVE  EventsKept
<1>0. CASE outbox' = outbox
  BY <1>0 DEF EventsKept
<1>1. ASSUME NEW r \in RowIds, AtRow(p, r)
      PROVE  r \in DOMAIN outbox /\ outbox[r] \in OutboxEntry
  BY <1>1 DEF AtRow, TypeOK, PageOf
<1>2. ASSUME NEW r \in RowIds, IncrementRetryCount(p, r) PROVE EventsKept
  <2>1. AtRow(p, r)
    BY <1>2 DEF IncrementRetryCount
  <2>2. /\ [outbox[r] EXCEPT !.retryCount = Bump(@, RetryCap)] \in OutboxEntry
        /\ [outbox[r] EXCEPT !.retryCount = Bump(@, RetryCap)].event = outbox[r].event
    BY <1>1, <2>1, EntryTypes DEF OutboxEntry
  <2>3. PICK entry \in OutboxEntry :
          UpdateEntry(p, r, entry) /\ entry.event = outbox[r].event
    BY <1>2, <2>2 DEF IncrementRetryCount
  <2> QED
    BY <1>1, <2>1, <2>3, UpdateKeepsEvent
<1>3. ASSUME NEW r \in RowIds, MarkAsPublished(p, r) \/ MarkAsFailed(p, r)
      PROVE  EventsKept
  <2>1. AtRow(p, r)
    BY <1>3 DEF MarkAsPublished, MarkAsFailed
  <2>2. \A s \in OutboxStatus : /\ [outbox[r] EXCEPT !.status = s] \in OutboxEntry
                                /\ [outbox[r] EXCEPT !.status = s].event = outbox[r].event
    BY <1>1, <2>1, EntryTypes DEF OutboxEntry
  <2>3. \/ outbox' = outbox
        \/ \E entry \in OutboxEntry :
             UpdateEntry(p, r, entry) /\ entry.event = outbox[r].event
    BY <1>3, <2>2 DEF MarkAsPublished, MarkAsFailed, OutboxStatus
  <2> QED
    BY <1>0, <1>1, <2>1, <2>3, UpdateKeepsEvent
<1>4. ASSUME NEW r \in RowIds, \/ PublishAccepted(p, r) \/ PublishLost(p, r)
                               \/ PublishFails(p, r) \/ AbandonRetry(p, r)
                               \/ DecodeFailure(p, r)
      PROVE  EventsKept
  BY <1>0, <1>4 DEF PublishAccepted, PublishLost, PublishFails, AbandonRetry, DecodeFailure
<1>5. CASE ProcessPendingEntries(p) \/ LeaveLoop(p)
  BY <1>0, <1>5 DEF ProcessPendingEntries, LeaveLoop
<1> QED
  BY <1>2, <1>3, <1>4, <1>5 DEF Processor

-----------------------------------------------------------------------------
(* Rows of an event                                                        *)

RowsOf(e) == {r \in DOMAIN outbox : outbox[r].event = e}

(* The row that a PublishEvent of e is still going to insert.              *)
Owed(e) == IF e \notin arrived \/ (\E p \in Instances : e \in publishing[p]) THEN 1 ELSE 0

(* RowsAccounted becomes inductive with the row that is still to come: an  *)
(* event is published once, by one instance.                               *)
RowsInv ==
  \A e \in Events :
    /\ \A p \in Instances : e \in publishing[p] => e \in arrived
    /\ \A p, q \in Instances : e \in publishing[p] /\ e \in publishing[q] => p = q
    /\ Cardinality(RowsOf(e)) + Owed(e) <= 1 + faults["insert"]

(* Rows are countable.                                                     *)
LEMMA RowsCount ==
  ASSUME TypeOK, NEW e \in Events
  PROVE  IsFiniteSet(RowsOf(e)) /\ Cardinality(RowsOf(e)) \in Nat
<1>1. IsFiniteSet(RowIds)
  BY FS_Interval, OutboxAssumption DEF RowIds
<1>2. RowsOf(e) \subseteq RowIds
  BY DEF RowsOf, TypeOK
<1> QED
  BY <1>1, <1>2, FS_Subset, FS_CardinalityType

(* Insert adds one row to its event and none to any other.                 *)
LEMMA InsertCounts ==
  ASSUME TypeOK, NEW e \in Events, NEW r \in RowIds, Insert(e, r)
  PROVE  /\ Cardinality(RowsOf(e)') = Cardinality(RowsOf(e)) + 1
         /\ \A f \in Events \ {e} : RowsOf(f)' = RowsOf(f)
<1>1. /\ DOMAIN outbox' = DOMAIN outbox \cup {r} /\ r \notin DOMAIN outbox
      /\ \A q \in DOMAIN outbox : outbox'[q] = outbox[q]
      /\ outbox'[r] = NewEntry(e)
  BY InsertEffect DEF TypeOK
<1>2. outbox'[r].event = e
  BY <1>1 DEF NewEntry
<1>3. RowsOf(e)' = RowsOf(e) \cup {r} /\ r \notin RowsOf(e)
  BY <1>1, <1>2 DEF RowsOf
<1>4. \A f \in Events \ {e} : RowsOf(f)' = RowsOf(f)
  BY <1>1, <1>2 DEF RowsOf
<1> QED
  BY <1>3, <1>4, RowsCount, FS_AddElement

(* RowsInv is inductive: only a fault adds a row that was not owed.        *)
LEMMA NextRows == TypeOK /\ RowsInv /\ [Next]_vars => RowsInv'
<1> SUFFICES ASSUME TypeOK, RowsInv, [Next]_vars PROVE RowsInv'
  OBVIOUS
<1>f. /\ faults["insert"] \in Nat /\ faults'["insert"] \in Nat
      /\ faults'["insert"] = faults["insert"] \/ faults'["insert"] = faults["insert"] + 1
  BY FaultsGrow DEF FaultKinds
<1>n. \A e \in Events : Cardinality(RowsOf(e)) \in Nat /\ Owed(e) \in {0, 1}
  BY RowsCount DEF Owed
<1>t. publishing \in [Instances -> SUBSET Events]
  BY DEF TypeOK
<1>0. ASSUME EventsKept, arrived' = arrived,
             \A p \in Instances : publishing'[p] \subseteq publishing[p]
      PROVE  RowsInv'
  <2> SUFFICES ASSUME NEW e \in Events
               PROVE  /\ \A p \in Instances : e \in publishing'[p] => e \in arrived'
                      /\ \A p, q \in Instances :
                           e \in publishing'[p] /\ e \in publishing'[q] => p = q
                      /\ Cardinality(RowsOf(e)') + Owed(e)' <= 1 + faults'["insert"]
    BY DEF RowsInv
  <2>1. RowsOf(e)' = RowsOf(e)
    BY <1>0 DEF EventsKept, RowsOf
  <2>2. Owed(e)' \in {0, 1} /\ Owed(e)' <= Owed(e)
    BY <1>0 DEF Owed
  <2>3. Cardinality(RowsOf(e)) + Owed(e) <= 1 + faults["insert"]
    BY DEF RowsInv
  <2>4. Cardinality(RowsOf(e)') + Owed(e)' <= 1 + faults'["insert"]
    BY <1>f, <1>n, <2>1, <2>2, <2>3
  <2> QED
    BY <1>0, <2>4 DEF RowsInv
<1>1. ASSUME NEW p \in Instances, NEW e \in Events, CallPublishEvent(p, e) PROVE RowsInv'
  <2>1. \A f \in Events : RowsOf(f)' = RowsOf(f)
    BY <1>1 DEF CallPublishEvent, RowsOf
  <2>2. \A f \in Events : Owed(f)' <= Owed(f) /\ Owed(f)' \in {0, 1}
    BY <1>1, <1>t DEF CallPublishEvent, Owed
  <2>3. \A f \in Events : Cardinality(RowsOf(f)') + Owed(f)' <= 1 + faults'["insert"]
    BY <1>f, <1>n, <2>1, <2>2 DEF RowsInv
  <2> QED
    BY <1>1, <1>t, <2>3 DEF CallPublishEvent, RowsInv
<1>2. ASSUME NEW p \in Instances, NEW e \in Events, SaveEntry(p, e) PROVE RowsInv'
  <2>1. PICK r \in RowIds : Insert(e, r)
    BY <1>2 DEF SaveEntry
  <2>2. /\ Cardinality(RowsOf(e)') = Cardinality(RowsOf(e)) + 1
        /\ \A f \in Events \ {e} : RowsOf(f)' = RowsOf(f)
    BY <2>1, InsertCounts
  <2>3. Owed(e) = 1 /\ Owed(e)' = 0
    BY <1>2, <1>t DEF SaveEntry, RowsInv, Owed
  <2>4. \A f \in Events \ {e} : Owed(f)' = Owed(f)
    BY <1>2, <1>t DEF SaveEntry, Owed
  <2>5. ASSUME NEW f \in Events PROVE Cardinality(RowsOf(f)') + Owed(f)' <= 1 + faults'["insert"]
    BY <1>f, <1>n, <2>2, <2>3, <2>4 DEF RowsInv
  <2> QED
    BY <1>2, <1>t, <2>5 DEF SaveEntry, RowsInv
<1>3. ASSUME NEW p \in Instances, NEW e \in Events, SaveUnacknowledged(p, e) PROVE RowsInv'
  <2>1. PICK r \in RowIds : Insert(e, r)
    BY <1>3 DEF SaveUnacknowledged
  <2>2. /\ Cardinality(RowsOf(e)') = Cardinality(RowsOf(e)) + 1
        /\ \A f \in Events \ {e} : RowsOf(f)' = RowsOf(f)
    BY <2>1, InsertCounts
  <2>3. faults'["insert"] = faults["insert"] + 1 /\ \A f \in Events : Owed(f)' = Owed(f)
    BY <1>3, FaultEffect DEF SaveUnacknowledged, TypeOK, FaultKinds, Owed
  <2>4. ASSUME NEW f \in Events PROVE Cardinality(RowsOf(f)') + Owed(f)' <= 1 + faults'["insert"]
    BY <1>f, <1>n, <2>2, <2>3 DEF RowsInv
  <2> QED
    BY <1>3, <2>4 DEF SaveUnacknowledged, RowsInv
<1>4. ASSUME NEW p \in Instances, Processor(p) PROVE RowsInv'
  <2>1. arrived' = arrived /\ publishing' = publishing
    BY <1>4 DEF Processor, ProcessPendingEntries, LeaveLoop, DecodeFailure,
       PublishAccepted, PublishLost, PublishFails, MarkAsPublished, AbandonRetry,
       IncrementRetryCount, MarkAsFailed
  <2> QED
    BY <1>0, <1>4, <2>1, ProcessorKeepsEvents
<1>5. ASSUME NEW p \in Instances, LifeCycle(p) PROVE RowsInv'
  <2>1. outbox' = outbox /\ arrived' = arrived
        /\ (publishing' = publishing \/ publishing' = [publishing EXCEPT ![p] = {}])
    BY <1>5 DEF LifeCycle, Cancel, Exit, Crash, Terminate, Restart, ConnectionBreaks,
       ChannelCloses
  <2>2. \A q \in Instances : publishing'[q] \subseteq publishing[q]
    BY <1>t, <2>1
  <2> QED
    BY <1>0, <2>1, <2>2 DEF EventsKept
<1>6. CASE UNCHANGED vars
  BY <1>0, <1>6 DEF vars, EventsKept
<1> QED
  BY <1>1, <1>2, <1>3, <1>4, <1>5, <1>6 DEF Next, Publisher

(* An event has one row, and one more for each fault: with any number of   *)
(* instances, restarts and callers that retry.                             *)
THEOREM Rows == Spec => []RowsAccounted
<1>1. Init => RowsInv
  <2> SUFFICES ASSUME Init PROVE RowsInv
    OBVIOUS
  <2>1. \A e \in Events : RowsOf(e) = {} /\ Owed(e) = 1
    BY DEF Init, RowsOf, Owed
  <2>2. \A e \in Events : Cardinality(RowsOf(e)) = 0
    BY <2>1, FS_EmptySet
  <2> QED
    BY <2>1, <2>2 DEF Init, FaultKinds, RowsInv
<1>2. TypeOK /\ RowsInv => RowsAccounted
  <2> SUFFICES ASSUME TypeOK, RowsInv, NEW e \in Events
               PROVE  Cardinality(RowsOf(e)) <= 1 + faults["insert"]
    BY DEF RowsAccounted, RowsOf
  <2>1. Cardinality(RowsOf(e)) \in Nat /\ Owed(e) \in {0, 1} /\ faults["insert"] \in Nat
    BY RowsCount, OutboxAssumption DEF Owed, TypeOK, FaultKinds
  <2> QED
    BY <2>1 DEF RowsInv
<1> QED
  BY <1>1, <1>2, NextRows, TypeCorrect, PTL DEF Spec

-----------------------------------------------------------------------------
(* Messages of a row                                                       *)

(* Rows that no instance has settled, stored or not.                       *)
Open(r) == r \in DOMAIN outbox => outbox[r].status = "PENDING"

(* Running loops that have published r and not yet recorded it.            *)
Marking(r) == {p \in Instances : life[p] = "up" /\ pc[p] = "mark" /\ AtRow(p, r)}

(* Loops that hold r in their page and may still publish it.               *)
Waiting(r) ==
  {p \in Instances : /\ pc[p] \notin {"idle", "stopped"}
                     /\ r \in DOMAIN batch[p]
                     /\ ~(pc[p] = "mark" /\ AtRow(p, r))}

(* While a row is open, each of its messages has a loop that is about to   *)
(* settle it, or a fault; once it is settled, only loops that still have it*)
(* in their page can add another.                                          *)
CopiesInv ==
  \A r \in RowIds :
    IF Open(r) THEN copies[r] <= Cardinality(Marking(r)) + faults["loop"]
    ELSE copies[r] + Cardinality(Waiting(r)) <= Cardinality(Instances) + faults["loop"]

(* Disjoint parts of a finite set, counted.                                *)
LEMMA DisjointParts ==
  ASSUME NEW N, IsFiniteSet(N), NEW M \in SUBSET N, NEW W \in SUBSET N, M \cap W = {}
  PROVE  /\ IsFiniteSet(M) /\ IsFiniteSet(W)
         /\ Cardinality(M) \in Nat /\ Cardinality(W) \in Nat /\ Cardinality(N) \in Nat
         /\ Cardinality(M) + Cardinality(W) <= Cardinality(N)
<1>1. IsFiniteSet(M) /\ IsFiniteSet(W)
  BY FS_Subset
<1>2. Cardinality(M) \in Nat /\ Cardinality(W) \in Nat /\ Cardinality(N) \in Nat
  BY <1>1, FS_CardinalityType
<1>3. Cardinality(M \cap W) = 0
  BY FS_EmptySet
<1>4. Cardinality(M \cup W) = Cardinality(M) + Cardinality(W) - Cardinality(M \cap W)
  BY <1>1, FS_Union
<1>5. M \cup W \in SUBSET N
  OBVIOUS
<1>6. Cardinality(M \cup W) <= Cardinality(N)
  BY <1>5, FS_Subset
<1> QED
  BY <1>1, <1>2, <1>3, <1>4, <1>6

(* Both sets of loops are finite and disjoint.                             *)
LEMMA LoopsCount ==
  ASSUME NEW r
  PROVE  /\ IsFiniteSet(Marking(r)) /\ IsFiniteSet(Waiting(r))
         /\ Cardinality(Marking(r)) \in Nat /\ Cardinality(Waiting(r)) \in Nat
         /\ Cardinality(Instances) \in Nat
         /\ Cardinality(Marking(r)) + Cardinality(Waiting(r)) <= Cardinality(Instances)
<1>1. /\ IsFiniteSet(Instances) /\ Marking(r) \in SUBSET Instances
      /\ Waiting(r) \in SUBSET Instances /\ Marking(r) \cap Waiting(r) = {}
  BY OutboxAssumption DEF Marking, Waiting
<1> QED
  BY <1>1, DisjointParts

(* A loop settles or gives up its claim on r, or claims it anew while it is*)
(* open; no message is sent.                                               *)
Calm(p, r) ==
  /\ copies'[r] = copies[r]
  /\ p \in Marking(r) => p \in Marking(r)' \/ faults'["loop"] = faults["loop"] + 1 \/ ~Open(r)'
  /\ p \in Waiting(r)' => p \in Waiting(r) \/ Open(r)'

(* A loop sends a message and is about to record it.                       *)
Sent(p, r) ==
  /\ copies'[r] = copies[r] + 1
  /\ p \in Waiting(r) \ Marking(r)
  /\ p \in Marking(r)' \ Waiting(r)'

(* A message is sent though the attempt fails.                             *)
Late(p, r) ==
  /\ copies'[r] = copies[r] + 1
  /\ faults'["loop"] = faults["loop"] + 1
  /\ p \notin Marking(r)
  /\ p \in Waiting(r)' => p \in Waiting(r)

(* The loops other than p claim what they claimed.                         *)
OthersStay(p, r) ==
  \A q \in Instances \ {p} : /\ q \in Marking(r) <=> q \in Marking(r)'
                             /\ q \in Waiting(r) <=> q \in Waiting(r)'

(* The effect of a step of instance p on the account of row r.             *)
AccountEffect(p, r) == OthersStay(p, r) /\ (Calm(p, r) \/ Sent(p, r) \/ Late(p, r))

(* A step that moves no loop and sends nothing is calm.                    *)
LEMMA StillIsCalm ==
  ASSUME NEW p \in Instances, NEW r \in RowIds,
         UNCHANGED <<copies, life, pc, batch>>
  PROVE  AccountEffect(p, r)
BY DEF AccountEffect, OthersStay, Calm, Marking, Waiting, AtRow

(* Loops whose state does not change keep their claims.                    *)
LEMMA OthersKeep ==
  ASSUME NEW p \in Instances, NEW r \in RowIds,
         \A q \in Instances \ {p} : life'[q] = life[q] /\ pc'[q] = pc[q] /\ batch'[q] = batch[q]
  PROVE  OthersStay(p, r)
BY DEF OthersStay, Marking, Waiting, AtRow

(* Going on to the next row gives up the claim on the row just done, and   *)
(* no other.                                                               *)
LEMMA NextEntryClaims ==
  ASSUME TypeOK, NEW p \in Instances, NEW s \in RowIds, NEW r \in RowIds,
         AtRow(p, s), NextEntry(p, s), life' = life, pc[p] \notin {"idle", "stopped"}
  PROVE  /\ OthersStay(p, r)
         /\ p \notin Marking(r)'
         /\ p \in Waiting(r)' => p \in Waiting(r)
         /\ p \in Marking(r) => r = s /\ pc[p] = "mark" /\ life[p] = "up"
<1>1. s \in DOMAIN batch[p] /\ \A q \in DOMAIN batch[p] : s <= q
  BY DEF AtRow
<1>2. /\ \A q \in Instances \ {p} : pc'[q] = pc[q] /\ batch'[q] = batch[q]
      /\ pc'[p] \in {"idle", "publish"}
  BY <1>1, NextEntryEffect
<1>3. DOMAIN batch'[p] = DOMAIN batch[p] \ {s}
  BY <1>1 DEF NextEntry, TypeOK
<1>4. AtRow(p, r) => r = s
  BY <1>1 DEF AtRow, RowIds
<1>5. OthersStay(p, r)
  BY <1>2, OthersKeep
<1> QED
  BY <1>2, <1>3, <1>4, <1>5 DEF Marking, Waiting

(* The steps of the loop.                                                  *)
LEMMA ProcessorAccount ==
  ASSUME TypeOK, StoppedLoop, NEW p \in Instances, Processor(p), NEW r \in RowIds
  PROVE  AccountEffect(p, r)
<1>c. copies \in [RowIds -> Nat]
  BY DEF TypeOK
<1>1. CASE ProcessPendingEntries(p)
  <2>1. PICK S \in SUBSET Pending :
          /\ batch' = [batch EXCEPT ![p] = [q \in S |-> outbox[q]]]
          /\ pc' = [pc EXCEPT ![p] = IF S = {} THEN "idle" ELSE "publish"]
    BY <1>1 DEF ProcessPendingEntries
  <2>2. /\ \A q \in Instances \ {p} : pc'[q] = pc[q] /\ batch'[q] = batch[q]
        /\ DOMAIN batch'[p] = S
    BY <2>1 DEF TypeOK
  <2>3. OthersStay(p, r)
    BY <1>1, <2>2, OthersKeep DEF ProcessPendingEntries
  <2>4. p \notin Marking(r)
    BY <1>1 DEF ProcessPendingEntries, Marking
  <2>5. r \in S => Open(r)'
    BY <1>1, <2>1 DEF ProcessPendingEntries, Pending, Open
  <2>6. Calm(p, r)
    BY <1>1, <2>2, <2>4, <2>5 DEF ProcessPendingEntries, Calm, Waiting
  <2> QED
    BY <2>3, <2>6 DEF AccountEffect
<1>2. CASE LeaveLoop(p)
  <2>1. /\ \A q \in Instances \ {p} : pc'[q] = pc[q]
        /\ pc'[p] = "stopped" /\ pc[p] = "idle"
    BY <1>2 DEF LeaveLoop, TypeOK
  <2>2. OthersStay(p, r)
    BY <1>2, <2>1, OthersKeep DEF LeaveLoop
  <2> QED
    BY <1>2, <2>1, <2>2 DEF LeaveLoop, AccountEffect, Calm, Marking, Waiting
<1>0. ASSUME NEW x \in {"undecoded", "failed", "counted"}, pc[p] \in {"publish", "failed"},
             pc' = [pc EXCEPT ![p] = x], UNCHANGED <<copies, life, batch>>
      PROVE  AccountEffect(p, r)
  <2>1. pc'[p] = x /\ \A q \in Instances \ {p} : pc'[q] = pc[q]
    BY <1>0 DEF TypeOK
  <2>2. OthersStay(p, r)
    BY <1>0, <2>1, OthersKeep
  <2> QED
    BY <1>0, <2>1, <2>2 DEF AccountEffect, Calm, Marking, Waiting, AtRow
<1>3. ASSUME NEW s \in RowIds, DecodeFailure(p, s) PROVE AccountEffect(p, r)
  <2>1. /\ AtRow(p, s) /\ life' = life /\ copies' = copies /\ pc[p] = "publish"
        /\ \/ NextEntry(p, s)
           \/ pc' = [pc EXCEPT ![p] = "undecoded"] /\ batch' = batch
    BY <1>3 DEF DecodeFailure
  <2>2. CASE NextEntry(p, s)
    BY <2>1, <2>2, NextEntryClaims DEF AccountEffect, Calm
  <2> QED
    BY <1>0, <2>1, <2>2
<1>4. ASSUME NEW s \in RowIds, MarkAsFailed(p, s) PROVE AccountEffect(p, r)
  <2>1. /\ AtRow(p, s) /\ NextEntry(p, s) /\ life' = life /\ copies' = copies
        /\ pc[p] = "counted"
    BY <1>4 DEF MarkAsFailed
  <2> QED
    BY <2>1, NextEntryClaims DEF AccountEffect, Calm
<1>5. ASSUME NEW s \in RowIds, MarkAsPublished(p, s) PROVE AccountEffect(p, r)
  <2>1. /\ AtRow(p, s) /\ NextEntry(p, s) /\ life' = life /\ copies' = copies
        /\ pc[p] = "mark"
    BY <1>5 DEF MarkAsPublished
  <2>2. s \in DOMAIN outbox
    BY <2>1 DEF AtRow, TypeOK
  <2>3. life[p] = "up" => faults'["loop"] = faults["loop"] + 1 \/ ~Open(s)'
    <3>1. \/ life[p] # "up"
          \/ faults'["loop"] = faults["loop"] + 1
          \/ outbox' = [outbox EXCEPT ![s] = [outbox[s] EXCEPT !.status = "PUBLISHED"]]
      BY <1>5, FaultEffect DEF MarkAsPublished, UpdateEntry, TypeOK, FaultKinds
    <3>2. outbox \in PageOf(DOMAIN outbox) /\ outbox[s] \in OutboxEntry
      BY <2>2 DEF TypeOK, PageOf
    <3>3. [outbox[s] EXCEPT !.status = "PUBLISHED"].status = "PUBLISHED"
      BY <3>2 DEF OutboxEntry
    <3> QED
      BY <2>2, <3>1, <3>2, <3>3 DEF Open, PageOf
  <2> QED
    BY <2>1, <2>3, NextEntryClaims DEF AccountEffect, Calm
<1>6. ASSUME NEW s \in RowIds, PublishAccepted(p, s) PROVE AccountEffect(p, r)
  <2>1. /\ pc[p] = "publish" /\ AtRow(p, s) /\ life[p] = "up"
        /\ UNCHANGED <<outbox, life, batch>>
        /\ copies' = [copies EXCEPT ![s] = @ + 1]
        /\ pc' = [pc EXCEPT ![p] = "mark"]
    BY <1>6 DEF PublishAccepted, Attempting
  <2>2. pc'[p] = "mark" /\ \A q \in Instances \ {p} : pc'[q] = pc[q]
    BY <2>1 DEF TypeOK
  <2>3. OthersStay(p, r)
    BY <2>1, <2>2, OthersKeep
  <2>4. CASE r = s
    BY <1>c, <2>1, <2>2, <2>3, <2>4 DEF AccountEffect, Sent, Marking, Waiting, AtRow
  <2>5. CASE r # s
    <3>1. copies'[r] = copies[r]
      BY <1>c, <2>1, <2>5
    <3>2. p \notin Marking(r) /\ (p \in Waiting(r)' => p \in Waiting(r))
      BY <2>1, <2>2 DEF Marking, Waiting, AtRow
    <3> QED
      BY <2>3, <3>1, <3>2 DEF AccountEffect, Calm
  <2> QED
    BY <2>4, <2>5
<1>7. ASSUME NEW s \in RowIds, PublishLost(p, s) PROVE AccountEffect(p, r)
  <2>1. /\ pc[p] = "publish" /\ UNCHANGED <<outbox, copies, life, batch>>
        /\ pc' = [pc EXCEPT ![p] = "mark"]
    BY <1>7 DEF PublishLost, Attempting
  <2>2. pc'[p] = "mark" /\ \A q \in Instances \ {p} : pc'[q] = pc[q]
    BY <2>1 DEF TypeOK
  <2>3. OthersStay(p, r)
    BY <2>1, <2>2, OthersKeep
  <2> QED
    BY <2>1, <2>2, <2>3 DEF AccountEffect, Calm, Marking, Waiting, AtRow
<1>8. ASSUME NEW s \in RowIds, PublishFails(p, s) PROVE AccountEffect(p, r)
  <2>1. pc[p] = "publish" /\ UNCHANGED <<outbox, life, pc, batch>>
    BY <1>8 DEF PublishFails, Attempting
  <2>2. OthersStay(p, r)
    BY <2>1, OthersKeep
  <2>3. p \notin Marking(r) /\ (p \in Waiting(r)' => p \in Waiting(r))
    BY <2>1 DEF Marking, Waiting, AtRow
  <2>4. \/ copies'[r] = copies[r]
        \/ copies'[r] = copies[r] + 1 /\ faults'["loop"] = faults["loop"] + 1
    <3>1. copies' = copies
          \/ (copies' = [copies EXCEPT ![s] = @ + 1] /\ faults'["loop"] = faults["loop"] + 1)
      BY <1>8, FaultEffect DEF PublishFails, TypeOK, FaultKinds
    <3> QED
      BY <1>c, <3>1
  <2> QED
    BY <2>2, <2>3, <2>4 DEF AccountEffect, Calm, Late
<1>9. ASSUME NEW s \in RowIds, IncrementRetryCount(p, s) PROVE AccountEffect(p, r)
  <2>1. /\ AtRow(p, s) /\ life' = life /\ copies' = copies
        /\ \/ pc[p] = "undecoded" /\ NextEntry(p, s)
           \/ pc[p] = "failed" /\ pc' = [pc EXCEPT ![p] = "counted"] /\ batch' = batch
    BY <1>9 DEF IncrementRetryCount
  <2>2. CASE pc[p] = "undecoded" /\ NextEntry(p, s)
    BY <2>1, <2>2, NextEntryClaims DEF AccountEffect, Calm
  <2> QED
    BY <1>0, <2>1, <2>2
<1>10. ASSUME NEW s \in RowIds, AbandonRetry(p, s) PROVE AccountEffect(p, r)
  BY <1>0, <1>10 DEF AbandonRetry
<1> QED
  BY <1>1, <1>2, <1>3, <1>4, <1>5, <1>6, <1>7, <1>8, <1>9, <1>10 DEF Processor

(* The steps of a process and its connection.                              *)
LEMMA LifeCycleAccount ==
  ASSUME TypeOK, NEW p \in Instances, LifeCycle(p), NEW r \in RowIds
  PROVE  AccountEffect(p, r)
<1>1. CASE Cancel(p)
  <2>1. /\ faults'["loop"] = faults["loop"] + 1 /\ UNCHANGED <<copies, pc, batch>>
        /\ \A q \in Instances \ {p} : life'[q] = life[q]
    BY <1>1, FaultEffect DEF Cancel, TypeOK, FaultKinds
  <2>2. OthersStay(p, r)
    BY <2>1, OthersKeep
  <2> QED
    BY <2>1, <2>2 DEF AccountEffect, Calm, Waiting, AtRow
<1>2. CASE Exit(p) \/ Crash(p)
  <2>1. /\ Terminate(p)
        /\ life[p] = "stopping" \/ faults'["loop"] = faults["loop"] + 1
    BY <1>2, FaultEffect DEF Exit, Crash, TypeOK, FaultKinds
  <2>2. /\ copies' = copies /\ pc'[p] = "stopped"
        /\ \A q \in Instances \ {p} : life'[q] = life[q] /\ pc'[q] = pc[q]
                                      /\ batch'[q] = batch[q]
    BY <2>1 DEF Terminate, TypeOK
  <2>3. OthersStay(p, r)
    BY <2>2, OthersKeep
  <2> QED
    BY <2>1, <2>2, <2>3 DEF AccountEffect, Calm, Marking, Waiting
<1>3. CASE Restart(p)
  <2>1. /\ life[p] = "down" /\ UNCHANGED <<copies, batch>> /\ pc'[p] = "idle"
        /\ \A q \in Instances \ {p} : life'[q] = life[q] /\ pc'[q] = pc[q]
    BY <1>3 DEF Restart, TypeOK
  <2>2. OthersStay(p, r)
    BY <2>1, OthersKeep
  <2> QED
    BY <2>1, <2>2 DEF AccountEffect, Calm, Marking, Waiting
<1>4. CASE ConnectionBreaks(p) \/ ChannelCloses(p)
  BY <1>4, StillIsCalm DEF ConnectionBreaks, ChannelCloses
<1> QED
  BY <1>1, <1>2, <1>3, <1>4 DEF LifeCycle

(* A row that is settled stays settled.                                    *)
LEMMA SettledStays ==
  ASSUME TypeOK, StoppedLoop, [Next]_vars, NEW r \in RowIds, ~Open(r)
  PROVE  ~Open(r)'
BY StepEffect DEF Open, Effect, CopySent, RowInserted, RowUpdated

(* The accounts balance after every effect.                                *)
LEMMA EffectKeepsAccount ==
  ASSUME TypeOK, StoppedLoop, [Next]_vars, CopiesInv, NEW p \in Instances, NEW r \in RowIds,
         AccountEffect(p, r)
  PROVE  IF Open(r)' THEN copies'[r] <= Cardinality(Marking(r)') + faults'["loop"]
         ELSE copies'[r] + Cardinality(Waiting(r)') <= Cardinality(Instances) + faults'["loop"]
<1> DEFINE M == Marking(r)  W == Waiting(r)
           M1 == Marking(r)'  W1 == Waiting(r)'
           m == Cardinality(M)  w == Cardinality(W)
           m1 == Cardinality(M1)  w1 == Cardinality(W1)  n == Cardinality(Instances)
<1>n. /\ IsFiniteSet(M) /\ IsFiniteSet(W) /\ m \in Nat /\ w \in Nat /\ n \in Nat
      /\ m + w <= n
  BY LoopsCount
<1>o. IsFiniteSet(M1) /\ IsFiniteSet(W1) /\ m1 \in Nat /\ w1 \in Nat /\ m1 + w1 <= n
  <2>1. /\ IsFiniteSet(Instances) /\ M1 \in SUBSET Instances
        /\ W1 \in SUBSET Instances /\ M1 \cap W1 = {}
    BY OutboxAssumption DEF Marking, Waiting
  <2> HIDE DEF M1, W1
  <2> QED
    BY <2>1, DisjointParts
<1>f. faults["loop"] \in Nat /\ faults'["loop"] \in Nat /\ faults'["loop"] >= faults["loop"]
  BY FaultsGrow DEF FaultKinds
<1>c. copies[r] \in Nat
  BY DEF TypeOK
<1>s. ~Open(r) => ~Open(r)'
  BY SettledStays
<1>i. IF Open(r) THEN copies[r] <= m + faults["loop"] ELSE copies[r] + w <= n + faults["loop"]
  BY DEF CopiesInv
<1>m. M \ {p} = M1 \ {p} /\ W \ {p} = W1 \ {p}
  BY DEF AccountEffect, OthersStay, Marking, Waiting
<1>k. /\ Cardinality(M \ {p}) = IF p \in M THEN m - 1 ELSE m
      /\ Cardinality(W \ {p}) = IF p \in W THEN w - 1 ELSE w
      /\ Cardinality(M1 \ {p}) = IF p \in M1 THEN m1 - 1 ELSE m1
      /\ Cardinality(W1 \ {p}) = IF p \in W1 THEN w1 - 1 ELSE w1
  BY <1>n, <1>o, FS_RemoveElement
<1>d. /\ (IF p \in M THEN m - 1 ELSE m) = (IF p \in M1 THEN m1 - 1 ELSE m1)
      /\ (IF p \in W THEN w - 1 ELSE w) = (IF p \in W1 THEN w1 - 1 ELSE w1)
  BY <1>m, <1>k
<1> HIDE DEF M, W, M1, W1, m, w, m1, w1, n
<1>1. CASE Calm(p, r)
  <2>1. /\ copies'[r] = copies[r]
        /\ p \in M => p \in M1 \/ faults'["loop"] = faults["loop"] + 1 \/ ~Open(r)'
        /\ p \in W1 => p \in W \/ Open(r)'
    BY <1>1 DEF Calm, M, W, M1, W1
  <2>2. CASE Open(r)'
    <3>1. /\ copies[r] <= m + faults["loop"]
          /\ m1 >= m \/ (m1 = m - 1 /\ faults'["loop"] = faults["loop"] + 1)
      BY <1>n, <1>o, <1>s, <1>i, <1>d, <2>1, <2>2
    <3>2. copies'[r] <= m1 + faults'["loop"]
      BY <1>n, <1>o, <1>f, <1>c, <2>1, <3>1
    <3> QED
      BY <2>2, <3>2 DEF m1, M1
  <2>3. CASE ~Open(r)'
    <3>1. w1 <= w
      BY <1>n, <1>o, <1>d, <2>1, <2>3
    <3>2. copies[r] + w <= n + faults["loop"]
      BY <1>n, <1>f, <1>c, <1>i
    <3>3. copies'[r] + w1 <= n + faults'["loop"]
      BY <1>n, <1>o, <1>f, <1>c, <2>1, <3>1, <3>2
    <3> QED
      BY <2>3, <3>3 DEF w1, W1, n
  <2> QED
    BY <2>2, <2>3
<1>2. CASE Sent(p, r)
  <2>1. copies'[r] = copies[r] + 1 /\ m1 = m + 1 /\ w1 = w - 1
    BY <1>2, <1>n, <1>o, <1>d DEF Sent, M, W, M1, W1
  <2>2. CASE Open(r)'
    <3>1. copies'[r] <= m1 + faults'["loop"]
      BY <1>n, <1>o, <1>f, <1>c, <1>s, <1>i, <2>1, <2>2
    <3> QED
      BY <2>2, <3>1 DEF m1, M1
  <2>3. CASE ~Open(r)'
    <3>1. copies[r] + w <= n + faults["loop"]
      BY <1>n, <1>f, <1>c, <1>i
    <3>2. copies'[r] + w1 <= n + faults'["loop"]
      BY <1>n, <1>o, <1>f, <1>c, <2>1, <3>1
    <3> QED
      BY <2>3, <3>2 DEF w1, W1, n
  <2> QED
    BY <2>2, <2>3
<1>3. CASE Late(p, r)
  <2>1. /\ copies'[r] = copies[r] + 1 /\ faults'["loop"] = faults["loop"] + 1
        /\ p \notin M /\ (p \in W1 => p \in W)
    BY <1>3 DEF Late, M, W, W1
  <2>2. m1 >= m /\ w1 <= w
    BY <1>n, <1>o, <1>d, <2>1
  <2>3. CASE Open(r)'
    <3>1. copies'[r] <= m1 + faults'["loop"]
      BY <1>n, <1>o, <1>f, <1>c, <1>s, <1>i, <2>1, <2>2, <2>3
    <3> QED
      BY <2>3, <3>1 DEF m1, M1
  <2>4. CASE ~Open(r)'
    <3>1. copies[r] + w <= n + faults["loop"]
      BY <1>n, <1>f, <1>c, <1>i
    <3>2. copies'[r] + w1 <= n + faults'["loop"]
      BY <1>n, <1>o, <1>f, <1>c, <2>1, <2>2, <3>1
    <3> QED
      BY <2>4, <3>2 DEF w1, W1, n
  <2> QED
    BY <2>3, <2>4
<1> QED
  BY <1>1, <1>2, <1>3 DEF AccountEffect

(* CopiesInv is inductive.                                                 *)
LEMMA NextCopies == TypeOK /\ StoppedLoop /\ CopiesInv /\ [Next]_vars => CopiesInv'
<1> SUFFICES ASSUME TypeOK, StoppedLoop, CopiesInv, [Next]_vars, NEW r \in RowIds
             PROVE  IF Open(r)' THEN copies'[r] <= Cardinality(Marking(r)') + faults'["loop"]
                    ELSE copies'[r] + Cardinality(Waiting(r)')
                           <= Cardinality(Instances) + faults'["loop"]
  BY DEF CopiesInv
<1>1. ASSUME NEW p \in Instances, Publisher(p) PROVE AccountEffect(p, r)
  BY <1>1, StillIsCalm DEF Publisher, CallPublishEvent, SaveEntry, SaveUnacknowledged
<1>2. CASE \E p \in Instances : AccountEffect(p, r)
  BY <1>2, EffectKeepsAccount
<1>3. CASE UNCHANGED vars
  <2>1. Open(r)' = Open(r) /\ Marking(r)' = Marking(r) /\ Waiting(r)' = Waiting(r)
        /\ copies' = copies /\ faults'["loop"] = faults["loop"]
    BY <1>3 DEF vars, Open, Marking, Waiting, AtRow
  <2> QED
    BY <2>1 DEF CopiesInv
<1> QED
  BY <1>1, <1>2, <1>3, ProcessorAccount, LifeCycleAccount DEF Next

(* A row reaches the broker at most once per instance, and once more for   *)
(* each fault: competition alone cannot multiply messages any further.     *)
THEOREM Duplicates == Spec => []DuplicatesAccounted
<1>1. Init => CopiesInv
  <2> SUFFICES ASSUME Init, NEW r \in RowIds
               PROVE  Open(r) /\ copies[r] <= Cardinality(Marking(r)) + faults["loop"]
    BY DEF CopiesInv
  <2>1. Open(r) /\ copies[r] = 0 /\ faults["loop"] = 0
    BY DEF Init, FaultKinds, Open
  <2> QED
    BY <2>1, LoopsCount
<1>2. TypeOK /\ CopiesInv => DuplicatesAccounted
  <2> SUFFICES ASSUME TypeOK, CopiesInv, NEW r \in RowIds
               PROVE  copies[r] <= Cardinality(Instances) + faults["loop"]
    BY DEF DuplicatesAccounted
  <2>1. copies[r] \in Nat /\ faults["loop"] \in Nat
    BY OutboxAssumption DEF TypeOK, FaultKinds
  <2> QED
    BY <2>1, LoopsCount DEF CopiesInv
<1> QED
  BY <1>1, <1>2, NextCopies, SpecStoppedLoop, PTL DEF Spec

-----------------------------------------------------------------------------
(* Losses                                                                  *)

(* What LossIsExplained accepts as the cause of a loss.                    *)
Cause ==
  \/ faults["connection"] > 0
  \/ \E r \in DOMAIN outbox :
       Misrouted(r) /\ (outbox[r].status = "PUBLISHED" \/ faults["loop"] > 0)

(* A loop has published a misrouted row and is going to record it.         *)
AboutToLose(p) == \E r \in RowIds : pc[p] = "mark" /\ AtRow(p, r) /\ Misrouted(r)

(* Everything that can lose a message goes back to a cause, or to a loop   *)
(* that will be one when it records its row or fails to: a broken channel, *)
(* a loop about to mark what the broker does not hold, a row marked so.    *)
LossInv ==
  /\ \A p \in Instances : life[p] = "stopping" => faults["loop"] > 0
  /\ \A p \in Instances : channel[p] = "broken" =>
       BrokerType = "rabbitmq" /\ (Cause \/ AboutToLose(p))
  /\ \A p \in Instances, r \in RowIds :
       pc[p] = "mark" /\ AtRow(p, r) /\ copies[r] = 0 => Cause \/ Misrouted(r)
  /\ \A r \in DOMAIN outbox :
       outbox[r].status = "PUBLISHED" /\ copies[r] = 0 => Cause

(* Rows keep their event, and so their exchange.                           *)
LEMMA ExchangesKept ==
  ASSUME TypeOK, [Next]_vars
  PROVE  /\ DOMAIN outbox \subseteq DOMAIN outbox'
         /\ \A r \in DOMAIN outbox : outbox'[r].event = outbox[r].event
<1>1. ASSUME NEW p \in Instances, Publisher(p)
      PROVE  /\ DOMAIN outbox \subseteq DOMAIN outbox'
             /\ \A r \in DOMAIN outbox : outbox'[r].event = outbox[r].event
  <2>1. outbox' = outbox \/ \E e \in Events, r \in RowIds : Insert(e, r)
    BY <1>1 DEF Publisher, CallPublishEvent, SaveEntry, SaveUnacknowledged
  <2>2. ASSUME NEW e \in Events, NEW r \in RowIds, Insert(e, r)
        PROVE  /\ DOMAIN outbox \subseteq DOMAIN outbox'
               /\ \A q \in DOMAIN outbox : outbox'[q] = outbox[q]
    BY <2>2, InsertEffect DEF TypeOK
  <2> QED
    BY <2>1, <2>2
<1>2. ASSUME NEW p \in Instances, LifeCycle(p) PROVE outbox' = outbox
  BY <1>2 DEF LifeCycle, Cancel, Exit, Crash, Terminate, Restart, ConnectionBreaks,
     ChannelCloses
<1>3. CASE UNCHANGED vars
  BY <1>3 DEF vars
<1> QED
  BY <1>1, <1>2, <1>3, ProcessorKeepsEvents DEF EventsKept, Next

(* A cause remains: faults are not forgotten, rows keep their exchange, and*)
(* PUBLISHED is final.                                                     *)
LEMMA CauseStays ==
  ASSUME TypeOK, StoppedLoop, [Next]_vars
  PROVE  /\ \A r \in DOMAIN outbox : Misrouted(r) => r \in DOMAIN outbox' /\ Misrouted(r)'
         /\ faults["loop"] > 0 => faults'["loop"] > 0
         /\ Cause => Cause'
<1>1. /\ DOMAIN outbox \subseteq DOMAIN outbox'
      /\ \A r \in DOMAIN outbox : outbox'[r].event = outbox[r].event
  BY ExchangesKept
<1>2. \A r \in DOMAIN outbox : Misrouted(r) => r \in DOMAIN outbox' /\ Misrouted(r)'
  BY <1>1 DEF Misrouted
<1>3. \A k \in {"loop", "connection"} : faults[k] > 0 => faults'[k] > 0
  BY FaultsGrow DEF FaultKinds
<1>4. \A r \in DOMAIN outbox :
        outbox[r].status = "PUBLISHED" => outbox'[r].status = "PUBLISHED"
  BY StepEffect DEF Effect, CopySent, RowInserted, RowUpdated
<1> QED
  BY <1>2, <1>3, <1>4 DEF Cause

(* LossInv is inductive.                                                   *)
LEMMA NextLoss == TypeOK /\ StoppedLoop /\ LossInv /\ [Next]_vars => LossInv'
<1> SUFFICES ASSUME TypeOK, StoppedLoop, LossInv, [Next]_vars PROVE LossInv'
  OBVIOUS
<1>c. copies \in [RowIds -> Nat] /\ copies' \in [RowIds -> Nat]
  BY NextType DEF TypeOK
<1>d. DOMAIN outbox \subseteq RowIds /\ DOMAIN outbox' \subseteq RowIds
  BY NextType DEF TypeOK
<1>e. \A p \in Instances, r \in RowIds : AtRow(p, r) => r \in DOMAIN outbox
  BY DEF AtRow, TypeOK
<1>1. /\ \A r \in DOMAIN outbox : Misrouted(r) => r \in DOMAIN outbox' /\ Misrouted(r)'
      /\ faults["loop"] > 0 => faults'["loop"] > 0
      /\ Cause => Cause'
  BY CauseStays
<1>2. \A r \in RowIds : copies[r] > 0 => copies'[r] > 0
  BY CopiesGrow
<1>3. ASSUME NEW p \in Instances, life'[p] = "stopping" PROVE faults'["loop"] > 0
  <2>1. CASE life[p] = "stopping"
    BY <1>1, <2>1 DEF LossInv
  <2>2. ASSUME NEW q \in Instances, LifeCycle(q), life[p] # "stopping"
        PROVE  Cancel(q)
    BY <1>3, <2>2 DEF LifeCycle, Exit, Crash, Terminate, Restart, ConnectionBreaks,
       ChannelCloses, TypeOK
  <2>3. ASSUME NEW q \in Instances, Publisher(q) \/ Processor(q) PROVE life' = life
    BY <2>3 DEF Publisher, CallPublishEvent, SaveEntry, SaveUnacknowledged, Processor,
       ProcessPendingEntries, LeaveLoop, DecodeFailure, PublishAccepted, PublishLost,
       PublishFails, MarkAsPublished, AbandonRetry, IncrementRetryCount, MarkAsFailed
  <2>4. ASSUME NEW q \in Instances, Cancel(q) PROVE faults'["loop"] > 0
    <3>1. faults'["loop"] = faults["loop"] + 1 /\ faults["loop"] \in Nat
      BY <2>4, FaultEffect, FaultsGrow DEF Cancel, TypeOK, FaultKinds
    <3> QED
      BY <3>1
  <2> QED
    BY <1>3, <2>1, <2>2, <2>3, <2>4 DEF Next, vars
<1>4. ASSUME NEW p \in Instances, NEW s \in RowIds, MarkAsPublished(p, s), Misrouted(s)
      PROVE  Cause'
  <2>1. AtRow(p, s) /\ pc[p] = "mark" /\ s \in DOMAIN outbox /\ outbox[s] \in OutboxEntry
    BY <1>4, <1>e DEF MarkAsPublished, TypeOK, PageOf
  <2>2. CASE outbox' = [outbox EXCEPT ![s] = [outbox[s] EXCEPT !.status = "PUBLISHED"]]
    <3>1. s \in DOMAIN outbox' /\ outbox'[s].status = "PUBLISHED"
      BY <2>1, <2>2 DEF OutboxEntry
    <3> QED
      BY <1>1, <1>4, <2>1, <3>1 DEF Cause
  <2>3. CASE life[p] = "stopping"
    BY <1>1, <1>4, <2>1, <2>3 DEF LossInv, Cause
  <2>4. CASE Fault("loop")
    <3>1. faults'["loop"] = faults["loop"] + 1 /\ faults["loop"] \in Nat
      BY <2>4, FaultEffect, FaultsGrow DEF TypeOK, FaultKinds
    <3> QED
      BY <1>1, <1>4, <2>1, <3>1 DEF Cause
  <2> QED
    BY <1>4, <2>2, <2>3, <2>4 DEF MarkAsPublished, UpdateEntry
<1>5. ASSUME NEW r \in DOMAIN outbox', outbox'[r].status = "PUBLISHED", copies'[r] = 0
      PROVE  Cause'
  <2>1. copies[r] = 0
    BY <1>2, <1>5, <1>c, <1>d
  <2>2. CASE r \in DOMAIN outbox /\ outbox[r].status = "PUBLISHED"
    BY <1>1, <2>1, <2>2 DEF LossInv
  <2>3. CASE \E p \in Instances : pc[p] = "mark" /\ AtRow(p, r)
    <3>1. r \in RowIds /\ r \in DOMAIN outbox
      BY <1>d, <1>e, <2>3
    <3>2. Cause \/ Misrouted(r)
      BY <2>1, <2>3, <3>1 DEF LossInv
    <3> QED
      BY <1>1, <1>5, <3>1, <3>2 DEF Cause
  <2> QED
    BY <1>5, <2>2, <2>3, StepEffect DEF Effect, CopySent, RowInserted, RowUpdated
<1>6. ASSUME NEW q \in Instances, channel'[q] = "broken" => channel[q] = "broken",
             pc'[q] = pc[q], batch'[q] = batch[q]
      PROVE  /\ channel'[q] = "broken" =>
                  BrokerType = "rabbitmq" /\ (Cause' \/ AboutToLose(q)')
             /\ \A r \in RowIds : pc'[q] = "mark" /\ AtRow(q, r)' /\ copies'[r] = 0 =>
                  Cause' \/ Misrouted(r)'
  <2>1. \A r \in RowIds : AtRow(q, r)' <=> AtRow(q, r)
    BY <1>6 DEF AtRow
  <2>2. AboutToLose(q) => AboutToLose(q)'
    BY <1>1, <1>6, <1>e, <2>1 DEF AboutToLose
  <2>3. ASSUME NEW r \in RowIds, pc'[q] = "mark", AtRow(q, r)', copies'[r] = 0
        PROVE  Cause' \/ Misrouted(r)'
    <3>1. copies[r] = 0 /\ r \in DOMAIN outbox
      BY <1>2, <1>c, <1>e, <2>1, <2>3
    <3> QED
      BY <1>1, <1>6, <2>1, <2>3, <3>1 DEF LossInv
  <2> QED
    BY <1>1, <1>6, <2>2, <2>3 DEF LossInv
<1>7. ASSUME NEW p \in Instances,
             \A q \in Instances \ {p} : channel'[q] = channel[q] /\ pc'[q] = pc[q]
                                        /\ batch'[q] = batch[q],
             channel'[p] = "broken" =>
               BrokerType = "rabbitmq" /\ (Cause' \/ AboutToLose(p)'),
             \A r \in RowIds : pc'[p] = "mark" /\ AtRow(p, r)' /\ copies'[r] = 0 =>
               Cause' \/ Misrouted(r)'
      PROVE  LossInv'
  BY <1>3, <1>5, <1>6, <1>7 DEF LossInv
<1>8. ASSUME UNCHANGED <<pc, batch>>,
             \A q \in Instances : channel'[q] = "broken" => channel[q] = "broken"
      PROVE  LossInv'
  BY <1>3, <1>5, <1>6, <1>8 DEF LossInv
<1>9. ASSUME NEW p \in Instances, channel' = channel, pc'[p] # "mark",
             \A q \in Instances \ {p} : pc'[q] = pc[q] /\ batch'[q] = batch[q],
             AboutToLose(p) => Cause'
      PROVE  LossInv'
  <2>1. channel'[p] = "broken" => BrokerType = "rabbitmq" /\ Cause'
    BY <1>1, <1>9 DEF LossInv
  <2> QED
    BY <1>7, <1>9, <2>1
<1>10. ASSUME NEW p \in Instances, Publisher(p) PROVE LossInv'
  BY <1>8, <1>10 DEF Publisher, CallPublishEvent, SaveEntry, SaveUnacknowledged
<1>11. ASSUME NEW p \in Instances, LifeCycle(p) PROVE LossInv'
  <2>1. CASE Cancel(p) \/ ChannelCloses(p)
    BY <1>8, <2>1 DEF Cancel, ChannelCloses, TypeOK
  <2>2. CASE Exit(p) \/ Crash(p) \/ Restart(p)
    <3>1. /\ channel'[p] # "broken" /\ pc'[p] # "mark"
          /\ \A q \in Instances \ {p} : channel'[q] = channel[q] /\ pc'[q] = pc[q]
                                        /\ batch'[q] = batch[q]
      BY <2>2 DEF Exit, Crash, Terminate, Restart, TypeOK
    <3> QED
      BY <1>7, <3>1
  <2>3. CASE ConnectionBreaks(p)
    <3>1. BrokerType = "rabbitmq" /\ UNCHANGED <<pc, batch>>
      BY <2>3 DEF ConnectionBreaks
    <3>2. faults'["connection"] = faults["connection"] + 1 /\ faults["connection"] \in Nat
      BY <2>3, FaultEffect, FaultsGrow DEF ConnectionBreaks, TypeOK, FaultKinds
    <3>3. Cause'
      BY <3>2 DEF Cause
    <3> QED
      BY <1>3, <1>5, <3>1, <3>3 DEF LossInv
  <2> QED
    BY <1>11, <2>1, <2>2, <2>3 DEF LifeCycle
<1>12. ASSUME NEW p \in Instances, Processor(p) PROVE LossInv'
  <2>1. CASE ProcessPendingEntries(p) \/ LeaveLoop(p)
    <3>1. /\ channel' = channel /\ pc[p] = "idle" /\ pc'[p] # "mark"
          /\ \A q \in Instances \ {p} : pc'[q] = pc[q] /\ batch'[q] = batch[q]
      BY <2>1 DEF ProcessPendingEntries, LeaveLoop, TypeOK
    <3> QED
      BY <1>9, <3>1 DEF AboutToLose
  <2>2. ASSUME NEW s \in RowIds, \/ DecodeFailure(p, s) \/ IncrementRetryCount(p, s)
                                 \/ AbandonRetry(p, s) \/ MarkAsFailed(p, s)
        PROVE  LossInv'
    <3>1. /\ channel' = channel /\ pc[p] # "mark" /\ s \in DOMAIN batch[p]
          /\ \/ NextEntry(p, s)
             \/ /\ batch' = batch
                /\ \E x \in {"undecoded", "failed", "counted"} : pc' = [pc EXCEPT ![p] = x]
      BY <2>2 DEF DecodeFailure, IncrementRetryCount, AbandonRetry, MarkAsFailed, AtRow
    <3>2. /\ pc'[p] # "mark"
          /\ \A q \in Instances \ {p} : pc'[q] = pc[q] /\ batch'[q] = batch[q]
      <4>1. CASE NextEntry(p, s)
        BY <3>1, <4>1, NextEntryEffect
      <4> QED
        BY <3>1, <4>1 DEF TypeOK
    <3> QED
      BY <1>9, <3>1, <3>2 DEF AboutToLose
  <2>3. ASSUME NEW s \in RowIds, PublishAccepted(p, s) PROVE LossInv'
    <3>1. /\ channel' = channel /\ channel[p] = "open" /\ batch' = batch /\ AtRow(p, s)
          /\ copies' = [copies EXCEPT ![s] = @ + 1]
          /\ \A q \in Instances \ {p} : pc'[q] = pc[q]
      BY <2>3 DEF PublishAccepted, Attempting, CanArrive, TypeOK
    <3>2. ASSUME NEW r \in RowIds, AtRow(p, r)' PROVE copies'[r] # 0
      <4>1. r = s
        BY <3>1, <3>2 DEF AtRow, RowIds
      <4> QED
        BY <1>c, <3>1, <4>1
    <3> QED
      BY <1>7, <3>1, <3>2
  <2>4. ASSUME NEW s \in RowIds, PublishLost(p, s) PROVE LossInv'
    <3>1. /\ pc[p] = "publish" /\ batch' = batch /\ AtRow(p, s) /\ ~CanArrive(p, s)
          /\ pc'[p] = "mark" /\ channel[p] # "closed"
          /\ \A q \in Instances \ {p} : pc'[q] = pc[q] /\ channel'[q] = channel[q]
      BY <2>4 DEF PublishLost, CanPublish, Attempting, TypeOK
    <3>2. s \in DOMAIN outbox
      BY <1>e, <3>1
    <3>3. BrokerType = "rabbitmq" /\ (Cause \/ Misrouted(s))
      BY <3>1 DEF LossInv, AboutToLose, CanArrive, Misrouted, TypeOK
    <3>4. AtRow(p, s)' /\ \A r \in RowIds : AtRow(p, r)' => r = s
      BY <3>1 DEF AtRow, RowIds
    <3>5. Cause' \/ Misrouted(s)'
      BY <1>1, <3>2, <3>3
    <3>6. Cause' \/ AboutToLose(p)'
      BY <3>1, <3>4, <3>5 DEF AboutToLose
    <3> QED
      BY <1>7, <3>1, <3>3, <3>4, <3>5, <3>6
  <2>5. ASSUME NEW s \in RowIds, PublishFails(p, s) PROVE LossInv'
    BY <1>8, <2>5 DEF PublishFails
  <2>6. ASSUME NEW s \in RowIds, MarkAsPublished(p, s) PROVE LossInv'
    <3>1. channel' = channel /\ NextEntry(p, s) /\ AtRow(p, s) /\ s \in DOMAIN batch[p]
      BY <2>6 DEF MarkAsPublished, AtRow
    <3>2. /\ pc'[p] \in {"idle", "publish"}
          /\ \A q \in Instances \ {p} : pc'[q] = pc[q] /\ batch'[q] = batch[q]
      BY <3>1, NextEntryEffect
    <3>3. AboutToLose(p) => Misrouted(s)
      BY <3>1 DEF AboutToLose, AtRow, RowIds
    <3> QED
      BY <1>4, <1>9, <2>6, <3>1, <3>2, <3>3
  <2> QED
    BY <1>12, <2>1, <2>2, <2>3, <2>4, <2>5, <2>6 DEF Processor
<1>13. ASSUME UNCHANGED vars PROVE LossInv'
  BY <1>8, <1>13 DEF vars
<1> QED
  BY <1>10, <1>11, <1>12, <1>13 DEF Next

(* No row is marked PUBLISHED without a message before a connection broke  *)
(* or a row of an undeclared exchange was published: the failed updates,   *)
(* retries, cancellations and crashes of any number of instances do not    *)
(* suffice.                                                                *)
THEOREM LossCause == Spec => []LossIsExplained
<1>1. Init => LossInv
  BY DEF Init, LossInv
<1>2. LossInv => LossIsExplained
  BY DEF LossInv, LossIsExplained, Cause
<1> QED
  BY <1>1, <1>2, NextLoss, SpecStoppedLoop, PTL DEF Spec

=============================================================================
