------------------------------- MODULE Outbox -------------------------------
(***************************************************************************)
(* The transactional outbox of orchestron: EventPublisherWithOutbox, which *)
(* saves events into the table event_outbox, and OutboxProcessorImpl,      *)
(* which polls the table and hands rows to the message broker.  Several    *)
(* instances of the service may share the database (README.md, "Horizontal *)
(* Scaling"); nothing in the code keeps two of them from reading the same  *)
(* pending row.                                                            *)
(*                                                                         *)
(* One step is one database transaction, one publish attempt or one        *)
(* life-cycle event of an instance.  A database or broker call that fails  *)
(* without any effect and is simply tried again leaves the state as it is  *)
(* and needs no step; a failure with an effect is a step of its own and is *)
(* counted in faults.  A transaction that is under way when its context is *)
(* cancelled may still commit; one that is under way when its process ends *)
(* has committed before, or not at all.                                    *)
(***************************************************************************)
EXTENDS Routing, FiniteSets

CONSTANTS
  Instances,    \* running copies of cmd/orchestron on one database
  Events,       \* events handed to PublishEvent, identified by their uuid
  TypeOf,       \* [Events -> EventTypes]
  BrokerType,   \* cfg.Broker.Type: the one publisher main builds
  Exchanges,    \* RabbitMQ exchanges that exist
  Unparsable,   \* events whose stored payload does not decode
  BatchSize,    \* cfg.Outbox.BatchSize
  MaxRows,      \* bound: rows ever inserted
  RetryCap,     \* bound: retry_count saturates here
  AttemptCap,   \* bound: the count of failed attempts saturates here
  MaxFaults     \* bound: faults in a behaviour

ASSUME OutboxAssumption ==
  /\ IsFiniteSet(Instances)
  /\ TypeOf \in [Events -> EventTypes]
  /\ BrokerType \in {"kafka", "rabbitmq"}
  /\ "events" \in Exchanges          \* declared by NewRabbitMQPublisher
  /\ Unparsable \subseteq Events
  /\ BatchSize \in Nat \ {0}
  /\ {MaxRows, RetryCap, AttemptCap, MaxFaults} \subseteq Nat
  /\ \A t \in EventTypes : GetMaxRetries(t) <= RetryCap  \* saturation stays exact

VARIABLES
  publishing,  \* [Instances -> SUBSET Events]: PublishEvent calls in progress
  arrived,     \* events for which PublishEvent was called
  saved,       \* events whose PublishEvent returned nil
  outbox,      \* event_outbox: partial function from RowIds to OutboxEntry
  copies,      \* [RowIds -> Nat]: messages the broker holds for a row
  life,        \* process state: up, stopping (context cancelled), down
  pc,          \* where the loop of the outbox processor stands
  batch,       \* rows of the current page still to process, as they were read
  attempts,    \* failed attempts at the current row
  channel,     \* the AMQP channel: open, broken (not noticed yet) or closed;
               \* a Kafka producer stays open
  faults       \* faults so far, by kind

vars == <<publishing, arrived, saved, outbox, copies, life, pc, batch,
          attempts, channel, faults>>

-----------------------------------------------------------------------------
(* Types and helpers                                                       *)

(* A row is named by its created_at, the order in which pages are read.    *)
(* The stamp is taken from the caller's clock before the INSERT commits,   *)
(* so rows of concurrent calls may appear in any order of their names.     *)
RowIds == 1..MaxRows

OutboxStatus == {"PENDING", "PUBLISHED", "FAILED"}

OutboxEntry == [event : Events, status : OutboxStatus, retryCount : 0..RetryCap]

NewEntry(e) == [event |-> e, status |-> "PENDING", retryCount |-> 0]

Bump(n, cap) == IF n < cap THEN n + 1 ELSE n

(* Mutant: the query forgets its WHERE clause.                             *)
Pending_AnyStatus == DOMAIN outbox

Pending == {r \in DOMAIN outbox : outbox[r].status = "PENDING"}

(* FindPendingEntries: WHERE status = PENDING ORDER BY created_at ASC      *)
(* LIMIT n.  No lock is taken on the rows that are returned.               *)
FindPendingEntries(n, S) ==
  /\ S \subseteq Pending
  /\ \A r \in S, q \in Pending \ S : r < q
  /\ Cardinality(S) <= n
  /\ S # Pending => Cardinality(S) = n

(* The row the loop of processBatch is at.                                 *)
AtRow(p, r) ==
  /\ r \in DOMAIN batch[p]
  /\ \A q \in DOMAIN batch[p] : r <= q

(* The switch of processBatch publishes through RabbitMQ only for the      *)
(* broker name "rabbitmq"; every other name means Kafka.  The publisher of *)
(* one broker rejects every call meant for the other.                      *)
Supported(e) ==
  (GetBrokerForEventType(TypeOf[e]) = "rabbitmq") <=> (BrokerType = "rabbitmq")

(* insert: the answer to an INSERT that committed is lost.  connection: an *)
(* AMQP connection or channel breaks.  loop: a loop is kept from recording *)
(* what it did, by an UPDATE that fails, a delivery report that comes late,*)
(* a signal or a crash.                                                    *)
FaultKinds == {"insert", "connection", "loop"}

Fault(kind) ==
  /\ faults["insert"] + faults["connection"] + faults["loop"] < MaxFaults
  /\ faults' = [faults EXCEPT ![kind] = @ + 1]

(* Mutant: updates run on a context of their own, which nothing cancels.   *)
UpdateEntry_OwnContext(p, r, entry) ==
  /\ outbox' = [outbox EXCEPT ![r] = entry]
  /\ UNCHANGED faults

(* One transaction "UPDATE event_outbox ... WHERE id = r" on behalf of the *)
(* loop of p, with the status of the row unchecked.  It commits, or fails  *)
(* and is only logged.  Once the context is cancelled BeginTxx refuses to  *)
(* begin, and Commit to go on, but a COMMIT that was sent before takes     *)
(* effect: at "mark" and "undecoded" the loop may have come this far in    *)
(* time, while the error branch is only entered after the cancellation.    *)
UpdateEntry(p, r, entry) ==
  \/ /\ life[p] = "up" \/ pc[p] \in {"mark", "undecoded"}
     /\ outbox' = [outbox EXCEPT ![r] = entry]
     /\ UNCHANGED faults
  \/ /\ life[p] = "up"
     /\ Fault("loop")
     /\ UNCHANGED outbox
  \/ /\ life[p] = "stopping"
     /\ UNCHANGED <<outbox, faults>>

(* continue: the loop goes to the next row, or back to Start's select.     *)
NextEntry(p, r) ==
  /\ batch' = [batch EXCEPT ![p] = [q \in DOMAIN batch[p] \ {r} |-> batch[p][q]]]
  /\ pc' = [pc EXCEPT ![p] = IF DOMAIN batch[p] = {r} THEN "idle" ELSE "publish"]
  /\ attempts' = [attempts EXCEPT ![p] = 0]

-----------------------------------------------------------------------------
(* EventPublisherWithOutbox                                                *)

(* A processing goroutine of instance p calls PublishEvent for a new event.*)
(* These goroutines run on context.Background, so p may be stopping.       *)
CallPublishEvent(p, e) ==
  /\ life[p] # "down"
  /\ e \notin arrived
  /\ arrived' = arrived \cup {e}
  /\ publishing' = [publishing EXCEPT ![p] = @ \cup {e}]
  /\ UNCHANGED <<saved, outbox, copies, life, pc, batch, attempts, channel, faults>>

(* Save: the INSERT of a fresh pending row.  event_id is not unique.       *)
Insert(e, r) ==
  /\ r \in RowIds \ DOMAIN outbox
  /\ outbox' = [q \in DOMAIN outbox \cup {r} |-> IF q = r THEN NewEntry(e) ELSE outbox[q]]

(* Mutant: the caller's retry loop does not see that the INSERT succeeded. *)
SaveEntry_RetriesSuccess(p, e) ==
  /\ e \in publishing[p]
  /\ \E r \in RowIds : Insert(e, r)
  /\ saved' = saved \cup {e}
  /\ UNCHANGED <<publishing, arrived, copies, life, pc, batch, attempts, channel, faults>>

(* The INSERT succeeds and PublishEvent returns nil.                       *)
SaveEntry(p, e) ==
  /\ e \in publishing[p]
  /\ \E r \in RowIds : Insert(e, r)
  /\ publishing' = [publishing EXCEPT ![p] = @ \ {e}]
  /\ saved' = saved \cup {e}
  /\ UNCHANGED <<arrived, copies, life, pc, batch, attempts, channel, faults>>

(* The INSERT commits but its answer is lost: the caller's retry loop will *)
(* insert a second row for the same event.                                 *)
SaveUnacknowledged(p, e) ==
  /\ e \in publishing[p]
  /\ \E r \in RowIds : Insert(e, r)
  /\ Fault("insert")
  /\ UNCHANGED <<publishing, arrived, saved, copies, life, pc, batch, attempts, channel>>

-----------------------------------------------------------------------------
(* OutboxProcessorImpl                                                     *)

(* Mutant: rows are claimed as PUBLISHED when they are read.               *)
ProcessPendingEntries_Claims(p) ==
  /\ life[p] = "up" /\ pc[p] = "idle"
  /\ \E S \in SUBSET Pending :
       /\ FindPendingEntries(BatchSize, S)
       /\ batch' = [batch EXCEPT ![p] = [r \in S |-> outbox[r]]]
       /\ pc' = [pc EXCEPT ![p] = IF S = {} THEN "idle" ELSE "publish"]
       /\ outbox' = [r \in DOMAIN outbox |->
                       IF r \in S THEN [outbox[r] EXCEPT !.status = "PUBLISHED"]
                                  ELSE outbox[r]]
  /\ UNCHANGED <<publishing, arrived, saved, copies, life, attempts, channel, faults>>

(* A tick: read one page and start on it; an empty page ends the tick.     *)
ProcessPendingEntries(p) ==
  /\ life[p] = "up" /\ pc[p] = "idle"
  /\ \E S \in SUBSET Pending :
       /\ FindPendingEntries(BatchSize, S)
       /\ batch' = [batch EXCEPT ![p] = [r \in S |-> outbox[r]]]
       /\ pc' = [pc EXCEPT ![p] = IF S = {} THEN "idle" ELSE "publish"]
  /\ UNCHANGED <<publishing, arrived, saved, outbox, copies, life, attempts, channel, faults>>

(* json.Unmarshal rejects the payload: IncrementRetryCount is called, and  *)
(* refused at once if the context is cancelled.                            *)
DecodeFailure(p, r) ==
  /\ pc[p] = "publish" /\ AtRow(p, r)
  /\ outbox[r].event \in Unparsable
  /\ \/ /\ life[p] = "up"
        /\ pc' = [pc EXCEPT ![p] = "undecoded"]
        /\ UNCHANGED <<batch, attempts>>
     \/ /\ life[p] = "stopping"
        /\ NextEntry(p, r)
  /\ UNCHANGED <<publishing, arrived, saved, outbox, copies, life, channel, faults>>

(* retry.Do is about to call the broker: it looks at the context first.    *)
Attempting(p, r) ==
  /\ pc[p] = "publish" /\ AtRow(p, r)
  /\ outbox[r].event \notin Unparsable
  /\ life[p] = "up"

(* The publisher takes the row: it is of the right kind, and as far as it  *)
(* knows it is connected.                                                  *)
CanPublish(p, r) == Supported(outbox[r].event) /\ channel[p] # "closed"

(* Mutant: declareExchanges does not declare "events".                     *)
CanArrive_NothingDeclared(p, r) ==
  /\ channel[p] = "open"
  /\ BrokerType = "rabbitmq" =>
       GetExchangeForEventType(TypeOf[outbox[r].event]) \in Exchanges \ {"events"}

(* The message can arrive: the broker listens and knows the exchange.      *)
CanArrive(p, r) ==
  /\ channel[p] = "open"
  /\ BrokerType = "rabbitmq" =>
       GetExchangeForEventType(TypeOf[outbox[r].event]) \in Exchanges

(* The broker holds the message and the call returns nil.  A message that  *)
(* Kafka takes while its caller is cancelled or dies is this step, too:    *)
(* nothing tells whether the report came just before or just after.        *)
PublishAccepted(p, r) ==
  /\ Attempting(p, r) /\ CanPublish(p, r) /\ CanArrive(p, r)
  /\ copies' = [copies EXCEPT ![r] = @ + 1]
  /\ pc' = [pc EXCEPT ![p] = "mark"]
  /\ UNCHANGED <<publishing, arrived, saved, outbox, life, batch, attempts, channel, faults>>

(* RabbitMQ only: Publish returns nil as soon as the frame is written.     *)
(* There is no confirm, so the message may be gone: the connection is      *)
(* already broken, or the server answers an unknown exchange by closing    *)
(* the channel and drops whatever else comes on it.                        *)
PublishLost(p, r) ==
  /\ Attempting(p, r) /\ CanPublish(p, r) /\ ~CanArrive(p, r)
  /\ channel' = [channel EXCEPT ![p] = "broken"]
  /\ pc' = [pc EXCEPT ![p] = "mark"]
  /\ UNCHANGED <<publishing, arrived, saved, outbox, copies, life, batch, attempts, faults>>

(* Mutant: the error is logged and not returned.                           *)
PublishFails_Swallowed(p, r) ==
  /\ Attempting(p, r)
  /\ BrokerType = "kafka" \/ ~CanPublish(p, r)
  /\ pc' = [pc EXCEPT ![p] = "mark"]
  /\ UNCHANGED <<publishing, arrived, saved, outbox, copies, life, batch,
                 attempts, channel, faults>>

(* Mutant: a failed attempt puts the row back to PENDING.                  *)
PublishFails_Reopens(p, r) ==
  /\ Attempting(p, r)
  /\ BrokerType = "kafka" \/ ~CanPublish(p, r)
  /\ outbox' = [outbox EXCEPT ![r].status = "PENDING"]
  /\ UNCHANGED <<publishing, arrived, saved, copies, life, pc, batch,
                 attempts, channel, faults>>

(* The call returns an error and retry.Do will try again: the exponential  *)
(* backoff has no limit.  With Kafka the message may be in the log all the *)
(* same, when only its delivery report is late or lost.                    *)
PublishFails(p, r) ==
  /\ Attempting(p, r)
  /\ BrokerType = "kafka" \/ ~CanPublish(p, r)
  /\ \/ UNCHANGED <<copies, faults>>
     \/ /\ CanPublish(p, r) /\ Fault("loop")
        /\ copies' = [copies EXCEPT ![r] = @ + 1]
  /\ attempts' = [attempts EXCEPT ![p] = Bump(@, AttemptCap)]
  /\ UNCHANGED <<publishing, arrived, saved, outbox, life, pc, batch, channel>>

(* Mutant: a published row is deleted instead of updated.                  *)
MarkAsPublished_Deletes(p, r) ==
  /\ pc[p] = "mark" /\ AtRow(p, r)
  /\ outbox' = [q \in DOMAIN outbox \ {r} |-> outbox[q]]
  /\ NextEntry(p, r)
  /\ UNCHANGED <<publishing, arrived, saved, copies, life, channel, faults>>

(* MarkAsPublished; an error is logged and the row stays pending.          *)
MarkAsPublished(p, r) ==
  /\ pc[p] = "mark" /\ AtRow(p, r)
  /\ UpdateEntry(p, r, [outbox[r] EXCEPT !.status = "PUBLISHED"])
  /\ NextEntry(p, r)
  /\ UNCHANGED <<publishing, arrived, saved, copies, life, channel>>

(* The only way out of the retry loop with an error: the context is done.  *)
AbandonRetry(p, r) ==
  /\ pc[p] = "publish" /\ AtRow(p, r)
  /\ outbox[r].event \notin Unparsable
  /\ life[p] = "stopping"
  /\ pc' = [pc EXCEPT ![p] = "failed"]
  /\ UNCHANGED <<publishing, arrived, saved, outbox, copies, life, batch,
                 attempts, channel, faults>>

(* Mutant: a payload that does not decode ends processBatch (return, not   *)
(* continue).                                                              *)
IncrementRetryCount_EndsBatch(p, r) ==
  /\ AtRow(p, r)
  /\ UpdateEntry(p, r, [outbox[r] EXCEPT !.retryCount = Bump(@, RetryCap)])
  /\ \/ /\ pc[p] = "undecoded"
        /\ batch' = [batch EXCEPT ![p] = <<>>]
        /\ pc' = [pc EXCEPT ![p] = "idle"]
        /\ UNCHANGED attempts
     \/ /\ pc[p] = "failed"
        /\ pc' = [pc EXCEPT ![p] = "counted"]
        /\ UNCHANGED <<batch, attempts>>
  /\ UNCHANGED <<publishing, arrived, saved, copies, life, channel>>

(* Mutant: a payload that does not decode is tried again at once.          *)
IncrementRetryCount_SameRow(p, r) ==
  /\ AtRow(p, r)
  /\ UpdateEntry(p, r, [outbox[r] EXCEPT !.retryCount = Bump(@, RetryCap)])
  /\ \/ /\ pc[p] = "undecoded"
        /\ pc' = [pc EXCEPT ![p] = "publish"]
        /\ UNCHANGED <<batch, attempts>>
     \/ /\ pc[p] = "failed"
        /\ pc' = [pc EXCEPT ![p] = "counted"]
        /\ UNCHANGED <<batch, attempts>>
  /\ UNCHANGED <<publishing, arrived, saved, copies, life, channel>>

(* IncrementRetryCount: of a row that does not decode, which keeps its     *)
(* status and is left without consulting any limit; or as the first call of*)
(* processBatch's error branch.                                            *)
IncrementRetryCount(p, r) ==
  /\ AtRow(p, r)
  /\ UpdateEntry(p, r, [outbox[r] EXCEPT !.retryCount = Bump(@, RetryCap)])
  /\ \/ pc[p] = "undecoded" /\ NextEntry(p, r)
     \/ /\ pc[p] = "failed"
        /\ pc' = [pc EXCEPT ![p] = "counted"]
        /\ UNCHANGED <<batch, attempts>>
  /\ UNCHANGED <<publishing, arrived, saved, copies, life, channel>>

(* Second call: MarkAsFailed, if the count read with the page had already  *)
(* reached the limit of the event type.                                    *)
MarkAsFailed(p, r) ==
  /\ pc[p] = "counted" /\ AtRow(p, r)
  /\ IF batch[p][r].retryCount >= GetMaxRetries(TypeOf[batch[p][r].event])
     THEN UpdateEntry(p, r, [outbox[r] EXCEPT !.status = "FAILED"])
     ELSE UNCHANGED <<outbox, faults>>
  /\ NextEntry(p, r)
  /\ UNCHANGED <<publishing, arrived, saved, copies, life, channel>>

(* Start's select sees ctx.Done and returns.                               *)
LeaveLoop(p) ==
  /\ life[p] = "stopping" /\ pc[p] = "idle"
  /\ pc' = [pc EXCEPT ![p] = "stopped"]
  /\ UNCHANGED <<publishing, arrived, saved, outbox, copies, life, batch,
                 attempts, channel, faults>>

-----------------------------------------------------------------------------
(* Life cycle of an instance (main), and its connection                    *)

(* A signal arrives: main shuts the HTTP server down and calls cancel().   *)
Cancel(p) ==
  /\ life[p] = "up"
  /\ Fault("loop")
  /\ life' = [life EXCEPT ![p] = "stopping"]
  /\ UNCHANGED <<publishing, arrived, saved, outbox, copies, pc, batch, attempts, channel>>

(* The process is gone and its memory with it.                             *)
Terminate(p) ==
  /\ life' = [life EXCEPT ![p] = "down"]
  /\ publishing' = [publishing EXCEPT ![p] = {}]
  /\ pc' = [pc EXCEPT ![p] = "stopped"]
  /\ batch' = [batch EXCEPT ![p] = <<>>]
  /\ attempts' = [attempts EXCEPT ![p] = 0]
  /\ channel' = [channel EXCEPT ![p] = "closed"]
  /\ UNCHANGED <<arrived, saved, outbox, copies>>

(* main returns after cancel() without waiting for any goroutine.          *)
Exit(p) ==
  /\ life[p] = "stopping"
  /\ Terminate(p)
  /\ UNCHANGED faults

Crash(p) ==
  /\ life[p] = "up"
  /\ Fault("loop")
  /\ Terminate(p)

(* docker-compose.yml restarts the container; main runs from its start.    *)
Restart(p) ==
  /\ life[p] = "down"
  /\ life' = [life EXCEPT ![p] = "up"]
  /\ pc' = [pc EXCEPT ![p] = "idle"]
  /\ channel' = [channel EXCEPT ![p] = "open"]
  /\ UNCHANGED <<publishing, arrived, saved, outbox, copies, batch, attempts, faults>>

(* The AMQP connection or channel is lost.                                 *)
ConnectionBreaks(p) ==
  /\ BrokerType = "rabbitmq"
  /\ channel[p] = "open"
  /\ Fault("connection")
  /\ channel' = [channel EXCEPT ![p] = "broken"]
  /\ UNCHANGED <<publishing, arrived, saved, outbox, copies, life, pc, batch, attempts>>

(* The client library notices; from now on Publish returns an error, and   *)
(* nothing ever opens another channel.                                     *)
ChannelCloses(p) ==
  /\ channel[p] = "broken"
  /\ channel' = [channel EXCEPT ![p] = "closed"]
  /\ UNCHANGED <<publishing, arrived, saved, outbox, copies, life, pc, batch,
                 attempts, faults>>

-----------------------------------------------------------------------------

Init ==
  /\ publishing = [p \in Instances |-> {}]
  /\ arrived = {}
  /\ saved = {}
  /\ outbox = [r \in {} |-> NewEntry(r)]
  /\ copies = [r \in RowIds |-> 0]
  /\ life = [p \in Instances |-> "up"]
  /\ pc = [p \in Instances |-> "idle"]
  /\ batch = [p \in Instances |-> <<>>]
  /\ attempts = [p \in Instances |-> 0]
  /\ channel = [p \in Instances |-> "open"]
  /\ faults = [kind \in FaultKinds |-> 0]

Publisher(p) ==
  \E e \in Events : CallPublishEvent(p, e) \/ SaveEntry(p, e) \/ SaveUnacknowledged(p, e)

Processor(p) ==
  \/ ProcessPendingEntries(p)
  \/ LeaveLoop(p)
  \/ \E r \in RowIds :
       \/ DecodeFailure(p, r)
       \/ PublishAccepted(p, r) \/ PublishLost(p, r) \/ PublishFails(p, r)
       \/ MarkAsPublished(p, r)
       \/ AbandonRetry(p, r) \/ IncrementRetryCount(p, r) \/ MarkAsFailed(p, r)

LifeCycle(p) ==
  \/ Cancel(p) \/ Exit(p) \/ Crash(p) \/ Restart(p)
  \/ ConnectionBreaks(p) \/ ChannelCloses(p)

Next == \E p \in Instances : Publisher(p) \/ Processor(p) \/ LifeCycle(p)

Spec == Init /\ [][Next]_vars

(* Fairness.  The ticker fires again and again, go-retry tries without     *)
(* end, every goroutine and every database call proceeds, main returns     *)
(* once the context is cancelled (or whoever stops the container kills it),*)
(* and docker-compose.yml restarts what stopped.  The broker is assumed to *)
(* accept, some day, what it may accept all along.  Nothing is assumed of  *)
(* failures, which MaxFaults bounds.                                       *)
FairInstance(p) ==
  /\ WF_vars(ProcessPendingEntries(p))
  /\ WF_vars(\E r \in RowIds : DecodeFailure(p, r))
  /\ WF_vars(\E r \in RowIds : PublishAccepted(p, r))
  /\ WF_vars(\E r \in RowIds : MarkAsPublished(p, r))
  /\ WF_vars(\E r \in RowIds : AbandonRetry(p, r))
  /\ WF_vars(\E r \in RowIds : IncrementRetryCount(p, r))
  /\ WF_vars(\E r \in RowIds : MarkAsFailed(p, r))
  /\ WF_vars(LeaveLoop(p))
  /\ WF_vars(Exit(p))
  /\ WF_vars(Restart(p))
  /\ \A e \in Events : WF_vars(SaveEntry(p, e))

FairSpec == Spec /\ \A p \in Instances : FairInstance(p)

-----------------------------------------------------------------------------
(* Properties                                                              *)

PageOf(S) == [S -> OutboxEntry]

Positions == {"idle", "publish", "undecoded", "mark", "failed", "counted", "stopped"}

(* Every variable has its type; a page only names rows of the table.       *)
TypeOK ==
  /\ publishing \in [Instances -> SUBSET Events]
  /\ arrived \subseteq Events
  /\ saved \subseteq Events
  /\ DOMAIN outbox \subseteq RowIds
  /\ outbox \in PageOf(DOMAIN outbox)
  /\ copies \in [RowIds -> Nat]
  /\ life \in [Instances -> {"up", "stopping", "down"}]
  /\ pc \in [Instances -> Positions]
  /\ DOMAIN batch = Instances
  /\ batch = [p \in Instances |-> batch[p]]
  /\ \A p \in Instances : /\ DOMAIN batch[p] \subseteq DOMAIN outbox
                           /\ batch[p] \in PageOf(DOMAIN batch[p])
  /\ attempts \in [Instances -> 0..AttemptCap]
  /\ channel \in [Instances -> {"open", "broken", "closed"}]
  /\ faults \in [FaultKinds -> 0..MaxFaults]

(* A row leaves PENDING only after the broker took its event, whichever    *)
(* instance published it and whichever recorded it: processBatch marks a   *)
(* row after the publish call has returned nil.                            *)
SettledIsDelivered ==
  \A r \in DOMAIN outbox : outbox[r].status # "PENDING" => copies[r] > 0

(* A row whose exchange was never declared: RabbitMQ answers its message by*)
(* closing the channel, which takes down rows of other types as well.      *)
Misrouted(r) == GetExchangeForEventType(TypeOf[outbox[r].event]) \notin Exchanges

(* Without publisher confirms RabbitMQ can lose a row that is then marked  *)
(* PUBLISHED.  Before the first such loss a connection broke, or a row of  *)
(* an undeclared exchange was published; that row is PUBLISHED itself,     *)
(* unless its loop was kept from recording it.  No INSERT, no failed update*)
(* and no restart can start a loss.                                        *)
LossIsExplained ==
  (\E r \in DOMAIN outbox : outbox[r].status = "PUBLISHED" /\ copies[r] = 0) =>
    \/ faults["connection"] > 0
    \/ \E r \in DOMAIN outbox :
         Misrouted(r) /\ (outbox[r].status = "PUBLISHED" \/ faults["loop"] > 0)

(* Duplicates are bounded: with every instance reading the same page, the  *)
(* broker sees a row at most once per instance, plus once for each time a  *)
(* loop was kept from recording it (unrecorded mark, late Kafka delivery   *)
(* report, shutdown or crash between the publish and the mark).            *)
DuplicatesAccounted ==
  \A r \in RowIds : copies[r] <= Cardinality(Instances) + faults["loop"]

(* event_id is not unique in event_outbox: each INSERT whose answer is     *)
(* lost adds a row, and nothing else does.                                 *)
RowsAccounted ==
  \A e \in Events :
    Cardinality({r \in DOMAIN outbox : outbox[r].event = e}) <= 1 + faults["insert"]

(* MarkAsFailed exists, but no row is ever given up: the error branch of   *)
(* processBatch is reached only when the context is done, and then neither *)
(* the retry count nor the status can be written.                          *)
NothingIsGivenUp == \A r \in DOMAIN outbox : outbox[r].status # "FAILED"

(* The updates do not test the status they overwrite (WHERE id = $n), yet  *)
(* a row once PUBLISHED is never reopened or failed by another instance    *)
(* that still works on an old copy of it.                                  *)
PublishedIsFinal ==
  [][\A r \in DOMAIN outbox :
       outbox[r].status = "PUBLISHED" => outbox'[r].status = "PUBLISHED"]_vars

(* retry.Do tries one row no more often than the limit of its type         *)
(* (routing.go: "the maximum number of retries for an event type").        *)
RetriesBounded ==
  \A p \in Instances, r \in RowIds :
    AtRow(p, r) => attempts[p] <= 1 + GetMaxRetries(TypeOf[batch[p][r].event])

Deliverable(e) == e \notin Unparsable /\ Supported(e)

(* Every event that PublishEvent saved reaches the broker, through retries,*)
(* restarts and competition between instances.                             *)
SavedEventReachesBroker ==
  \A e \in Events :
    (Deliverable(e) /\ e \in saved) ~>
      (\E r \in DOMAIN outbox : outbox[r].event = e /\ copies[r] > 0)

(* A page always comes to an end: every loop polls again, or dies trying.  *)
LoopKeepsPolling == \A p \in Instances : []<>(pc[p] = "idle" \/ life[p] = "down")

(* The table and the processors implement the at-least-once contract.      *)
Contract == INSTANCE OutboxContract WITH
  Rows      <- RowIds,
  stored    <- DOMAIN outbox,
  delivered <- {r \in RowIds : copies[r] > 0},
  settled   <- {r \in DOMAIN outbox : outbox[r].status # "PENDING"}

(* Every step of the detailed outbox stores, delivers or settles one row,  *)
(* or is invisible to the contract.                                        *)
ImplementsContract == Contract!Spec

=============================================================================
