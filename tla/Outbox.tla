------------------------------- MODULE Outbox -------------------------------
(***************************************************************************)
(* The transactional outbox of ad-decision: DecisionService.decide inserts *)
(* one event_outbox row per ad request, the worker threads of OutboxWorker *)
(* poll the table, send each row to Kafka and flag it published.           *)
(*                                                                         *)
(* One action per step another thread, the database or the broker can be   *)
(* interleaved with.  Rows are their BIGSERIAL ids; a payload is its id.   *)
(* The producer and the broker are external: a send is pending, then       *)
(* appended, then acknowledged, and get(5 s) may give up on it at any of   *)
(* these points while delivery.timeout.ms (10 s) still keeps it alive.     *)
(* A worker whose database connection is gone does not know it before the  *)
(* update: it goes on sending rows that are no longer locked.              *)
(*                                                                         *)
(* Not modelled: metrics other than republished; the payload is in         *)
(* Decision.                                                               *)
(***************************************************************************)
EXTENDS Integers, FiniteSets, Functions

CONSTANTS NumRows,      \* bound: rows ever inserted
          Workers,      \* outbox.workers threads
          BatchSize,    \* outbox.batch-size
          SkipLocked,   \* outbox.skip-locked
          Rejected,     \* rows the producer refuses every time
          Faults,       \* the kinds of fault a run may meet
          MaxFaults,    \* bound: faults per run
          SeenLimit     \* size above which the seen set is cleared

FaultKind == {"timeout", "skip", "rollback", "drop", "crash"}

Rows == 1..NumRows
NoRow == 0

ASSUME OutboxAssumption ==
  /\ NumRows \in Nat
  /\ Workers # {} /\ IsFiniteSet(Workers)
  /\ BatchSize \in Nat \ {0}
  /\ SkipLocked \in BOOLEAN
  /\ Rejected \subseteq Rows
  /\ Faults \subseteq FaultKind
  /\ MaxFaults \in Nat
  /\ SeenLimit \in Nat

VARIABLES
  tx,          \* tx[r]: the transaction of decide that inserts row r
  published,   \* rows whose published column is true (committed)
  dead,        \* workers whose transaction the database has rolled back
  pc,          \* pc[w]: where worker w is in poll()
  batch,       \* batch[w]: rows w selected; under SkipLocked, locked by w
  row,         \* row[w]: the loop variable, the row being sent
  done,        \* done[w]: publishedIds
  rep,         \* rep[w]: the local counter republished
  seen,        \* ids this process got an acknowledgement for
  republished, \* the outbox.republished counter
  backlog,     \* the outbox.unpublished gauge
  copies,      \* copies[r]: records of row r in the topic ad.request
  late,        \* late[r]: sends of r nobody waits for any more
  retries,     \* history: retries[r], sends of r that did not end in a flag
  faults       \* history: faults so far

dbVars     == <<tx, published, dead>>
workerVars == <<pc, batch, row, done, rep>>
metricVars == <<seen, republished, backlog>>
kafkaVars  == <<copies, late>>
histVars   == <<retries, faults>>
vars == <<dbVars, workerVars, metricVars, kafkaVars, histVars>>

TypeOK ==
  /\ tx \in [Rows -> {"absent", "open", "committed", "aborted"}]
  /\ published \in SUBSET Rows
  /\ dead \in SUBSET Workers
  /\ pc \in [Workers -> {"idle", "send", "pending", "appended", "finish"}]
  /\ batch \in [Workers -> SUBSET Rows]
  /\ row \in [Workers -> Rows \cup {NoRow}]
  /\ done \in [Workers -> SUBSET Rows]
  /\ rep \in [Workers -> Nat]
  /\ seen \in SUBSET Rows
  /\ republished \in Nat
  /\ backlog \in Nat
  /\ copies \in [Rows -> Nat]
  /\ late \in [Rows -> Nat]
  /\ retries \in [Rows -> Nat]
  /\ faults \in Nat

Init ==
  /\ tx = [r \in Rows |-> "absent"]
  /\ published = {}
  /\ dead = {}
  /\ pc = [w \in Workers |-> "idle"]
  /\ batch = [w \in Workers |-> {}]
  /\ row = [w \in Workers |-> NoRow]
  /\ done = [w \in Workers |-> {}]
  /\ rep = [w \in Workers |-> 0]
  /\ seen = {}
  /\ republished = 0
  /\ backlog = 0
  /\ copies = [r \in Rows |-> 0]
  /\ late = [r \in Rows |-> 0]
  /\ retries = [r \in Rows |-> 0]
  /\ faults = 0

Fault(kind) ==
  /\ kind \in Faults
  /\ faults < MaxFaults
  /\ faults' = faults + 1

-----------------------------------------------------------------------------
(* DecisionService.decide, @Transactional *)

\* INSERT INTO event_outbox: the sequence hands out the next id at once, the
\* row becomes visible to the workers only when the transaction commits.
DecideInsert(r) ==
  /\ tx[r] = "absent"
  /\ \A q \in Rows : q < r => tx[q] # "absent"
  /\ tx' = [tx EXCEPT ![r] = "open"]
  /\ UNCHANGED <<published, dead, workerVars, metricVars, kafkaVars, histVars>>

\* The transaction of decide ends; an exception rolls it back and its id is
\* never used again.
DecideEnd(r) ==
  /\ tx[r] = "open"
  /\ \E outcome \in {"committed", "aborted"} :
        tx' = [tx EXCEPT ![r] = outcome]
  /\ UNCHANGED <<published, dead, workerVars, metricVars, kafkaVars, histVars>>

-----------------------------------------------------------------------------
(* OutboxWorker.poll, one transaction *)

\* Each row sent in vain may be sent again.
SentInVain(S) == [r \in Rows |-> IF r \in S THEN retries[r] + 1 ELSE retries[r]]

\* The rows w has sent or is sending that retries does not hold yet; of a
\* dead transaction everything in the topic is in retries already.
Unaccounted(w) ==
  {r \in Rows : \/ w \notin dead /\ r \in done[w] \cup {row[w]}
                \/ pc[w] = "pending" /\ row[w] = r}

Locked == UNION {batch[w] : w \in Workers \ dead}

ClaimableIgnoringLocks ==        \* mutant: FOR UPDATE SKIP LOCKED lost
  {r \in Rows : tx[r] = "committed" /\ r \notin published}
ClaimableUncommitted ==          \* mutant: the row is visible before commit
  {r \in Rows : /\ tx[r] \in {"open", "committed"}
                /\ r \notin published
                /\ SkipLocked => r \notin Locked}

\* WHERE published = false [FOR UPDATE SKIP LOCKED], read committed.
Claimable ==
  {r \in Rows : /\ tx[r] = "committed"
                /\ r \notin published
                /\ SkipLocked => r \notin Locked}

\* ORDER BY id LIMIT batchSize
OldestOf(S) ==
  {r \in S : Cardinality({q \in S : q < r}) < BatchSize}

\* The transaction of the poll begins with the select; with nothing to
\* select poll() returns without a change.
Select(w) ==
  /\ pc[w] = "idle"
  /\ Claimable # {}
  /\ batch' = [batch EXCEPT ![w] = OldestOf(Claimable)]
  /\ pc' = [pc EXCEPT ![w] = "send"]
  /\ UNCHANGED <<dbVars, row, done, rep, metricVars, kafkaVars, histVars>>

\* kafka.send of the next row of the batch, in id order.
StartSend(w) ==
  /\ pc[w] = "send"
  /\ \E r \in (batch[w] \ done[w]) \ Rejected :
       /\ \A q \in batch[w] \ done[w] : r <= q
       /\ row' = [row EXCEPT ![w] = r]
  /\ pc' = [pc EXCEPT ![w] = "pending"]
  /\ UNCHANGED <<dbVars, batch, done, rep, metricVars, kafkaVars, histVars>>

SendRefusedRetrying(w) ==        \* mutant: the row is tried again instead of
  /\ pc[w] = "send"              \* ending the batch
  /\ \E r \in (batch[w] \ done[w]) \cap Rejected :
       \A q \in batch[w] \ done[w] : r <= q
  /\ UNCHANGED vars

\* The producer refuses the record (for instance as too large): the
\* exception ends the batch and nothing was sent.
SendRefused(w) ==
  /\ pc[w] = "send"
  /\ \E r \in (batch[w] \ done[w]) \cap Rejected :
       \A q \in batch[w] \ done[w] : r <= q
  /\ pc' = [pc EXCEPT ![w] = "finish"]
  /\ UNCHANGED <<dbVars, batch, row, done, rep, metricVars, kafkaVars, histVars>>

\* The broker appends the record; the producer is idempotent, so the
\* retries inside one send do not append it twice.
BrokerAppend(w) ==
  /\ pc[w] = "pending"
  /\ copies' = [copies EXCEPT ![row[w]] = @ + 1]
  /\ pc' = [pc EXCEPT ![w] = "appended"]
  /\ retries' = IF w \in dead THEN SentInVain({row[w]}) ELSE retries
  /\ UNCHANGED <<dbVars, batch, row, done, rep, metricVars, late, faults>>

SendAckCountingFirst(w) ==       \* mutant: counts every publish as a repeat
  /\ pc[w] = "appended"
  /\ done' = [done EXCEPT ![w] = @ \cup {row[w]}]
  /\ seen' = seen \cup {row[w]}
  /\ rep' = [rep EXCEPT ![w] = @ + 1]
  /\ pc' = [pc EXCEPT ![w] = IF batch[w] \ done[w] = {row[w]}
                             THEN "finish" ELSE "send"]
  /\ row' = [row EXCEPT ![w] = NoRow]
  /\ UNCHANGED <<dbVars, batch, republished, backlog, kafkaVars, histVars>>

\* get() returns: publishedIds += id, and seen.add tells whether this
\* process published the row before.
SendAck(w) ==
  /\ pc[w] = "appended"
  /\ done' = [done EXCEPT ![w] = @ \cup {row[w]}]
  /\ seen' = seen \cup {row[w]}
  /\ rep' = [rep EXCEPT ![w] = IF row[w] \in seen THEN @ + 1 ELSE @]
  /\ pc' = [pc EXCEPT ![w] = IF batch[w] \ done[w] = {row[w]}
                             THEN "finish" ELSE "send"]
  /\ row' = [row EXCEPT ![w] = NoRow]
  /\ UNCHANGED <<dbVars, batch, republished, backlog, kafkaVars, histVars>>

\* get(5 s) gives up, or the send fails with the record or its ack still on
\* the way: the batch ends here.  A record not yet appended stays in the
\* producer until delivery.timeout.ms.
SendTimeout(w) ==
  /\ Fault("timeout")
  /\ pc[w] \in {"pending", "appended"}
  /\ late' = [late EXCEPT ![row[w]] = IF pc[w] = "pending" THEN @ + 1 ELSE @]
  /\ retries' = SentInVain(Unaccounted(w) \ done[w])
  /\ pc' = [pc EXCEPT ![w] = "finish"]
  /\ row' = [row EXCEPT ![w] = NoRow]
  /\ UNCHANGED <<dbVars, batch, done, rep, metricVars, copies>>

\* What follows the loop in every case: the seen set is cleared when it is
\* too large, the republished rows are added to the metric, and the end of
\* the transaction unlocks the batch.
EndPoll(w) ==
  /\ pc[w] = "finish"
  /\ seen' = IF Cardinality(seen) > SeenLimit THEN {} ELSE seen
  /\ republished' = republished + rep[w]
  /\ rep' = [rep EXCEPT ![w] = 0]
  /\ batch' = [batch EXCEPT ![w] = {}]
  /\ done' = [done EXCEPT ![w] = {}]
  /\ pc' = [pc EXCEPT ![w] = "idle"]
  /\ dead' = dead \ {w}
  /\ UNCHANGED <<tx, row, backlog, kafkaVars>>

\* publishedIds.isEmpty(): nothing to flag.
FinishEmpty(w) ==
  /\ EndPoll(w)
  /\ done[w] = {}
  /\ UNCHANGED <<published, histVars>>

FlagWholeBatch(w) == batch[w]    \* mutant: rows.map instead of publishedIds

\* The ids of the batch update.
FlagRows(w) == done[w]

\* UPDATE ... SET published = true for publishedIds, then commit.
FinishUpdate(w) ==
  /\ EndPoll(w)
  /\ done[w] # {} /\ w \notin dead
  /\ published' = published \cup FlagRows(w)
  /\ UNCHANGED histVars

\* update-fail-rate: commit without the update.
FinishSkip(w) ==
  /\ Fault("skip")
  /\ EndPoll(w)
  /\ done[w] # {} /\ w \notin dead
  /\ retries' = SentInVain(done[w])
  /\ UNCHANGED published

\* The update or the commit fails: the transaction is rolled back and
\* pollSafely logs it.
FinishRollback(w) ==
  /\ Fault("rollback")
  /\ EndPoll(w)
  /\ done[w] # {} /\ w \notin dead
  /\ retries' = SentInVain(done[w])
  /\ UNCHANGED published

\* The update or the commit of a transaction that is gone throws.
FinishDead(w) ==
  /\ EndPoll(w)
  /\ done[w] # {} /\ w \in dead
  /\ UNCHANGED <<published, histVars>>

\* The database ends the session of a worker's transaction: the transaction
\* is rolled back and its rows are unlocked, while the loop goes on sending.
ConnectionDrops(w) ==
  /\ Fault("drop")
  /\ pc[w] # "idle" /\ w \notin dead
  /\ dead' = dead \cup {w}
  /\ retries' = SentInVain(IF pc[w] = "pending" THEN done[w] ELSE Unaccounted(w))
  /\ UNCHANGED <<tx, published, workerVars, metricVars, kafkaVars>>

-----------------------------------------------------------------------------
(* The producer and the broker after the caller has gone *)

LateAppend(r) ==
  /\ late[r] > 0
  /\ copies' = [copies EXCEPT ![r] = @ + 1]
  /\ late' = [late EXCEPT ![r] = @ - 1]
  /\ UNCHANGED <<dbVars, workerVars, metricVars, histVars>>

LateExpire(r) ==
  /\ late[r] > 0
  /\ late' = [late EXCEPT ![r] = @ - 1]
  /\ UNCHANGED <<dbVars, workerVars, metricVars, copies, histVars>>

-----------------------------------------------------------------------------
(* Gauges, and the death of the process *)

CountOpenToo ==                  \* mutant: count(*) sees what was flagged
  Cardinality({r \in Rows : tx[r] = "committed"})

CountUnpublished == Cardinality({r \in Rows : tx[r] = "committed"
                                               /\ r \notin published})

\* refreshBacklog, every stats-interval-ms.
RefreshBacklog ==
  /\ backlog # CountUnpublished
  /\ backlog' = CountUnpublished
  /\ UNCHANGED <<dbVars, workerVars, seen, republished, kafkaVars, histVars>>

\* The process dies and starts again: PostgreSQL rolls back every open
\* transaction, so batches are unlocked and nothing is flagged; what was
\* pending may still reach the broker; counters and seen start afresh.
Crash ==
  /\ Fault("crash")
  /\ tx' = [r \in Rows |-> IF tx[r] = "open" THEN "aborted" ELSE tx[r]]
  /\ late' = [r \in Rows |-> late[r] +
                Cardinality({w \in Workers : pc[w] = "pending" /\ row[w] = r})]
  /\ retries' = [r \in Rows |-> retries[r] +
                   Cardinality({w \in Workers : r \in Unaccounted(w)})]
  /\ pc' = [w \in Workers |-> "idle"]
  /\ batch' = [w \in Workers |-> {}]
  /\ row' = [w \in Workers |-> NoRow]
  /\ done' = [w \in Workers |-> {}]
  /\ rep' = [w \in Workers |-> 0]
  /\ seen' = {}
  /\ republished' = 0
  /\ backlog' = 0
  /\ dead' = {}
  /\ UNCHANGED <<published, copies>>

-----------------------------------------------------------------------------

Finish(w) ==
  \/ FinishEmpty(w)
  \/ FinishUpdate(w)
  \/ FinishSkip(w)
  \/ FinishRollback(w)
  \/ FinishDead(w)

\* The steps of a worker thread itself.
WorkerStep(w) ==
  \/ Select(w)
  \/ StartSend(w)
  \/ SendRefused(w)
  \/ SendAck(w)
  \/ SendTimeout(w)
  \/ Finish(w)

Next ==
  \/ \E r \in Rows : DecideInsert(r) \/ DecideEnd(r) \/ LateAppend(r) \/ LateExpire(r)
  \/ \E w \in Workers : WorkerStep(w) \/ BrokerAppend(w) \/ ConnectionDrops(w)
  \/ RefreshBacklog
  \/ Crash

Spec == Init /\ [][Next]_vars

(***************************************************************************)
(* scheduleWithFixedDelay runs every worker again and again (pollSafely    *)
(* lets no exception out), the broker eventually answers a send the caller *)
(* still waits for, and the stats timer fires.  Nobody is obliged to call  *)
(* decide or to fail.                                                      *)
(***************************************************************************)
FairSpec ==
  /\ Spec
  /\ \A w \in Workers : WF_vars(WorkerStep(w)) /\ WF_vars(BrokerAppend(w))
  /\ WF_vars(RefreshBacklog)
-----------------------------------------------------------------------------
(* Safety *)

(***************************************************************************)
(* No loss: a row whose published flag is true is in the topic, whatever   *)
(* timed out, was rolled back or crashed on the way (OutboxWorker.kt:164). *)
(***************************************************************************)
PublishedWasDelivered == \A r \in published : copies[r] >= 1

(***************************************************************************)
(* No ghosts: a record exists, or is still on its way, only for a row      *)
(* whose transaction committed.  This is why decide does not send to Kafka *)
(* itself (DecisionService.kt:101-105, "published but rolled back").       *)
(***************************************************************************)
OnlyCommittedDelivered ==
  \A r \in Rows : copies[r] + late[r] > 0 => tx[r] = "committed"

(***************************************************************************)
(* With SKIP LOCKED every worker takes a batch of its own                  *)
(* (OutboxWorker.kt:45-46), as long as its transaction lives.              *)
(***************************************************************************)
BatchesDisjoint ==
  SkipLocked => \A v, w \in Workers \ dead : v # w => batch[v] \cap batch[w] = {}

(***************************************************************************)
(* Every record beyond a row's first one is explained by one send that     *)
(* timed out, was not flagged, was rolled back, ran on after its           *)
(* transaction was gone, or died with the process: competing workers alone *)
(* never add a copy (OutboxWorker.kt:43-48).                               *)
(***************************************************************************)
DuplicatesAccounted == SkipLocked => \A r \in Rows : copies[r] <= 1 + retries[r]

(***************************************************************************)
(* No row is in the topic twice.  This is what setting update-fail-rate to *)
(* 0 is said to give (Properties.kt:17).  It holds when nothing fails; one *)
(* send that times out while the producer keeps its record breaks it.      *)
(***************************************************************************)
NoDuplicates == \A r \in Rows : copies[r] <= 1

Duplicates ==
  SumFunction([r \in Rows |-> IF copies[r] > 1 THEN copies[r] - 1 ELSE 0])

(***************************************************************************)
(* The republished counter never claims a duplicate the topic does not     *)
(* hold, with the counts the workers have not yet added to it included     *)
(* (OutboxWorker.kt:135, 147-149).                                         *)
(***************************************************************************)
RepublishedNeverOvercounts ==
  republished + SumFunctionOnSet(rep, Workers) <= Duplicates

(***************************************************************************)
(* A worker never starts to send a row that is already flagged: the rows   *)
(* of a batch stay locked from the select to the end of the transaction    *)
(* (OutboxWorker.kt:44-46), however long the sends before it take.  Only a *)
(* worker whose transaction is gone without its knowing may do so.         *)
(***************************************************************************)
NoResendAfterFlag ==
  [][SkipLocked => \A w \in Workers \ dead :
        pc[w] = "send" /\ pc'[w] = "pending" => row'[w] \notin published]_vars

(***************************************************************************)
(* The outbox is an at-least-once hand-over (OutboxWorker.kt:39-41): a row *)
(* is accepted when decide commits and confirmed when it is flagged.       *)
(***************************************************************************)
ALO == INSTANCE AtLeastOnce WITH
  Msg <- Rows,
  accepted <- {r \in Rows : tx[r] = "committed"},
  copies <- copies,
  confirmed <- published

Contract == ALO!ALOSpec

-----------------------------------------------------------------------------
(* The inductive invariant behind the safety properties *)

\* A worker's local variables agree with its place in poll().
WorkerInv ==
  \A w \in Workers :
    /\ done[w] \subseteq batch[w]
    /\ pc[w] = "idle" => batch[w] = {}
    /\ pc[w] \in {"pending", "appended"} => row[w] \in batch[w] \ done[w]
    /\ pc[w] \notin {"pending", "appended"} => row[w] = NoRow
    /\ pc[w] = "idle" => w \notin dead

\* Only committed rows are ever selected or sent, and whatever a worker will
\* flag is already in the topic.
DeliveryInv ==
  /\ \A w \in Workers : \A r \in batch[w] : tx[r] = "committed"
  /\ \A w \in Workers : \A r \in done[w] : copies[r] >= 1
  /\ \A w \in Workers : pc[w] = "appended" => copies[row[w]] >= 1
  /\ PublishedWasDelivered
  /\ OnlyCommittedDelivered

\* A locked row has one holder and its flag is still down.
LockInv ==
  SkipLocked =>
    /\ BatchesDisjoint
    /\ \A w \in Workers \ dead : batch[w] \cap published = {}

\* r is in the topic and its send is not, or not yet, in vain.
Sent(r) ==
  \/ r \in published
  \/ \E w \in Workers \ dead : r \in done[w] \/ (pc[w] = "appended" /\ row[w] = r)

\* The copies in the topic or on their way, against the sends in vain.
AccountInv ==
  SkipLocked => \A r \in Rows :
    copies[r] + late[r] <= retries[r] + (IF Sent(r) THEN 1 ELSE 0)

\* The sends of r that are appended and not acknowledged; the other copies of
\* r; and of these the ones an acknowledgement can have found a repeat.
Unanswered(r) == Cardinality({w \in Workers : pc[w] = "appended" /\ row[w] = r})
Answered(r) == copies[r] - Unanswered(r)
Repeats == [r \in Rows |-> IF Answered(r) > 1 THEN Answered(r) - 1 ELSE 0]

(***************************************************************************)
(* Why the counter never claims too much: an id is in seen only when a     *)
(* copy of it beside the unanswered ones is in the topic, and every copy   *)
(* is acknowledged once at most (OutboxWorker.kt:135).                     *)
(***************************************************************************)
CounterInv ==
  /\ \A r \in Rows : Answered(r) >= 0
  /\ \A r \in seen : Answered(r) >= 1
  /\ republished + SumFunctionOnSet(rep, Workers) <= SumFunction(Repeats)

(***************************************************************************)
(* What the proofs in OutboxProofs are about: every state satisfies these  *)
(* four, and every step of the workers, the broker and decide keeps them   *)
(* (OutboxWorker.kt:125-168).                                              *)
(***************************************************************************)
IndInv == WorkerInv /\ DeliveryInv /\ LockInv /\ AccountInv

-----------------------------------------------------------------------------
(* Liveness, under FairSpec *)

(***************************************************************************)
(* Every committed row with no refused row before it is flagged in the     *)
(* end: ORDER BY id and the break at the first failure let no younger row  *)
(* starve it (OutboxWorker.kt:71, 139).  A refused row does hold up the    *)
(* rows behind it for ever when there is one worker.                       *)
(***************************************************************************)
EventuallyPublished ==
  \A r \in Rows : (\A q \in Rejected : r < q) =>
      (tx[r] = "committed" ~> r \in published)

(***************************************************************************)
(* The backlog gauge goes back by itself after every outage (README.md:1651)*)
(* and stays there: in the end it counts only refused rows and what queues *)
(* behind them, and nothing when no row is refused.                        *)
(***************************************************************************)
HeldUp == {r \in Rows : \E q \in Rejected : q <= r}
BacklogDrains == <>[](backlog <= Cardinality(HeldUp))
=============================================================================
