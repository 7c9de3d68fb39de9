---------------------------- MODULE OutboxProofs ----------------------------
(***************************************************************************)
(* Theorems about Outbox for every number of rows and workers, every batch *)
(* size, every set of faults and both settings of SKIP LOCKED; at the end, *)
(* about Decision for every set of campaigns and requests.                 *)
(*                                                                         *)
(* The invariants are proved in layers, each using the ones before it:     *)
(* TypeOK, WorkerInv, DeliveryInv, LockInv, AccountInv; CounterInv uses    *)
(* the first two.                                                          *)
(***************************************************************************)
EXTENDS Decision, SumTheorems

LEMMA RowsFacts ==
  /\ Rows \subseteq Nat
  /\ NoRow \notin Rows
  /\ \A S \in SUBSET Rows : Cardinality(S) \in Nat
<1>1. Rows \subseteq Nat /\ NoRow \notin Rows
  BY OutboxAssumption DEF Rows, NoRow
<1>2. IsFiniteSet(Rows)
  BY OutboxAssumption, FS_Interval DEF Rows
<1>3. QED
  BY <1>1, <1>2, FS_Subset, FS_CardinalityType

LEMMA WorkersFacts == \A S \in SUBSET Workers : Cardinality(S) \in Nat
BY OutboxAssumption, FS_Subset, FS_CardinalityType

\* The number of unpublished rows is a number.
LEMMA CountIsNat == CountUnpublished \in Nat
BY RowsFacts DEF CountUnpublished

\* Adding one at an index keeps a function into the naturals.
LEMMA IncrementType ==
  ASSUME NEW S, NEW f \in [S -> Nat], NEW x \in S
  PROVE  [f EXCEPT ![x] = @ + 1] \in [S -> Nat]
OBVIOUS

-----------------------------------------------------------------------------
(* Types and the workers' local variables *)

LEMMA InitType == Init => TypeOK /\ WorkerInv
BY DEF Init, TypeOK, WorkerInv, Rows, NoRow

\* What ends a poll leaves well-typed variables behind, whatever is flagged.
LEMMA EndPollType ==
  ASSUME TypeOK, NEW w \in Workers, EndPoll(w)
  PROVE  /\ seen' \in SUBSET Rows /\ republished' \in Nat
         /\ rep' \in [Workers -> Nat]
         /\ batch' \in [Workers -> SUBSET Rows]
         /\ done' \in [Workers -> SUBSET Rows]
         /\ pc' \in [Workers -> {"idle", "send", "pending", "appended", "finish"}]
         /\ tx' = tx /\ row' = row /\ backlog' = backlog
         /\ dead' \in SUBSET Workers
         /\ copies' = copies /\ late' = late
         /\ done[w] \in SUBSET Rows
BY DEF TypeOK, EndPoll, kafkaVars

LEMMA SentInVainType ==
  ASSUME TypeOK, NEW S PROVE SentInVain(S) \in [Rows -> Nat]
BY DEF TypeOK, SentInVain

LEMMA FinishType ==
  ASSUME TypeOK, NEW w \in Workers, Finish(w) PROVE TypeOK'
<1> USE EndPollType, SentInVainType DEF TypeOK, Fault, histVars
<1>1. CASE FinishEmpty(w)
  BY <1>1 DEF FinishEmpty
<1>2. CASE FinishUpdate(w)
  BY <1>2 DEF FinishUpdate, FlagRows
<1>3. CASE FinishSkip(w)
  BY <1>3 DEF FinishSkip
<1>4. CASE FinishRollback(w)
  BY <1>4 DEF FinishRollback
<1>5. CASE FinishDead(w)
  BY <1>5 DEF FinishDead
<1>6. QED
  BY <1>1, <1>2, <1>3, <1>4, <1>5 DEF Finish

LEMMA NextType == TypeOK /\ WorkerInv /\ [Next]_vars => TypeOK'
<1> SUFFICES ASSUME TypeOK, WorkerInv, [Next]_vars PROVE TypeOK'
  OBVIOUS
<1> USE RowsFacts DEF TypeOK, dbVars, workerVars, metricVars, kafkaVars, histVars
<1>1. ASSUME NEW r \in Rows, DecideInsert(r) PROVE TypeOK'
  BY <1>1 DEF DecideInsert
<1>2. ASSUME NEW r \in Rows, DecideEnd(r) PROVE TypeOK'
  BY <1>2 DEF DecideEnd
<1>3. ASSUME NEW w \in Workers, Select(w) PROVE TypeOK'
  BY <1>3 DEF Select, OldestOf, Claimable
<1>4. ASSUME NEW w \in Workers, StartSend(w) PROVE TypeOK'
  BY <1>4 DEF StartSend
<1>5. ASSUME NEW w \in Workers, SendRefused(w) PROVE TypeOK'
  BY <1>5 DEF SendRefused
<1>6. ASSUME NEW w \in Workers, BrokerAppend(w) PROVE TypeOK'
  <2>1. row[w] \in Rows
    BY <1>6 DEF BrokerAppend, WorkerInv
  <2>2. copies' \in [Rows -> Nat]
    <3>1. copies' = [copies EXCEPT ![row[w]] = @ + 1] /\ copies \in [Rows -> Nat]
      BY <1>6 DEF BrokerAppend
    <3>2. QED
      BY ONLY <2>1, <3>1, IncrementType
  <2>3. retries' \in [Rows -> Nat]
    BY <1>6, SentInVainType DEF BrokerAppend
  <2>4. QED
    BY <1>6, <2>2, <2>3 DEF BrokerAppend
<1>7. ASSUME NEW w \in Workers, SendAck(w) PROVE TypeOK'
  <2>1. row[w] \in Rows
    BY <1>7 DEF SendAck, WorkerInv
  <2>2. rep' \in [Workers -> Nat]
    BY <1>7, IncrementType DEF SendAck
  <2>3. done' \in [Workers -> SUBSET Rows] /\ seen' \in SUBSET Rows
    BY <1>7, <2>1 DEF SendAck
  <2>4. QED
    BY <1>7, <2>2, <2>3 DEF SendAck
<1>8. ASSUME NEW w \in Workers, SendTimeout(w) PROVE TypeOK'
  <2>1. row[w] \in Rows
    BY <1>8 DEF SendTimeout, WorkerInv
  <2>2. retries' \in [Rows -> Nat]
    BY <1>8, SentInVainType DEF SendTimeout
  <2>3. late' \in [Rows -> Nat]
    <3>1. late' = [late EXCEPT ![row[w]] = @ + 1] \/ late' = late
      BY <1>8, <2>1 DEF SendTimeout
    <3>2. late \in [Rows -> Nat]
      OBVIOUS
    <3>3. QED
      BY ONLY <2>1, <3>1, <3>2, IncrementType
  <2>4. /\ faults' \in Nat /\ row' \in [Workers -> Rows \cup {NoRow}]
        /\ pc' \in [Workers -> {"idle", "send", "pending", "appended", "finish"}]
        /\ UNCHANGED <<tx, published, dead, batch, done, rep, seen, republished, backlog, copies>>
    BY <1>8 DEF SendTimeout, Fault
  <2>5. QED
    BY <2>2, <2>3, <2>4
<1>9. ASSUME NEW w \in Workers, Finish(w) PROVE TypeOK'
  BY <1>9, FinishType
<1>10. ASSUME NEW r \in Rows, LateAppend(r) PROVE TypeOK'
  BY <1>10 DEF LateAppend
<1>11. ASSUME NEW r \in Rows, LateExpire(r) PROVE TypeOK'
  BY <1>11 DEF LateExpire
<1>12. CASE RefreshBacklog
  BY <1>12, CountIsNat DEF RefreshBacklog
<1>13. CASE Crash
  BY <1>13, WorkersFacts DEF Crash, Fault
<1>14. ASSUME NEW w \in Workers, ConnectionDrops(w) PROVE TypeOK'
  BY <1>14, SentInVainType DEF ConnectionDrops, Fault
<1>15. CASE UNCHANGED vars
  BY <1>15 DEF vars
<1>16. QED
  BY <1>1, <1>2, <1>3, <1>4, <1>5, <1>6, <1>7, <1>8, <1>9, <1>10, <1>11,
     <1>12, <1>13, <1>14, <1>15 DEF Next, WorkerStep

\* Steps that leave the workers' variables alone leave WorkerInv alone.
LEMMA NextWorkerInv == TypeOK /\ WorkerInv /\ [Next]_vars => WorkerInv'
<1> SUFFICES ASSUME TypeOK, WorkerInv, [Next]_vars PROVE WorkerInv'
  OBVIOUS
<1> USE RowsFacts DEF TypeOK, WorkerInv, dbVars
<1>1. ASSUME NEW w \in Workers, Select(w) PROVE WorkerInv'
  BY <1>1 DEF Select
<1>2. ASSUME NEW w \in Workers, StartSend(w) PROVE WorkerInv'
  BY <1>2 DEF StartSend
<1>3. ASSUME NEW w \in Workers, SendRefused(w) PROVE WorkerInv'
  BY <1>3 DEF SendRefused
<1>4. ASSUME NEW w \in Workers, BrokerAppend(w) PROVE WorkerInv'
  BY <1>4 DEF BrokerAppend
<1>5. ASSUME NEW w \in Workers, SendAck(w) PROVE WorkerInv'
  BY <1>5 DEF SendAck
<1>6. ASSUME NEW w \in Workers, SendTimeout(w) PROVE WorkerInv'
  BY <1>6 DEF SendTimeout
<1>7. ASSUME NEW w \in Workers, Finish(w) PROVE WorkerInv'
  <2>1. EndPoll(w)
    BY <1>7 DEF Finish, FinishEmpty, FinishUpdate, FinishSkip, FinishRollback, FinishDead
  <2>2. QED
    BY <2>1 DEF EndPoll
<1>8. CASE Crash
  BY <1>8 DEF Crash
<1>9. ASSUME NEW w \in Workers, ConnectionDrops(w) PROVE WorkerInv'
  BY <1>9 DEF ConnectionDrops, workerVars
<1>10. CASE UNCHANGED <<workerVars, dead>>
  BY <1>10 DEF workerVars
<1>11. QED
  BY <1>1, <1>2, <1>3, <1>4, <1>5, <1>6, <1>7, <1>8, <1>9, <1>10
  DEF Next, WorkerStep, DecideInsert, DecideEnd, LateAppend, LateExpire,
      RefreshBacklog, vars, dbVars

\* Every variable keeps its type through every step of decide, of the
\* workers and of the broker (OutboxWorker.kt:125-168).
THEOREM TypeCorrect == Spec => []TypeOK
<1>1. TypeOK /\ WorkerInv /\ [Next]_vars => (TypeOK /\ WorkerInv)'
  BY NextType, NextWorkerInv
<1>2. QED
  BY InitType, <1>1, PTL DEF Spec

\* A worker's local variables agree with its place in poll().
THEOREM WorkerCorrect == Spec => []WorkerInv
<1>1. TypeOK /\ WorkerInv /\ [Next]_vars => (TypeOK /\ WorkerInv)'
  BY NextType, NextWorkerInv
<1>2. QED
  BY InitType, <1>1, PTL DEF Spec

-----------------------------------------------------------------------------
(* Nothing but committed rows is delivered, and only delivered rows flagged *)

LEMMA InitDelivery == Init => DeliveryInv
BY DEF Init, DeliveryInv, PublishedWasDelivered, OnlyCommittedDelivered

\* A record is appended for a committed row.
LEMMA AppendDelivery ==
  ASSUME TypeOK, WorkerInv, DeliveryInv, NEW w \in Workers, BrokerAppend(w)
  PROVE  DeliveryInv'
<1>1. row[w] \in Rows /\ row[w] \in batch[w] /\ tx[row[w]] = "committed"
  BY DEF BrokerAppend, WorkerInv, DeliveryInv, TypeOK
<1>2. /\ UNCHANGED <<tx, published, batch, done, row, late>>
      /\ \A v \in Workers : pc'[v] = "appended" => v = w \/ pc[v] = "appended"
  BY DEF BrokerAppend, TypeOK, dbVars
<1>3. \A r \in Rows : /\ copies[r] \in Nat /\ copies'[r] \in Nat
                      /\ copies'[r] >= copies[r]
                      /\ r = row[w] => copies'[r] >= 1
                      /\ r # row[w] => copies'[r] = copies[r]
  BY <1>1 DEF BrokerAppend, TypeOK
<1>4. \A v \in Workers : (\A r \in batch'[v] : tx'[r] = "committed")
  BY <1>2 DEF DeliveryInv
<1>5. ASSUME NEW v \in Workers, NEW r \in done'[v] PROVE copies'[r] >= 1
  <2>1. r \in Rows /\ copies[r] >= 1
    BY <1>2, <1>5 DEF DeliveryInv, TypeOK
  <2>2. QED
    BY <1>3, <2>1
<1>6. ASSUME NEW v \in Workers, pc'[v] = "appended" PROVE copies'[row'[v]] >= 1
  <2>1. row'[v] = row[v] /\ (v # w => row[v] \in Rows /\ copies[row[v]] >= 1)
    BY <1>2, <1>6 DEF DeliveryInv, WorkerInv, TypeOK
  <2>2. QED
    BY <1>1, <1>3, <2>1
<1>7. ASSUME NEW r \in published' PROVE copies'[r] >= 1
  <2>1. r \in Rows /\ copies[r] >= 1
    BY <1>2, <1>7 DEF DeliveryInv, PublishedWasDelivered, TypeOK
  <2>2. QED
    BY <1>3, <2>1
<1>8. ASSUME NEW r \in Rows, copies'[r] + late'[r] > 0 PROVE tx'[r] = "committed"
  <2>1. r = row[w] \/ copies[r] + late[r] > 0
    BY <1>2, <1>3, <1>8
  <2>2. QED
    BY <1>1, <1>2, <2>1 DEF DeliveryInv, OnlyCommittedDelivered
<1>9. QED
  BY <1>4, <1>5, <1>6, <1>7, <1>8 DEF DeliveryInv, PublishedWasDelivered, OnlyCommittedDelivered

\* The end of a poll flags what the worker has sent, if anything.
LEMMA FinishDelivery ==
  ASSUME TypeOK, DeliveryInv, NEW w \in Workers, Finish(w)
  PROVE  DeliveryInv'
<1>1. /\ EndPoll(w)
      /\ published' = published \/ published' = published \cup done[w]
  BY DEF Finish, FinishEmpty, FinishUpdate, FinishSkip, FinishRollback, FinishDead, FlagRows
<1>2. /\ UNCHANGED <<tx, row, copies, late>>
      /\ \A v \in Workers : /\ batch'[v] \subseteq batch[v] /\ done'[v] \subseteq done[v]
                            /\ pc'[v] = "appended" => pc[v] = "appended"
  BY <1>1 DEF EndPoll, kafkaVars, TypeOK
<1>3. PublishedWasDelivered'
  BY <1>1, <1>2 DEF DeliveryInv, PublishedWasDelivered
<1>4. OnlyCommittedDelivered'
  BY <1>2 DEF DeliveryInv, OnlyCommittedDelivered
<1>5. /\ \A v \in Workers : (\A r \in batch'[v] : tx'[r] = "committed")
      /\ \A v \in Workers : (\A r \in done'[v] : copies'[r] >= 1)
      /\ \A v \in Workers : pc'[v] = "appended" => copies'[row'[v]] >= 1
  BY <1>2 DEF DeliveryInv
<1>6. QED
  BY <1>3, <1>4, <1>5 DEF DeliveryInv

\* A crash forgets the batches, and what was on its way may still arrive.
LEMMA CrashDelivery ==
  ASSUME TypeOK, WorkerInv, DeliveryInv, Crash
  PROVE  DeliveryInv'
<1>1. ASSUME NEW r \in Rows, late[r] = 0, late'[r] > 0
      PROVE  tx[r] = "committed"
  <2>1. {w \in Workers : pc[w] = "pending" /\ row[w] = r} # {}
    BY <1>1, FS_EmptySet DEF Crash
  <2>2. QED
    BY <2>1 DEF WorkerInv, DeliveryInv
<1>2. /\ \A r \in Rows : tx[r] = "committed" => tx'[r] = "committed"
      /\ UNCHANGED <<published, copies>>
      /\ \A w \in Workers : batch'[w] = {} /\ done'[w] = {} /\ pc'[w] = "idle"
  BY DEF Crash
<1>3. PublishedWasDelivered'
  BY <1>2 DEF DeliveryInv, PublishedWasDelivered
<1>4. ASSUME NEW r \in Rows
      PROVE  late[r] \in Nat /\ late'[r] \in Nat /\ copies[r] \in Nat
  <2> DEFINE n == Cardinality({w \in Workers : pc[w] = "pending" /\ row[w] = r})
  <2>1. n \in Nat
    BY WorkersFacts
  <2>2. late'[r] = late[r] + n
    BY DEF Crash
  <2>3. late[r] \in Nat /\ copies[r] \in Nat
    BY DEF TypeOK
  <2> HIDE DEF n
  <2>4. QED
    BY <2>1, <2>2, <2>3
<1>5. ASSUME NEW r \in Rows, copies'[r] + late'[r] > 0 PROVE tx'[r] = "committed"
  <2>1. copies[r] + late[r] > 0 \/ (late[r] = 0 /\ late'[r] > 0)
    BY <1>2, <1>4, <1>5
  <2>2. tx[r] = "committed"
    BY <1>1, <2>1 DEF DeliveryInv, OnlyCommittedDelivered
  <2>3. QED
    BY <1>2, <2>2
<1>6. QED
  BY <1>2, <1>3, <1>5 DEF DeliveryInv, OnlyCommittedDelivered

LEMMA NextDelivery ==
  TypeOK /\ WorkerInv /\ DeliveryInv /\ [Next]_vars => DeliveryInv'
<1> SUFFICES ASSUME TypeOK, WorkerInv, DeliveryInv, [Next]_vars PROVE DeliveryInv'
  OBVIOUS
<1> USE RowsFacts DEF TypeOK, WorkerInv, DeliveryInv, PublishedWasDelivered,
                      OnlyCommittedDelivered, dbVars, workerVars, kafkaVars
<1>1. ASSUME NEW r \in Rows, DecideInsert(r) PROVE DeliveryInv'
  BY <1>1 DEF DecideInsert
<1>2. ASSUME NEW r \in Rows, DecideEnd(r) PROVE DeliveryInv'
  BY <1>2 DEF DecideEnd
<1>3. ASSUME NEW w \in Workers, Select(w) PROVE DeliveryInv'
  BY <1>3 DEF Select, OldestOf, Claimable
<1>4. ASSUME NEW w \in Workers, StartSend(w) PROVE DeliveryInv'
  BY <1>4 DEF StartSend
<1>5. ASSUME NEW w \in Workers, SendRefused(w) PROVE DeliveryInv'
  BY <1>5 DEF SendRefused
<1>6. ASSUME NEW w \in Workers, BrokerAppend(w) PROVE DeliveryInv'
  BY <1>6, AppendDelivery
<1>7. ASSUME NEW w \in Workers, SendAck(w) PROVE DeliveryInv'
  BY <1>7 DEF SendAck
<1>8. ASSUME NEW w \in Workers, SendTimeout(w) PROVE DeliveryInv'
  <2>1. /\ row[w] \in Rows /\ tx[row[w]] = "committed"
        /\ \A r \in Rows : r # row[w] => late'[r] = late[r]
    BY <1>8 DEF SendTimeout
  <2>2. QED
    BY <1>8, <2>1 DEF SendTimeout
<1>9. ASSUME NEW w \in Workers, Finish(w) PROVE DeliveryInv'
  BY <1>9, FinishDelivery
<1>10. ASSUME NEW r \in Rows, LateAppend(r) PROVE DeliveryInv'
  <2>1. /\ tx[r] = "committed" /\ late'[r] = late[r] - 1
        /\ copies'[r] = copies[r] + 1
        /\ \A q \in Rows \ {r} : copies'[q] = copies[q] /\ late'[q] = late[q]
    BY <1>10 DEF LateAppend
  <2>2. QED
    BY <1>10, <2>1 DEF LateAppend
<1>11. ASSUME NEW r \in Rows, LateExpire(r) PROVE DeliveryInv'
  BY <1>11 DEF LateExpire
<1>12. CASE Crash
  BY <1>12, CrashDelivery
<1>13. ASSUME NEW w \in Workers, ConnectionDrops(w) PROVE DeliveryInv'
  BY <1>13 DEF ConnectionDrops
<1>14. CASE UNCHANGED <<dbVars, workerVars, kafkaVars>>
  BY <1>14
<1>15. QED
  BY <1>1, <1>2, <1>3, <1>4, <1>5, <1>6, <1>7, <1>8, <1>9, <1>10, <1>11,
     <1>12, <1>13, <1>14 DEF Next, WorkerStep, RefreshBacklog, vars

\* What is flagged or about to be is in the topic, and what is in the topic was
\* committed (OutboxWorker.kt:131-145).
THEOREM DeliveryCorrect == Spec => []DeliveryInv
<1>1. TypeOK /\ WorkerInv /\ DeliveryInv /\ [Next]_vars => DeliveryInv'
  BY NextDelivery
<1>2. QED
  BY InitDelivery, TypeCorrect, WorkerCorrect, <1>1, PTL DEF Spec

\* No loss: a flagged row is in the topic (OutboxWorker.kt:164).
THEOREM NoLoss == Spec => []PublishedWasDelivered
<1>1. DeliveryInv => PublishedWasDelivered
  BY DEF DeliveryInv
<1>2. QED
  BY <1>1, DeliveryCorrect, PTL

\* No ghosts: only rows whose decide transaction committed are ever sent
\* (DecisionService.kt:101-105).
THEOREM NoGhosts == Spec => []OnlyCommittedDelivered
<1>1. DeliveryInv => OnlyCommittedDelivered
  BY DEF DeliveryInv
<1>2. QED
  BY <1>1, DeliveryCorrect, PTL

-----------------------------------------------------------------------------
(* FOR UPDATE SKIP LOCKED *)

LEMMA InitLock == Init => LockInv
BY DEF Init, LockInv, BatchesDisjoint

LEMMA NextLock ==
  TypeOK /\ WorkerInv /\ LockInv /\ [Next]_vars => LockInv'
<1> SUFFICES ASSUME TypeOK, WorkerInv, LockInv, [Next]_vars, SkipLocked
             PROVE  LockInv'
  BY DEF LockInv
<1> USE DEF TypeOK, WorkerInv, LockInv, BatchesDisjoint
<1>1. ASSUME NEW w \in Workers, Select(w) PROVE LockInv'
  <2>1. published' = published /\ dead' = dead /\ batch'[w] = OldestOf(Claimable)
        /\ \A v \in Workers \ {w} : batch'[v] = batch[v]
    BY <1>1 DEF Select, dbVars
  <2>2. \A r \in OldestOf(Claimable) : r \notin published /\ r \notin Locked
    BY DEF OldestOf, Claimable
  <2>3. \A v \in Workers \ dead : OldestOf(Claimable) \cap batch[v] = {}
    BY <2>2 DEF Locked
  <2>4. \A u, v \in Workers \ dead' : u # v => batch'[u] \cap batch'[v] = {}
    BY <2>1, <2>3
  <2>5. \A v \in Workers \ dead' : batch'[v] \cap published' = {}
    BY <2>1, <2>2
  <2>6. QED
    BY ONLY <2>4, <2>5 DEF LockInv, BatchesDisjoint
<1>2. ASSUME NEW w \in Workers, Finish(w) PROVE LockInv'
  <2>1. /\ EndPoll(w)
        /\ published' = published \/ (w \notin dead /\ published' = published \cup done[w])
    BY <1>2 DEF Finish, FinishEmpty, FinishUpdate, FinishSkip, FinishRollback,
                FinishDead, FlagRows
  <2>2. /\ batch' = [batch EXCEPT ![w] = {}] /\ done[w] \subseteq batch[w]
        /\ dead' = dead \ {w}
    BY <2>1 DEF EndPoll
  <2>3. /\ batch'[w] = {}
        /\ \A v \in Workers \ {w} : batch'[v] = batch[v] /\ (v \in dead' <=> v \in dead)
    BY <2>2
  <2>4. \A u, v \in Workers \ dead' : u # v => batch'[u] \cap batch'[v] = {}
    BY <2>3
  <2>5. \A v \in Workers \ dead' : batch'[v] \cap published' = {}
    BY <2>1, <2>2, <2>3
  <2>6. QED
    BY ONLY <2>4, <2>5 DEF LockInv, BatchesDisjoint
<1>3. CASE Crash
  BY <1>3 DEF Crash
<1>4. CASE UNCHANGED <<published, batch>> /\ dead \subseteq dead'
  BY <1>4
<1>5. QED
  BY <1>1, <1>2, <1>3, <1>4
  DEF Next, WorkerStep, ConnectionDrops, DecideInsert, DecideEnd, StartSend, SendRefused,
      BrokerAppend, SendAck, SendTimeout, LateAppend, LateExpire,
      RefreshBacklog, vars, dbVars, workerVars

\* A row that is locked has one holder and is not flagged
\* (OutboxWorker.kt:44-46, FOR UPDATE SKIP LOCKED).
THEOREM LockCorrect == Spec => []LockInv
<1>1. TypeOK /\ WorkerInv /\ LockInv /\ [Next]_vars => LockInv'
  BY NextLock
<1>2. QED
  BY InitLock, TypeCorrect, WorkerCorrect, <1>1, PTL DEF Spec

\* With SKIP LOCKED no two workers hold the same row, unless the transaction
\* of one of them is gone (OutboxWorker.kt:45-46).
THEOREM DisjointBatches == Spec => []BatchesDisjoint
<1>1. LockInv => BatchesDisjoint
  BY DEF LockInv, BatchesDisjoint
<1>2. QED
  BY <1>1, LockCorrect, PTL

\* With SKIP LOCKED no worker whose transaction lives starts to send a row
\* that is already flagged (OutboxWorker.kt:44-46).
THEOREM NoResend == Spec => NoResendAfterFlag
<1> DEFINE A == SkipLocked => \A w \in Workers \ dead :
                  pc[w] = "send" /\ pc'[w] = "pending" => row'[w] \notin published
<1>1. TypeOK /\ WorkerInv /\ LockInv /\ [Next]_vars => [A]_vars
  <2> SUFFICES ASSUME TypeOK, WorkerInv, LockInv, [Next]_vars, SkipLocked,
                      NEW w \in Workers \ dead, pc[w] = "send", pc'[w] = "pending"
               PROVE  row'[w] \notin published
    OBVIOUS
  <2> USE DEF TypeOK
  <2>1. ASSUME NEW v \in Workers, StartSend(v) PROVE row'[w] \notin published
    <3>1. v = w
      BY <2>1 DEF StartSend
    <3>2. row'[w] \in batch[w]
      BY <2>1, <3>1 DEF StartSend
    <3>3. QED
      BY <3>2 DEF LockInv
  <2>2. \A v \in Workers : ~ (Select(v) \/ SendRefused(v) \/ SendAck(v)
                              \/ SendTimeout(v) \/ BrokerAppend(v) \/ EndPoll(v))
    BY DEF Select, SendRefused, SendAck, SendTimeout, BrokerAppend, EndPoll
  <2>3. pc' # pc /\ ~ Crash
    BY DEF Crash
  <2>4. QED
    BY <2>1, <2>2, <2>3
    DEF Next, WorkerStep, Finish, FinishEmpty, FinishUpdate, FinishSkip,
        FinishRollback, FinishDead, ConnectionDrops, DecideInsert, DecideEnd, LateAppend, LateExpire,
        RefreshBacklog, vars, workerVars
<1>2. QED
  BY <1>1, TypeCorrect, WorkerCorrect, LockCorrect, PTL DEF Spec, NoResendAfterFlag

-----------------------------------------------------------------------------
(* Every duplicate has its fault *)

\* Whether a locked row counts as sent depends on its holder alone.
LEMMA HolderDecides ==
  ASSUME WorkerInv, LockInv, SkipLocked, NEW w \in Workers \ dead, NEW r \in batch[w]
  PROVE  Sent(r) <=> r \in done[w] \/ (pc[w] = "appended" /\ row[w] = r)
<1>1. r \notin published
  BY DEF LockInv
<1>2. ASSUME NEW v \in Workers \ dead, r \in done[v] \/ (pc[v] = "appended" /\ row[v] = r)
      PROVE  v = w
  BY <1>2 DEF LockInv, BatchesDisjoint, WorkerInv
<1>3. QED
  BY <1>1, <1>2 DEF Sent

LEMMA InitAccount == Init => AccountInv
BY DEF Init, AccountInv

\* A crash: each send under way counts once, and so does each row a living
\* worker has sent and not flagged.
LEMMA CrashAccount ==
  ASSUME TypeOK, WorkerInv, LockInv, AccountInv, Crash, SkipLocked, NEW r \in Rows
  PROVE  (copies[r] + late[r] <= retries[r] + (IF Sent(r) THEN 1 ELSE 0))'
<1> DEFINE P == {w \in Workers : pc[w] = "pending" /\ row[w] = r}
           U == {w \in Workers : r \in Unaccounted(w)}
<1>1. /\ copies[r] \in Nat /\ late[r] \in Nat /\ retries[r] \in Nat
      /\ copies[r] + late[r] <= retries[r] + (IF Sent(r) THEN 1 ELSE 0)
  BY DEF TypeOK, AccountInv
<1>2. /\ UNCHANGED <<published, copies>> /\ late'[r] = late[r] + Cardinality(P)
      /\ retries'[r] = retries[r] + Cardinality(U)
  BY DEF Crash
<1>3. Sent(r)' <=> r \in published
  BY <1>2 DEF Crash, Sent
<1>4. P \subseteq U /\ IsFiniteSet(U)
  <2>1. U \subseteq Workers /\ P \subseteq U
    BY DEF Unaccounted
  <2>2. QED
    BY <2>1, OutboxAssumption, FS_Subset
<1>5. ASSUME NEW w \in Workers \ dead, r \in done[w] \/ (pc[w] = "appended" /\ row[w] = r)
      PROVE  w \in U \ P
  BY <1>5 DEF Unaccounted, WorkerInv
<1> HIDE DEF P, U
<1>6. Cardinality(P) \in Nat /\ Cardinality(U) \in Nat /\ Cardinality(P) <= Cardinality(U)
  BY <1>4, FS_Subset, FS_CardinalityType
<1>7. CASE Sent(r) /\ r \notin published
  <2>1. PICK w \in Workers \ dead : r \in done[w] \/ (pc[w] = "appended" /\ row[w] = r)
    BY <1>7 DEF Sent
  <2>2. w \in U \ P
    BY <1>5, <2>1
  <2>3. Cardinality(P) + 1 <= Cardinality(U)
    <3>1. P # U
      BY <2>2
    <3>2. Cardinality(P) < Cardinality(U)
      BY <1>4, <1>6, <3>1, FS_Subset
    <3>3. QED
      BY <1>6, <3>2
  <2>4. QED
    BY <1>1, <1>2, <1>3, <1>6, <1>7, <2>3
<1>8. CASE ~ Sent(r) \/ r \in published
  BY <1>1, <1>2, <1>3, <1>6, <1>8 DEF Sent
<1>9. QED
  BY <1>7, <1>8

LEMMA NextAccount ==
  TypeOK /\ WorkerInv /\ LockInv /\ AccountInv /\ [Next]_vars => AccountInv'
<1> SUFFICES ASSUME TypeOK, WorkerInv, LockInv, AccountInv, [Next]_vars,
                    SkipLocked, NEW r \in Rows
             PROVE  (copies[r] + late[r]
                       <= retries[r] + (IF Sent(r) THEN 1 ELSE 0))'
  BY DEF AccountInv
<1> DEFINE Goal == (copies[r] + late[r]
                      <= retries[r] + (IF Sent(r) THEN 1 ELSE 0))'
<1> HIDE DEF Goal
<1>1. /\ copies[r] \in Nat /\ late[r] \in Nat /\ retries[r] \in Nat
      /\ copies[r] + late[r] <= retries[r] + (IF Sent(r) THEN 1 ELSE 0)
  BY DEF TypeOK, AccountInv
<1>2. ASSUME NEW w \in Workers, Select(w) \/ StartSend(w) \/ SendRefused(w)
      PROVE  Goal
  <2>1. UNCHANGED <<published, dead, done, copies, late, retries>>
    BY <1>2 DEF Select, StartSend, SendRefused, dbVars, kafkaVars, histVars
  <2>2. \A v \in Workers : (pc'[v] = "appended" /\ row'[v] = r)
                             <=> (pc[v] = "appended" /\ row[v] = r)
    BY <1>2 DEF Select, StartSend, SendRefused, TypeOK
  <2>3. Sent(r)' <=> Sent(r)
    BY <2>1, <2>2 DEF Sent
  <2>4. QED
    BY <1>1, <2>1, <2>3 DEF Goal
<1>3. ASSUME NEW w \in Workers, BrokerAppend(w) PROVE Goal
  <2>1. /\ UNCHANGED <<published, dead, done, row, late>>
        /\ pc[w] = "pending" /\ pc' = [pc EXCEPT ![w] = "appended"]
        /\ copies' = [copies EXCEPT ![row[w]] = @ + 1]
        /\ retries' = IF w \in dead THEN SentInVain({row[w]}) ELSE retries
    BY <1>3 DEF BrokerAppend, dbVars
  <2>2. CASE row[w] = r /\ w \notin dead
    <3>1. r \in batch[w] \ done[w]
      BY <2>1, <2>2 DEF WorkerInv
    <3>2. ~ Sent(r)
      BY <2>1, <2>2, <3>1, HolderDecides
    <3>3. Sent(r)' /\ copies'[r] = copies[r] + 1 /\ retries'[r] = retries[r]
      BY <2>1, <2>2 DEF Sent, TypeOK
    <3>4. QED
      BY <1>1, <2>1, <3>2, <3>3 DEF Goal
  <2>3. CASE row[w] = r /\ w \in dead
    <3>1. Sent(r) => Sent(r)'
      BY <2>1, <2>3 DEF Sent, TypeOK
    <3>2. copies'[r] = copies[r] + 1 /\ retries'[r] = retries[r] + 1
      BY <2>1, <2>3 DEF SentInVain, TypeOK
    <3>3. QED
      BY <1>1, <2>1, <3>1, <3>2 DEF Goal
  <2>4. CASE row[w] # r
    <3>1. Sent(r)' <=> Sent(r)
      BY <2>1, <2>4 DEF Sent, TypeOK
    <3>2. copies'[r] = copies[r] /\ retries'[r] = retries[r]
      BY <2>1, <2>4 DEF SentInVain, TypeOK
    <3>3. QED
      BY <1>1, <2>1, <3>1, <3>2 DEF Goal
  <2>5. QED
    BY <2>2, <2>3, <2>4
<1>4. ASSUME NEW w \in Workers, SendAck(w) PROVE Goal
  <2>1. UNCHANGED <<published, dead, copies, late, retries>>
    BY <1>4 DEF SendAck, dbVars, kafkaVars, histVars
  <2>2. Sent(r) => Sent(r)'
    BY <1>4, <2>1 DEF SendAck, Sent, TypeOK
  <2>3. QED
    BY <1>1, <2>1, <2>2 DEF Goal, Sent
<1>5. ASSUME NEW w \in Workers, SendTimeout(w) PROVE Goal
  <2>1. /\ UNCHANGED <<published, dead, done, copies>>
        /\ pc[w] \in {"pending", "appended"}
        /\ pc' = [pc EXCEPT ![w] = "finish"] /\ row' = [row EXCEPT ![w] = NoRow]
        /\ late' = [late EXCEPT ![row[w]] = IF pc[w] = "pending" THEN @ + 1 ELSE @]
        /\ retries' = SentInVain(Unaccounted(w) \ done[w])
    BY <1>5 DEF SendTimeout, dbVars
  <2>2. row[w] \in batch[w] \ done[w]
    BY <2>1 DEF WorkerInv
  <2>3. CASE row[w] = r
    <3>1. late'[r] = IF pc[w] = "pending" THEN late[r] + 1 ELSE late[r]
      BY <2>1, <2>3 DEF TypeOK
    <3>2. CASE w \notin dead
      <4>1. Sent(r) <=> pc[w] = "appended"
        BY <2>2, <2>3, <3>2, HolderDecides
      <4>2. retries'[r] = retries[r] + 1
        BY <2>1, <2>2, <2>3, <3>2 DEF SentInVain, Unaccounted
      <4>3. QED
        BY <1>1, <2>1, <3>1, <4>1, <4>2 DEF Goal
    <3>3. CASE w \in dead
      <4>1. Sent(r) => Sent(r)'
        BY <2>1, <3>3 DEF Sent, TypeOK
      <4>2. retries'[r] = IF pc[w] = "pending" THEN retries[r] + 1 ELSE retries[r]
        BY <2>1, <2>2, <2>3, <3>3 DEF SentInVain, Unaccounted
      <4>3. QED
        BY <1>1, <2>1, <3>1, <4>1, <4>2 DEF Goal
    <3>4. QED
      BY <3>2, <3>3
  <2>4. CASE row[w] # r
    <3>1. late'[r] = late[r]
      BY <2>1, <2>4 DEF TypeOK
    <3>2. retries'[r] = retries[r]
      BY <2>1, <2>4 DEF SentInVain, Unaccounted
    <3>3. Sent(r)' <=> Sent(r)
      BY <2>1, <2>4, RowsFacts DEF Sent, TypeOK
    <3>4. QED
      BY <1>1, <2>1, <3>1, <3>2, <3>3 DEF Goal
  <2>5. QED
    BY <2>3, <2>4
<1>6. ASSUME NEW w \in Workers, Finish(w) PROVE Goal
  <2>1. /\ UNCHANGED <<row, copies, late>> /\ dead' = dead \ {w}
        /\ pc[w] = "finish" /\ pc' = [pc EXCEPT ![w] = "idle"]
        /\ done' = [done EXCEPT ![w] = {}]
    BY <1>6 DEF Finish, FinishEmpty, FinishUpdate, FinishSkip, FinishRollback,
                FinishDead, EndPoll, kafkaVars
  <2>2. \/ /\ retries' = retries /\ w \notin dead
           /\ published' = published \cup done[w]
        \/ /\ retries'[r] = IF r \in done[w] THEN retries[r] + 1 ELSE retries[r]
           /\ published' = published
        \/ /\ retries' = retries /\ published' = published
           /\ w \in dead \/ done[w] = {}
    BY <1>6 DEF Finish, FinishEmpty, FinishUpdate, FinishSkip, FinishRollback,
                FinishDead, FlagRows, SentInVain, histVars
  <2>3. Sent(r) => (w \notin dead /\ r \in done[w]) \/ Sent(r)'
    BY <2>1, <2>2 DEF Sent, TypeOK
  <2>4. w \notin dead /\ r \in done[w]
          => \/ retries'[r] = retries[r] + 1
             \/ retries'[r] = retries[r] /\ Sent(r)'
    BY <2>2 DEF Sent
  <2>5. retries'[r] \in Nat /\ retries'[r] >= retries[r]
    BY <1>1, <2>2
  <2>6. QED
    BY <1>1, <2>1, <2>3, <2>4, <2>5 DEF Goal
<1>7. ASSUME NEW q \in Rows, LateAppend(q) \/ LateExpire(q) PROVE Goal
  <2>1. UNCHANGED <<published, dead, pc, row, done, retries>>
    BY <1>7 DEF LateAppend, LateExpire, dbVars, workerVars, histVars
  <2>2. copies'[r] + late'[r] <= copies[r] + late[r]
    BY <1>1, <1>7 DEF LateAppend, LateExpire, TypeOK
  <2>3. copies'[r] \in Nat /\ late'[r] \in Int
    BY <1>1, <1>7 DEF LateAppend, LateExpire, TypeOK
  <2>4. QED
    BY <1>1, <2>1, <2>2, <2>3 DEF Goal, Sent
<1>8. CASE Crash
  BY <1>8, CrashAccount DEF Goal
<1>9. ASSUME NEW w \in Workers, ConnectionDrops(w) PROVE Goal
  <2>1. /\ UNCHANGED <<published, pc, row, done, copies, late>>
        /\ w \notin dead /\ dead' = dead \cup {w}
        /\ retries' = SentInVain(IF pc[w] = "pending" THEN done[w] ELSE Unaccounted(w))
    BY <1>9 DEF ConnectionDrops, workerVars, kafkaVars
  <2>2. retries'[r] = retries[r] \/ retries'[r] = retries[r] + 1
    BY <2>1 DEF SentInVain
  <2>3. ASSUME Sent(r), ~ Sent(r)' PROVE retries'[r] = retries[r] + 1
    <3>1. r \in done[w] \/ (pc[w] = "appended" /\ row[w] = r)
      BY <2>1, <2>3 DEF Sent
    <3>2. QED
      BY <2>1, <3>1 DEF SentInVain, Unaccounted
  <2>4. QED
    BY <1>1, <2>1, <2>2, <2>3 DEF Goal
<1>10. CASE UNCHANGED <<published, dead, pc, row, done, copies, late, retries>>
  BY <1>1, <1>10 DEF Goal, Sent
<1>11. QED
  BY <1>2, <1>3, <1>4, <1>5, <1>6, <1>7, <1>8, <1>9, <1>10
  DEF Goal, Next, WorkerStep, DecideInsert, DecideEnd, RefreshBacklog, vars,
      dbVars, workerVars, kafkaVars, histVars

\* The four invariants together (OutboxWorker.kt:125-168).
THEOREM IndInvCorrect == Spec => []IndInv
<1>1. TypeOK /\ WorkerInv /\ LockInv /\ AccountInv /\ [Next]_vars => AccountInv'
  BY NextAccount
<1>2. Spec => []AccountInv
  BY InitAccount, TypeCorrect, WorkerCorrect, LockCorrect, <1>1, PTL DEF Spec
<1>3. QED
  BY <1>2, WorkerCorrect, DeliveryCorrect, LockCorrect, PTL DEF IndInv

\* With SKIP LOCKED a row has at most one record more than it met faults:
\* competing workers alone never duplicate it (OutboxWorker.kt:43-48).
THEOREM EveryDuplicateHasItsFault == Spec => []DuplicatesAccounted
<1>1. TypeOK /\ IndInv => DuplicatesAccounted
  BY DEF TypeOK, IndInv, AccountInv, DuplicatesAccounted
<1>2. QED
  BY <1>1, TypeCorrect, IndInvCorrect, PTL

\* With SKIP LOCKED and no fault there is no duplicate, whatever the number
\* of workers (README.md:747-750, the experiment with three workers).
THEOREM NoFaultsNoDuplicates ==
  ASSUME SkipLocked, Faults = {} PROVE Spec => []NoDuplicates
<1> DEFINE Quiet == dead = {} /\ \A r \in Rows : retries[r] = 0
<1>1. Init => Quiet
  BY DEF Init
<1>2. Quiet /\ [Next]_vars => Quiet'
  <2> SUFFICES ASSUME Quiet, [Next]_vars PROVE retries' = retries /\ dead' = {}
    OBVIOUS
  <2>1. \A kind : ~ Fault(kind)
    BY DEF Fault
  <2>2. ASSUME NEW w \in Workers, Finish(w) PROVE retries' = retries /\ dead' = {}
    BY <2>1, <2>2 DEF Finish, FinishEmpty, FinishUpdate, FinishSkip, FinishRollback,
                      FinishDead, EndPoll, histVars
  <2>3. QED
    BY <2>1, <2>2
    DEF Next, WorkerStep, ConnectionDrops, DecideInsert, DecideEnd, Select, StartSend,
        SendRefused, SendAck, SendTimeout, BrokerAppend, LateAppend, LateExpire,
        RefreshBacklog, Crash, vars, dbVars, histVars
<1>3. TypeOK /\ Quiet /\ DuplicatesAccounted => NoDuplicates
  BY DEF TypeOK, DuplicatesAccounted, NoDuplicates
<1>4. QED
  BY <1>1, <1>2, <1>3, TypeCorrect, EveryDuplicateHasItsFault, PTL DEF Spec

-----------------------------------------------------------------------------
(* The republished counter *)

\* The workers in the middle of a send of r that was appended.
Unanswering(r) == {w \in Workers : pc[w] = "appended" /\ row[w] = r}

LEMMA AnsweredFacts ==
  ASSUME NEW r, copies[r] \in Int
  PROVE  /\ IsFiniteSet(Unanswering(r)) /\ Cardinality(Unanswering(r)) \in Nat
         /\ Answered(r) = copies[r] - Cardinality(Unanswering(r)) /\ Answered(r) \in Int
<1>1. Unanswering(r) \subseteq Workers /\ IsFiniteSet(Workers)
  BY OutboxAssumption DEF Unanswering
<1>2. IsFiniteSet(Unanswering(r)) /\ Cardinality(Unanswering(r)) \in Nat
  BY <1>1, FS_Subset, FS_CardinalityType
<1>3. QED
  BY <1>2 DEF Answered, Unanswered, Unanswering

\* The same in the next state.
LEMMA AnsweredNext ==
  ASSUME NEW r, copies'[r] \in Int
  PROVE  /\ IsFiniteSet(Unanswering(r)') /\ Cardinality(Unanswering(r)') \in Nat
         /\ Answered(r)' = copies'[r] - Cardinality(Unanswering(r)') /\ Answered(r)' \in Int
<1>1. Unanswering(r)' \subseteq Workers /\ IsFiniteSet(Workers)
  BY OutboxAssumption DEF Unanswering
<1>2. IsFiniteSet(Unanswering(r)') /\ Cardinality(Unanswering(r)') \in Nat
  BY <1>1, FS_Subset, FS_CardinalityType
<1>3. QED
  BY <1>2 DEF Answered, Unanswered, Unanswering

\* The send of worker w is appended: one more copy, one more unanswered.
LEMMA AppendAnswered ==
  ASSUME TypeOK, WorkerInv, NEW w \in Workers, BrokerAppend(w), NEW r \in Rows, TypeOK'
  PROVE  Answered(r)' = Answered(r)
<1>1. /\ pc[w] = "pending" /\ pc' = [pc EXCEPT ![w] = "appended"] /\ row' = row
      /\ copies' = [copies EXCEPT ![row[w]] = @ + 1] /\ row[w] \in Rows
  BY DEF BrokerAppend, WorkerInv, TypeOK
<1>2. copies[r] \in Int /\ copies'[r] \in Int
  BY DEF TypeOK
<1>3. CASE row[w] = r
  <2>1. Unanswering(r)' = Unanswering(r) \cup {w} /\ w \notin Unanswering(r)
    BY <1>1, <1>3 DEF Unanswering, TypeOK
  <2>2. Cardinality(Unanswering(r)') = Cardinality(Unanswering(r)) + 1
    BY <1>2, <2>1, AnsweredFacts, FS_AddElement
  <2>3. copies'[r] = copies[r] + 1
    BY <1>1, <1>3 DEF TypeOK
  <2>4. QED
    BY <1>2, <2>2, <2>3, AnsweredFacts, AnsweredNext
<1>4. CASE row[w] # r
  <2>1. Unanswering(r)' = Unanswering(r)
    BY <1>1, <1>4 DEF Unanswering, TypeOK
  <2>2. copies'[r] = copies[r]
    BY <1>1, <1>4 DEF TypeOK
  <2>3. QED
    BY <1>2, <2>1, <2>2, AnsweredFacts, AnsweredNext
<1>5. QED
  BY <1>3, <1>4

\* Worker w leaves an appended send behind: the copy is no longer unanswered.
LEMMA LeaveAnswered ==
  ASSUME TypeOK, TypeOK', NEW w \in Workers, NEW r \in Rows,
         UNCHANGED copies, pc[w] = "appended", row' = [row EXCEPT ![w] = NoRow],
         NEW p, p # "appended", pc' = [pc EXCEPT ![w] = p]
  PROVE  Answered(r)' = IF r = row[w] THEN Answered(r) + 1 ELSE Answered(r)
<1>1. copies[r] \in Int /\ copies'[r] = copies[r]
  BY DEF TypeOK
<1>2. CASE row[w] = r
  <2>1. w \in Unanswering(r) /\ Unanswering(r)' = Unanswering(r) \ {w}
    BY <1>2 DEF Unanswering, TypeOK
  <2>2. Cardinality(Unanswering(r)') = Cardinality(Unanswering(r)) - 1
    <3>1. IsFiniteSet(Unanswering(r))
      BY <1>1, AnsweredFacts
    <3> HIDE DEF Unanswering
    <3>2. QED
      BY ONLY <2>1, <3>1, FS_RemoveElement
  <2>3. QED
    BY <1>1, <1>2, <2>2, AnsweredFacts, AnsweredNext
<1>3. CASE row[w] # r
  <2>1. Unanswering(r)' = Unanswering(r)
    BY <1>3, RowsFacts DEF Unanswering, TypeOK
  <2>2. QED
    BY <1>1, <1>3, <2>1, AnsweredFacts, AnsweredNext
<1>4. QED
  BY <1>2, <1>3

\* No step takes an answered copy away.
LEMMA AnsweredGrows ==
  ASSUME TypeOK, TypeOK', WorkerInv, [Next]_vars, NEW r \in Rows
  PROVE  Answered(r) \in Int /\ Answered(r)' \in Int /\ Answered(r)' >= Answered(r)
<1> DEFINE Goal == Answered(r)' >= Answered(r)
<1>1. copies[r] \in Int /\ copies'[r] \in Int
  BY DEF TypeOK
<1>2. Answered(r) \in Int /\ Answered(r)' \in Int
  BY <1>1, AnsweredFacts, AnsweredNext
<1>3. ASSUME copies'[r] >= copies[r], Unanswering(r)' = Unanswering(r) PROVE Goal
  BY <1>1, <1>3, AnsweredFacts, AnsweredNext
<1>4. ASSUME NEW w \in Workers, Select(w) \/ StartSend(w) \/ SendRefused(w) PROVE Goal
  <2>1. /\ copies' = copies
        /\ \A v \in Workers : (pc'[v] = "appended" /\ row'[v] = r)
                                <=> (pc[v] = "appended" /\ row[v] = r)
    BY <1>4 DEF Select, StartSend, SendRefused, TypeOK, kafkaVars
  <2>2. Unanswering(r)' = Unanswering(r)
    BY <2>1 DEF Unanswering
  <2>3. QED
    BY <1>1, <1>3, <2>1, <2>2
<1>5. ASSUME NEW w \in Workers, BrokerAppend(w) PROVE Goal
  BY <1>2, <1>5, AppendAnswered
<1>6. ASSUME NEW w \in Workers, SendAck(w) PROVE Goal
  <2>1. PICK p \in {"finish", "send"} : pc' = [pc EXCEPT ![w] = p]
    BY <1>6 DEF SendAck
  <2>2. /\ copies' = copies /\ pc[w] = "appended" /\ row' = [row EXCEPT ![w] = NoRow]
        /\ p # "appended"
    BY <1>6, <2>1 DEF SendAck, kafkaVars
  <2>3. Answered(r)' = IF r = row[w] THEN Answered(r) + 1 ELSE Answered(r)
    BY <2>1, <2>2, LeaveAnswered
  <2>4. QED
    BY <1>2, <2>3
<1>7. ASSUME NEW w \in Workers, SendTimeout(w) PROVE Goal
  <2>1. /\ copies' = copies /\ pc[w] \in {"pending", "appended"}
        /\ row' = [row EXCEPT ![w] = NoRow] /\ pc' = [pc EXCEPT ![w] = "finish"]
    BY <1>7 DEF SendTimeout
  <2>2. CASE pc[w] = "appended"
    <3>1. Answered(r)' = IF r = row[w] THEN Answered(r) + 1 ELSE Answered(r)
      BY <2>1, <2>2, LeaveAnswered
    <3>2. QED
      BY <1>2, <3>1
  <2>3. CASE pc[w] # "appended"
    <3>1. Unanswering(r)' = Unanswering(r)
      BY <2>1, <2>3, RowsFacts DEF Unanswering, TypeOK
    <3>2. QED
      BY <1>1, <1>3, <2>1, <3>1
  <2>4. QED
    BY <2>2, <2>3
<1>8. ASSUME NEW w \in Workers, Finish(w) PROVE Goal
  <2>1. EndPoll(w)
    BY <1>8 DEF Finish, FinishEmpty, FinishUpdate, FinishSkip, FinishRollback, FinishDead
  <2>2. copies' = copies /\ row' = row /\ pc[w] = "finish" /\ pc' = [pc EXCEPT ![w] = "idle"]
    BY <2>1 DEF EndPoll, kafkaVars
  <2>3. Unanswering(r)' = Unanswering(r)
    BY <2>2 DEF Unanswering, TypeOK
  <2>4. QED
    BY <1>1, <1>3, <2>2, <2>3
<1>9. ASSUME NEW q \in Rows, LateAppend(q) \/ LateExpire(q) PROVE Goal
  <2>1. copies'[r] >= copies[r]
    BY <1>9 DEF LateAppend, LateExpire, TypeOK
  <2>2. Unanswering(r)' = Unanswering(r)
    BY <1>9 DEF LateAppend, LateExpire, Unanswering, workerVars
  <2>3. QED
    BY <1>3, <2>1, <2>2
<1>10. CASE Crash
  <2>1. copies' = copies /\ Unanswering(r)' = {}
    BY <1>10 DEF Crash, Unanswering
  <2>2. Cardinality(Unanswering(r)') = 0
    BY <2>1, FS_EmptySet
  <2>3. QED
    <3>1. Cardinality(Unanswering(r)) \in Nat /\ Answered(r) = copies[r] - Cardinality(Unanswering(r))
      BY <1>1, AnsweredFacts
    <3>2. Answered(r)' = copies'[r] - Cardinality(Unanswering(r)')
      BY <1>1, AnsweredNext
    <3>3. QED
      BY <1>1, <1>2, <2>1, <2>2, <3>1, <3>2
<1>11. CASE UNCHANGED <<copies, pc, row>>
  <2>1. copies' = copies /\ Unanswering(r)' = Unanswering(r)
    BY <1>11 DEF Unanswering
  <2>2. QED
    BY <1>1, <1>2, <1>3, <2>1
<1>12. Goal
  BY <1>4, <1>5, <1>6, <1>7, <1>8, <1>9, <1>10, <1>11
  DEF Next, WorkerStep, DecideInsert, DecideEnd, ConnectionDrops, RefreshBacklog, vars,
      workerVars, kafkaVars
<1>13. QED
  BY <1>2, <1>12

\* The budget of repeats, as a sum over the rows, before and after a step.
LEMMA RepeatsFacts ==
  ASSUME TypeOK
  PROVE  /\ IsFiniteSet(Rows) /\ IsFiniteSet(Workers)
         /\ \A r \in Rows : Repeats[r] \in Nat /\ Repeats[r] = IF Answered(r) > 1 THEN Answered(r) - 1 ELSE 0
         /\ SumFunction(Repeats) = SumFunctionOnSet(Repeats, Rows)
         /\ SumFunction(Repeats) \in Nat
         /\ SumFunctionOnSet(rep, Workers) \in Nat
<1>1. IsFiniteSet(Rows) /\ IsFiniteSet(Workers)
  BY OutboxAssumption, FS_Interval DEF Rows
<1>2. \A r \in Rows : Answered(r) \in Int
  BY AnsweredFacts DEF TypeOK
<1>3. \A r \in Rows : Repeats[r] \in Nat /\ Repeats[r] = IF Answered(r) > 1 THEN Answered(r) - 1 ELSE 0
  BY <1>2 DEF Repeats
<1>4. SumFunction(Repeats) = SumFunctionOnSet(Repeats, Rows)
  BY DEF SumFunction, Repeats
<1>5. SumFunctionOnSet(Repeats, Rows) \in Nat
  BY <1>1, <1>3, SumType
<1>6. \A w \in Workers : rep[w] \in Nat
  BY DEF TypeOK
<1>7. SumFunctionOnSet(rep, Workers) \in Nat
  BY <1>1, <1>6, SumType
<1>8. QED
  BY <1>1, <1>3, <1>4, <1>5, <1>7

LEMMA RepeatsNext ==
  ASSUME TypeOK'
  PROVE  /\ \A r \in Rows : Repeats'[r] \in Nat /\ Repeats'[r] = IF Answered(r)' > 1 THEN Answered(r)' - 1 ELSE 0
         /\ SumFunction(Repeats') = SumFunctionOnSet(Repeats', Rows)
         /\ SumFunction(Repeats') \in Nat
         /\ SumFunctionOnSet(rep', Workers) \in Nat
<1>1. IsFiniteSet(Rows) /\ IsFiniteSet(Workers)
  BY OutboxAssumption, FS_Interval DEF Rows
<1>2. \A r \in Rows : Answered(r)' \in Int
  BY AnsweredNext DEF TypeOK
<1>3. \A r \in Rows : Repeats'[r] \in Nat /\ Repeats'[r] = IF Answered(r)' > 1 THEN Answered(r)' - 1 ELSE 0
  BY <1>2 DEF Repeats
<1>4. SumFunction(Repeats') = SumFunctionOnSet(Repeats', Rows)
  BY DEF SumFunction, Repeats
<1>5. SumFunctionOnSet(Repeats', Rows) \in Nat
  BY <1>1, <1>3, SumType
<1>6. \A w \in Workers : rep'[w] \in Nat
  BY DEF TypeOK
<1>7. SumFunctionOnSet(rep', Workers) \in Nat
  BY <1>1, <1>6, SumType
<1>8. QED
  BY <1>3, <1>4, <1>5, <1>7

\* A step that adds nothing to the counts and no id to seen.
LEMMA CounterQuiet ==
  ASSUME TypeOK, TypeOK', WorkerInv, CounterInv, [Next]_vars, seen' \subseteq seen,
         republished' + SumFunctionOnSet(rep', Workers)
           <= republished + SumFunctionOnSet(rep, Workers)
  PROVE  CounterInv'
<1>1. \A r \in Rows : Answered(r) \in Int /\ Answered(r)' \in Int /\ Answered(r)' >= Answered(r)
  BY AnsweredGrows
<1>2. \A r \in Rows : Repeats[r] \in Int /\ Repeats'[r] \in Int /\ Repeats[r] <= Repeats'[r]
  BY <1>1, RepeatsFacts, RepeatsNext
<1>3. SumFunctionOnSet(Repeats, Rows) <= SumFunctionOnSet(Repeats', Rows)
  BY <1>2, RepeatsFacts, SumMonotone
<1>4. republished + SumFunctionOnSet(rep, Workers) <= SumFunction(Repeats)
  BY DEF CounterInv
<1>5. republished' + SumFunctionOnSet(rep', Workers) <= SumFunction(Repeats')
  <2>1. republished \in Nat /\ republished' \in Nat
    BY DEF TypeOK
  <2>2. QED
    BY <1>3, <1>4, <2>1, RepeatsFacts, RepeatsNext
<1>6. \A r \in Rows : Answered(r) >= 0
  BY DEF CounterInv
<1>7. \A r \in seen : Answered(r) >= 1 /\ r \in Rows
  BY DEF CounterInv, TypeOK
<1>8. \A r \in Rows : Answered(r)' >= 0
  BY <1>1, <1>6
<1>9. \A r \in seen' : Answered(r)' >= 1
  BY <1>1, <1>7
<1>10. QED
  BY <1>5, <1>8, <1>9 DEF CounterInv

\* An acknowledgement: what it adds to the count it adds to the budget.
LEMMA CounterAck ==
  ASSUME TypeOK, TypeOK', WorkerInv, CounterInv, [Next]_vars, NEW w \in Workers, SendAck(w)
  PROVE  CounterInv'
<1>1. PICK p \in {"finish", "send"} : pc' = [pc EXCEPT ![w] = p]
  BY DEF SendAck
<1>2. /\ copies' = copies /\ pc[w] = "appended" /\ row' = [row EXCEPT ![w] = NoRow]
      /\ p # "appended" /\ row[w] \in Rows
      /\ seen' = seen \cup {row[w]} /\ republished' = republished
      /\ rep' = [rep EXCEPT ![w] = IF row[w] \in seen THEN @ + 1 ELSE @]
  BY <1>1 DEF SendAck, kafkaVars, TypeOK, WorkerInv
<1>3. \A r \in Rows : Answered(r)' = IF r = row[w] THEN Answered(r) + 1 ELSE Answered(r)
  BY <1>1, <1>2, LeaveAnswered
<1>4. \A r \in Rows : Answered(r) \in Int /\ Answered(r) >= 0
  BY AnsweredGrows DEF CounterInv
<1>5. \A r \in seen : r \in Rows /\ Answered(r) >= 1
  BY DEF CounterInv, TypeOK
<1>6. \A r \in Rows : Repeats[r] \in Int /\ Repeats'[r] \in Int
  BY RepeatsFacts, RepeatsNext
<1>7. \A r \in Rows \ {row[w]} : Repeats'[r] = Repeats[r]
  BY <1>3, RepeatsFacts, RepeatsNext
<1>8. SumFunctionOnSet(Repeats', Rows)
        = SumFunctionOnSet(Repeats, Rows) - Repeats[row[w]] + Repeats'[row[w]]
  <2>1. PICK r \in Rows : r = row[w]
    BY <1>2
  <2>2. IsFiniteSet(Rows) /\ \A q \in Rows \ {r} : Repeats'[q] = Repeats[q]
    BY <1>7, <2>1, RepeatsFacts
  <2>3. SumFunctionOnSet(Repeats', Rows) = SumFunctionOnSet(Repeats, Rows) - Repeats[r] + Repeats'[r]
    BY <1>6, <2>2, SumChange, Z3
  <2>4. QED
    BY <2>1, <2>3
<1>9. Repeats'[row[w]] >= Repeats[row[w]] + IF row[w] \in seen THEN 1 ELSE 0
  BY <1>2, <1>3, <1>4, <1>5, RepeatsFacts, RepeatsNext
<1>10. SumFunctionOnSet(rep', Workers)
         = SumFunctionOnSet(rep, Workers) + IF row[w] \in seen THEN 1 ELSE 0
  <2>1. \A v \in Workers : rep[v] \in Int /\ rep'[v] \in Int
    BY DEF TypeOK
  <2>2. \A v \in Workers \ {w} : rep'[v] = rep[v]
    BY <1>2 DEF TypeOK
  <2>3. rep'[w] = rep[w] + IF row[w] \in seen THEN 1 ELSE 0
    BY <1>2, <2>1 DEF TypeOK
  <2>4. SumFunctionOnSet(rep', Workers) = SumFunctionOnSet(rep, Workers) - rep[w] + rep'[w]
    BY <2>1, <2>2, RepeatsFacts, SumChange
  <2>5. QED
    BY <2>1, <2>3, <2>4, RepeatsFacts
<1>11. republished' + SumFunctionOnSet(rep', Workers) <= SumFunction(Repeats')
  <2>1. republished + SumFunctionOnSet(rep, Workers) <= SumFunction(Repeats)
    BY DEF CounterInv
  <2>2. republished \in Nat
    BY DEF TypeOK
  <2>3. QED
    BY <1>2, <1>6, <1>8, <1>9, <1>10, <2>1, <2>2, RepeatsFacts, RepeatsNext
<1>12. \A r \in Rows : Answered(r)' >= 0
  BY <1>3, <1>4
<1>13. \A r \in seen' : Answered(r)' >= 1
  BY <1>2, <1>3, <1>4, <1>5
<1>14. QED
  BY <1>11, <1>12, <1>13 DEF CounterInv

LEMMA InitCounter == Init => CounterInv
<1> SUFFICES ASSUME Init PROVE CounterInv
  OBVIOUS
<1>1. TypeOK
  BY InitType
<1>2. \A r \in Rows : Unanswering(r) = {} /\ copies[r] = 0
  BY DEF Init, Unanswering
<1>3. \A r \in Rows : Answered(r) = 0
  BY <1>2, AnsweredFacts, FS_EmptySet
<1>4. SumFunctionOnSet(rep, Workers) = 0
  <2>1. \A w \in Workers : rep[w] = 0
    BY DEF Init
  <2>2. QED
    BY <1>1, <2>1, RepeatsFacts, SumOfZeros
<1>5. republished = 0 /\ seen = {}
  BY DEF Init
<1>6. QED
  BY <1>1, <1>3, <1>4, <1>5, RepeatsFacts DEF CounterInv

LEMMA NextCounter ==
  TypeOK /\ TypeOK' /\ WorkerInv /\ CounterInv /\ [Next]_vars => CounterInv'
<1> SUFFICES ASSUME TypeOK, TypeOK', WorkerInv, CounterInv, [Next]_vars PROVE CounterInv'
  OBVIOUS
<1>1. ASSUME NEW w \in Workers, SendAck(w) PROVE CounterInv'
  BY <1>1, CounterAck
<1>2. ASSUME NEW w \in Workers, Finish(w) PROVE CounterInv'
  <2>1. EndPoll(w)
    BY <1>2 DEF Finish, FinishEmpty, FinishUpdate, FinishSkip, FinishRollback, FinishDead
  <2>2. /\ seen' \subseteq seen /\ republished' = republished + rep[w]
        /\ rep' = [rep EXCEPT ![w] = 0]
    BY <2>1 DEF EndPoll
  <2>3. \A v \in Workers : rep[v] \in Int /\ rep'[v] \in Int
    BY DEF TypeOK
  <2>4. rep'[w] = 0 /\ \A v \in Workers \ {w} : rep'[v] = rep[v]
    BY <2>2 DEF TypeOK
  <2>5. SumFunctionOnSet(rep', Workers) = SumFunctionOnSet(rep, Workers) - rep[w] + rep'[w]
    <3>1. IsFiniteSet(Workers)
      BY RepeatsFacts
    <3>2. QED
      BY <2>3, <2>4, <3>1, SumChange, Z3
  <2>6. republished \in Nat
    BY DEF TypeOK
  <2>7. republished' + SumFunctionOnSet(rep', Workers) <= republished + SumFunctionOnSet(rep, Workers)
    BY <2>2, <2>3, <2>4, <2>5, <2>6, RepeatsFacts
  <2>8. QED
    BY <2>2, <2>7, CounterQuiet
<1>3. CASE Crash
  <2>1. seen' = {} /\ republished' = 0 /\ \A w \in Workers : rep'[w] = 0
    BY <1>3 DEF Crash
  <2>2. SumFunctionOnSet(rep', Workers) = 0
    BY <2>1, RepeatsFacts, SumOfZeros
  <2>3. republished \in Nat
    BY DEF TypeOK
  <2>4. republished' + SumFunctionOnSet(rep', Workers) <= republished + SumFunctionOnSet(rep, Workers)
    BY <2>1, <2>2, <2>3, RepeatsFacts
  <2>5. QED
    BY <2>1, <2>4, CounterQuiet
<1>4. CASE UNCHANGED <<seen, republished, rep>>
  <2>1. republished \in Nat
    BY DEF TypeOK
  <2>2. republished' + SumFunctionOnSet(rep', Workers) <= republished + SumFunctionOnSet(rep, Workers)
    BY <1>4, <2>1, RepeatsFacts
  <2>3. QED
    BY <1>4, <2>2, CounterQuiet
<1>5. QED
  BY <1>1, <1>2, <1>3, <1>4
  DEF Next, WorkerStep, Select, StartSend, SendRefused, BrokerAppend, SendTimeout,
      ConnectionDrops, DecideInsert, DecideEnd, LateAppend, LateExpire, RefreshBacklog, vars,
      workerVars, metricVars

\* The republished counter and the counts still in the workers never claim
\* more duplicates than the topic holds, whatever fails, dies or is cleared
\* (OutboxWorker.kt:135, 147-149).
THEOREM CounterNeverOvercounts == Spec => []RepublishedNeverOvercounts
<1>1. TypeOK /\ TypeOK' /\ WorkerInv /\ CounterInv /\ [Next]_vars => CounterInv'
  BY NextCounter
<1>2. Spec => []CounterInv
  BY InitCounter, TypeCorrect, WorkerCorrect, <1>1, PTL DEF Spec
<1>3. TypeOK /\ CounterInv => RepublishedNeverOvercounts
  <2> SUFFICES ASSUME TypeOK, CounterInv PROVE RepublishedNeverOvercounts
    OBVIOUS
  <2> DEFINE Extra == [r \in Rows |-> IF copies[r] > 1 THEN copies[r] - 1 ELSE 0]
  <2>1. \A r \in Rows : copies[r] \in Nat /\ Extra[r] \in Int
    BY DEF TypeOK
  <2>2. \A r \in Rows : Answered(r) \in Int /\ Answered(r) <= copies[r]
    BY <2>1, AnsweredFacts
  <2>3. \A r \in Rows : Repeats[r] \in Int /\ Extra[r] \in Int /\ Repeats[r] <= Extra[r]
    BY <2>1, <2>2, RepeatsFacts
  <2>4. Duplicates = SumFunctionOnSet(Extra, Rows)
    BY DEF Duplicates, SumFunction
  <2> HIDE DEF Extra
  <2>5. SumFunctionOnSet(Repeats, Rows) <= SumFunctionOnSet(Extra, Rows)
    BY <2>3, RepeatsFacts, SumMonotone
  <2>6. SumFunctionOnSet(Extra, Rows) \in Int
    BY <2>3, RepeatsFacts, SumType
  <2>7. republished \in Nat /\ republished + SumFunctionOnSet(rep, Workers) <= SumFunction(Repeats)
    BY DEF CounterInv, TypeOK
  <2>8. QED
    BY <2>4, <2>5, <2>6, <2>7, RepeatsFacts DEF RepublishedNeverOvercounts
<1>4. QED
  BY <1>2, <1>3, TypeCorrect, PTL

-----------------------------------------------------------------------------
(* The outbox implements the at-least-once hand-over *)

LEMMA InitContract == Init => ALO!ALOInit
BY DEF Init, ALO!ALOInit

LEMMA NextContract ==
  TypeOK /\ WorkerInv /\ DeliveryInv /\ [Next]_vars
    => [ALO!ALONext]_(ALO!aloVars)
<1> SUFFICES ASSUME TypeOK, WorkerInv, DeliveryInv, [Next]_vars
             PROVE  [ALO!ALONext]_(ALO!aloVars)
  OBVIOUS
<1> DEFINE acc == {r \in Rows : tx[r] = "committed"}
<1> USE DEF ALO!ALONext, ALO!aloVars, dbVars, kafkaVars
<1>1. ASSUME NEW r \in Rows, DecideInsert(r) PROVE UNCHANGED <<acc, copies, published>>
  BY <1>1 DEF DecideInsert, TypeOK
<1>2. ASSUME NEW r \in Rows, DecideEnd(r)
      PROVE  ALO!Accept(r) \/ UNCHANGED <<acc, copies, published>>
  <2>1. UNCHANGED <<copies, published>>
    BY <1>2 DEF DecideEnd
  <2>2. acc' = acc \cup {r} \/ acc' = acc
    BY <1>2 DEF DecideEnd, TypeOK
  <2>3. QED
    BY <2>1, <2>2 DEF ALO!Accept
<1>3. ASSUME NEW w \in Workers, BrokerAppend(w)
      PROVE  row[w] \in Rows /\ ALO!Deliver(row[w])
  <2>1. row[w] \in Rows /\ tx[row[w]] = "committed"
    BY <1>3 DEF BrokerAppend, WorkerInv, DeliveryInv, TypeOK
  <2>2. QED
    <3>1. copies' = [copies EXCEPT ![row[w]] = @ + 1]
      BY <1>3 DEF BrokerAppend
    <3>2. QED
      BY <1>3, <2>1, <3>1 DEF BrokerAppend, ALO!Deliver
<1>4. ASSUME NEW r \in Rows, LateAppend(r) PROVE ALO!Deliver(r)
  <2>1. tx[r] = "committed"
    BY <1>4 DEF LateAppend, DeliveryInv, OnlyCommittedDelivered, TypeOK
  <2>2. QED
    BY <1>4, <2>1 DEF LateAppend, ALO!Deliver
<1>5. ASSUME NEW w \in Workers, FinishUpdate(w) PROVE ALO!Confirm(done[w])
  <2>1. \A r \in done[w] : copies[r] >= 1
    BY DEF DeliveryInv
  <2>2. QED
    BY <1>5, <2>1 DEF FinishUpdate, EndPoll, FlagRows, ALO!Confirm
<1>6. ASSUME NEW w \in Workers,
             \/ FinishEmpty(w) \/ FinishSkip(w) \/ FinishRollback(w)
             \/ FinishDead(w) \/ ConnectionDrops(w)
      PROVE  UNCHANGED <<acc, copies, published>>
  BY <1>6 DEF FinishEmpty, FinishSkip, FinishRollback, FinishDead, ConnectionDrops, EndPoll
<1>7. CASE Crash
  <2>1. acc' = acc
    BY <1>7 DEF Crash, TypeOK
  <2>2. QED
    BY <1>7, <2>1 DEF Crash
<1>8. ASSUME NEW r \in Rows, LateExpire(r) PROVE UNCHANGED <<acc, copies, published>>
  BY <1>8 DEF LateExpire
<1>9. ASSUME NEW w \in Workers,
             Select(w) \/ StartSend(w) \/ SendRefused(w) \/ SendAck(w) \/ SendTimeout(w)
      PROVE  UNCHANGED <<acc, copies, published>>
  BY <1>9 DEF Select, StartSend, SendRefused, SendAck, SendTimeout
<1>10. CASE RefreshBacklog \/ UNCHANGED vars
  BY <1>10 DEF RefreshBacklog, vars
<1>11. \A w \in Workers : done[w] \in SUBSET Rows
  BY DEF TypeOK
<1>12. QED
  BY <1>1, <1>2, <1>3, <1>4, <1>5, <1>6, <1>7, <1>8, <1>9, <1>10, <1>11
  DEF Next, WorkerStep, Finish

\* Every behaviour of the outbox is one of the at-least-once contract
\* (OutboxWorker.kt:39-41).
THEOREM OutboxImplementsContract == Spec => Contract
<1>1. TypeOK /\ WorkerInv /\ DeliveryInv /\ [Next]_vars
        => [ALO!ALONext]_(ALO!aloVars)
  BY NextContract
<1>2. QED
  BY InitContract, <1>1, TypeCorrect, WorkerCorrect, DeliveryCorrect, PTL
  DEF Spec, Contract, ALO!ALOSpec
-----------------------------------------------------------------------------
(* Decision: the requests and the cache in front of the outbox *)

\* The workers end no transaction of decide.
LEMMA OutboxKeepsTx == OutboxStep => tx' = tx
<1> SUFFICES ASSUME OutboxStep PROVE tx' = tx
  OBVIOUS
<1>1. ASSUME NEW r \in Rows, LateAppend(r) \/ LateExpire(r) PROVE tx' = tx
  BY <1>1 DEF LateAppend, LateExpire, dbVars
<1>2. ASSUME NEW w \in Workers, Finish(w) PROVE tx' = tx
  BY <1>2 DEF Finish, FinishEmpty, FinishUpdate, FinishSkip, FinishRollback, FinishDead, EndPoll
<1>3. ASSUME NEW w \in Workers, WorkerStep(w), ~Finish(w) PROVE tx' = tx
  BY <1>3 DEF WorkerStep, Select, StartSend, SendRefused, SendAck, SendTimeout, dbVars
<1>4. ASSUME NEW w \in Workers, BrokerAppend(w) \/ ConnectionDrops(w) PROVE tx' = tx
  BY <1>4 DEF BrokerAppend, ConnectionDrops, dbVars
<1>5. CASE RefreshBacklog
  BY <1>5 DEF RefreshBacklog, dbVars
<1>6. QED
  BY <1>1, <1>2, <1>3, <1>4, <1>5 DEF OutboxStep

\* What decide and the cache do is, to the outbox, an insert, its end or nothing.
LEMMA StepIsOutboxStep ==
  DTypeOK /\ RowInv /\ [DNext]_dVars => [Next]_vars
<1> SUFFICES ASSUME DTypeOK, RowInv, DNext PROVE [Next]_vars
  BY DEF dVars
<1>1. CASE \E c \in Campaigns : EditCampaign(c)
  BY <1>1 DEF EditCampaign
<1>2. CASE RefreshStep
  BY <1>2 DEF RefreshStep, Fetch, SetCache, SetCreatives
<1>3. ASSUME NEW q \in Requests, DecideStep(q) PROVE [Next]_vars
  <2>1. ASSUME NEW r \in Rows, InsertRow(q, r) PROVE Next
    BY <2>1 DEF InsertRow, Next
  <2>2. CASE EndDecide(q)
    <3>1. rowOf[q] \in Rows
      BY <2>2 DEF EndDecide, DTypeOK, RowInv
    <3>2. QED
      BY <2>2, <3>1 DEF EndDecide, Next
  <2>3. CASE Begin(q) \/ ByPreference(q) \/ Draw(q) \/ Reason(q) \/ Creative(q)
    BY <2>3 DEF Begin, ByPreference, Draw, Reason, Creative
  <2>4. CASE InsertFails(q) \/ Answer(q)
    BY <2>4 DEF InsertFails, Answer
  <2>5. QED
    BY <1>3, <2>1, <2>2, <2>3, <2>4 DEF DecideStep
<1>4. CASE OutboxStep
  BY <1>4 DEF OutboxStep, Next
<1>5. CASE DCrash
  BY <1>5 DEF DCrash, Next
<1>6. QED
  BY <1>1, <1>2, <1>3, <1>4, <1>5 DEF DNext

\* A process that has served no request satisfies all of it.
LEMMA DInitInv == DInit => Init /\ DTypeOK /\ DInv
<1> SUFFICES ASSUME DInit PROVE DTypeOK /\ DInv
  BY DEF DInit
<1>1. DTypeOK
  BY DecisionAssumption DEF DInit, DTypeOK, Choice, NoPayload
<1>2. RowInv
  BY DEF DInit, RowInv, Init
<1>3. CacheInv /\ DrawInv
  BY DEF DInit, CacheInv, DrawInv
<1>4. QED
  BY <1>1, <1>2, <1>3 DEF DInv

\* Types are kept.
LEMMA NextDType == DTypeOK /\ [DNext]_dVars => DTypeOK'
<1> SUFFICES ASSUME DTypeOK, [DNext]_dVars PROVE DTypeOK'
  OBVIOUS
<1>1. CASE UNCHANGED dVars
  BY <1>1 DEF DTypeOK, dVars, cacheVars, decideVars, localVars, rowVars
<1>2. ASSUME NEW c \in Campaigns, EditCampaign(c) PROVE DTypeOK'
  BY <1>2 DEF EditCampaign, DTypeOK, decideVars, localVars, rowVars
<1>3. CASE Fetch
  BY <1>3 DEF Fetch, DTypeOK, decideVars, localVars, rowVars
<1>4. CASE SetCache
  BY <1>4 DEF SetCache, DTypeOK, localVars, rowVars
<1>5. CASE SetCreatives
  BY <1>5 DEF SetCreatives, CreativesOf, DTypeOK, decideVars, localVars, rowVars
<1>6. ASSUME NEW q \in Requests, DecideStep(q) PROVE DTypeOK'
  <2>1. CASE Begin(q)
    BY <2>1 DEF Begin, Goto, DTypeOK, cacheVars, rowVars
  <2>2. CASE ByPreference(q)
    BY <2>2, DecisionAssumption DEF ByPreference, Goto, DTypeOK, cacheVars, rowVars
  <2>3. CASE Draw(q)
    BY <2>3 DEF Draw, Goto, DTypeOK, cacheVars, rowVars
  <2>4. CASE Reason(q)
    BY <2>4 DEF Reason, Goto, DTypeOK, cacheVars, rowVars
  <2>5. CASE Creative(q)
    BY <2>5 DEF Creative, Choice, Goto, DTypeOK, cacheVars, rowVars
  <2>6. CASE InsertFails(q) \/ Answer(q)
    BY <2>6 DEF InsertFails, Answer, Goto, DTypeOK, cacheVars, localVars, rowVars
  <2>7. ASSUME NEW r \in Rows, InsertRow(q, r) PROVE DTypeOK'
    <3>1. Response(q) \in [campaign : Campaigns \cup {None}, creative : Choice]
      BY DEF DTypeOK, Response
    <3>2. QED
      BY <2>7, <3>1 DEF InsertRow, Goto, DTypeOK, cacheVars, localVars
  <2>8. CASE EndDecide(q)
    BY <2>8 DEF EndDecide, KnownAfter, Goto, DTypeOK, cacheVars, localVars, rowVars
  <2>9. QED
    BY <1>6, <2>1, <2>2, <2>3, <2>4, <2>5, <2>6, <2>7, <2>8 DEF DecideStep
<1>7. CASE OutboxStep
  BY <1>7 DEF OutboxStep, DTypeOK, cacheVars, decideVars, localVars, rowVars
<1>8. CASE DCrash
  BY <1>8 DEF DCrash, DTypeOK, localVars, rowVars
<1>9. QED
  BY <1>1, <1>2, <1>3, <1>4, <1>5, <1>6, <1>7, <1>8 DEF DNext, RefreshStep

\* A step that touches no row, and moves a request only where it has none, or
\* from its commit to its answer, keeps every request with its row.
LEMMA RowQuiet ==
  ASSUME DTypeOK, RowInv,
         tx' = tx, rowOf' = rowOf, payload' = payload,
         \A q \in Requests :
           /\ dpc'[q] = dpc[q] \/ (dpc[q] \in WithoutRow /\ dpc'[q] \in WithoutRow \cup {"failed"})
                               \/ (dpc[q] = "committed" /\ dpc'[q] = "answered")
           /\ Response(q)' = Response(q) \/ dpc[q] \in WithoutRow
  PROVE  RowInv'
BY DEF RowInv, WithoutRow, Undecided

\* The decision of a request is its campaign and its creative.
LEMMA ResponseNext ==
  ASSUME NEW q, campaign'[q] = campaign[q], creative'[q] = creative[q]
  PROVE  Response(q)' = Response(q)
BY DEF Response

\* The insert gives the request a row no other request has.
LEMMA InsertRowInv ==
  ASSUME TypeOK, DTypeOK, RowInv, NEW q \in Requests, NEW r \in Rows, InsertRow(q, r)
  PROVE  RowInv'
<1> USE RowsFacts
<1>1. /\ tx[r] = "absent" /\ tx' = [tx EXCEPT ![r] = "open"]
      /\ rowOf' = [rowOf EXCEPT ![q] = r]
      /\ payload' = [payload EXCEPT ![r] = Response(q)]
      /\ dpc[q] = "insert" /\ dpc' = [dpc EXCEPT ![q] = "commit"]
      /\ \A p \in Requests : Response(p)' = Response(p)
  BY DEF InsertRow, DecideInsert, Goto, localVars, Response
<1>2. /\ tx \in [Rows -> {"absent", "open", "committed", "aborted"}]
      /\ rowOf \in [Requests -> Rows \cup {NoRow}]
      /\ dpc \in [Requests -> {"new", "prefer", "draw", "reason", "creative",
                           "insert", "commit", "committed", "answered", "failed"}]
      /\ DOMAIN payload = Rows
  BY DEF TypeOK, DTypeOK
<1>3. rowOf[q] = NoRow /\ \A p \in Requests : rowOf[p] # r
  BY <1>1, <1>2 DEF RowInv, WithoutRow, Undecided
<1>4. /\ \A p \in Requests \ {q} : rowOf'[p] = rowOf[p] /\ dpc'[p] = dpc[p]
      /\ rowOf'[q] = r /\ dpc'[q] = "commit"
      /\ \A s \in Rows \ {r} : tx'[s] = tx[s] /\ payload'[s] = payload[s]
      /\ tx'[r] = "open" /\ payload'[r] = Response(q)
  BY <1>1, <1>2
<1>5. ASSUME NEW p \in Requests
      PROVE  /\ dpc'[p] \in WithoutRow => rowOf'[p] = NoRow
             /\ dpc'[p] = "commit" => rowOf'[p] # NoRow /\ tx'[rowOf'[p]] = "open"
             /\ dpc'[p] \in {"committed", "answered"} =>
                  rowOf'[p] # NoRow /\ tx'[rowOf'[p]] = "committed"
             /\ rowOf'[p] # NoRow =>
                  /\ tx'[rowOf'[p]] # "absent"
                  /\ payload'[rowOf'[p]] = Response(p)'
                  /\ \A o \in Requests \ {p} : rowOf'[o] # rowOf'[p]
  <2>1. CASE p = q
    BY <2>1, <1>1, <1>3, <1>4 DEF WithoutRow, Undecided
  <2>2. CASE p # q
    BY <2>2, <1>1, <1>2, <1>3, <1>4 DEF RowInv
  <2>3. QED
    BY <2>1, <2>2
<1>6. \A s \in Rows : tx'[s] # "absent" => \E p \in Requests : rowOf'[p] = s
  <2>1. ASSUME NEW s \in Rows, tx'[s] # "absent", s # r
        PROVE  \E p \in Requests : rowOf'[p] = s
    <3>1. PICK p \in Requests : rowOf[p] = s
      BY <2>1, <1>4 DEF RowInv
    <3>2. p # q
      BY <3>1, <1>3
    <3>3. QED
      BY <3>1, <3>2, <1>4
  <2>2. QED
    BY <2>1, <1>4
<1>7. QED
  BY <1>5, <1>6 DEF RowInv

\* The end of a transaction changes only the row of its own request.
LEMMA EndDecideRowInv ==
  ASSUME TypeOK, DTypeOK, RowInv, NEW q \in Requests, EndDecide(q)
  PROVE  RowInv'
<1> USE RowsFacts
<1> DEFINE r == rowOf[q]
<1>1. /\ dpc[q] = "commit" /\ rowOf' = rowOf /\ payload' = payload
      /\ \A p \in Requests : Response(p)' = Response(p)
  BY DEF EndDecide, localVars, rowVars, Response
<1>2. PICK outcome \in {"committed", "aborted"} : tx' = [tx EXCEPT ![r] = outcome]
  BY DEF EndDecide, DecideEnd
<1>3. /\ tx \in [Rows -> {"absent", "open", "committed", "aborted"}]
      /\ rowOf \in [Requests -> Rows \cup {NoRow}]
      /\ dpc \in [Requests -> {"new", "prefer", "draw", "reason", "creative",
                           "insert", "commit", "committed", "answered", "failed"}]
  BY DEF TypeOK, DTypeOK
<1>4. r \in Rows /\ \A p \in Requests \ {q} : rowOf[p] # r
  BY <1>1, <1>3 DEF RowInv
<1>5. /\ tx'[r] = outcome /\ \A s \in Rows \ {r} : tx'[s] = tx[s]
      /\ tx[r] = "open"
  BY <1>1, <1>2, <1>3, <1>4 DEF RowInv
<1>6. PICK place \in KnownAfter(q) : dpc' = [dpc EXCEPT ![q] = place]
  BY DEF EndDecide, Goto
<1>7. /\ dpc'[q] = place /\ place \in {"committed", "failed"}
      /\ place = "committed" => outcome = "committed"
      /\ \A p \in Requests \ {q} : dpc'[p] = dpc[p]
  BY <1>3, <1>5, <1>6 DEF KnownAfter
<1> HIDE DEF r
<1>8. ASSUME NEW p \in Requests
      PROVE  /\ dpc'[p] \in WithoutRow => rowOf[p] = NoRow
             /\ dpc'[p] = "commit" => rowOf[p] # NoRow /\ tx'[rowOf[p]] = "open"
             /\ dpc'[p] \in {"committed", "answered"} =>
                  rowOf[p] # NoRow /\ tx'[rowOf[p]] = "committed"
             /\ rowOf[p] # NoRow =>
                  /\ tx'[rowOf[p]] # "absent"
                  /\ payload[rowOf[p]] = Response(p)
                  /\ \A o \in Requests \ {p} : rowOf[o] # rowOf[p]
  <2>1. CASE p = q
    BY <2>1, <1>1, <1>4, <1>5, <1>7 DEF r, RowInv, WithoutRow, Undecided
  <2>2. CASE p # q
    <3>1. dpc'[p] = dpc[p] /\ rowOf[p] # r
      BY <2>2, <1>4, <1>7
    <3>2. rowOf[p] # NoRow => rowOf[p] \in Rows /\ tx'[rowOf[p]] = tx[rowOf[p]]
      BY <3>1, <1>3, <1>5
    <3>3. QED
      BY <3>1, <3>2 DEF RowInv
  <2>3. QED
    BY <2>1, <2>2
<1>9. \A s \in Rows : tx'[s] # "absent" => \E p \in Requests : rowOf[p] = s
  BY <1>5, <1>4 DEF r, RowInv
<1>10. QED
  BY <1>1, <1>8, <1>9 DEF RowInv

\* A crash aborts the rows whose requests were waiting for their commit.
LEMMA DCrashRowInv ==
  ASSUME TypeOK, DTypeOK, RowInv, DCrash
  PROVE  RowInv'
<1> USE RowsFacts
<1>1. /\ rowOf' = rowOf /\ payload' = payload
      /\ \A p \in Requests : Response(p)' = Response(p)
      /\ \A p \in Requests :
            dpc'[p] = IF dpc[p] \in {"new", "answered"} THEN dpc[p] ELSE "failed"
  BY DEF DCrash, localVars, rowVars, Response
<1>2. \A r \in Rows : /\ tx[r] # "open" => tx'[r] = tx[r]
                      /\ tx'[r] = "absent" <=> tx[r] = "absent"
  BY DEF DCrash, Crash
<1>3. rowOf \in [Requests -> Rows \cup {NoRow}]
  BY DEF DTypeOK
<1>4. ASSUME NEW p \in Requests
      PROVE  /\ dpc'[p] \in WithoutRow => rowOf[p] = NoRow
             /\ dpc'[p] # "commit"
             /\ dpc'[p] \in {"committed", "answered"} =>
                  rowOf[p] # NoRow /\ tx'[rowOf[p]] = "committed"
             /\ rowOf[p] # NoRow =>
                  /\ tx'[rowOf[p]] # "absent"
                  /\ payload[rowOf[p]] = Response(p)
                  /\ \A o \in Requests \ {p} : rowOf[o] # rowOf[p]
  <2>1. rowOf[p] # NoRow => rowOf[p] \in Rows
    BY <1>3
  <2>2. QED
    BY <2>1, <1>1, <1>2 DEF RowInv, WithoutRow, Undecided
<1>5. \A r \in Rows : tx'[r] # "absent" => \E p \in Requests : rowOf[p] = r
  BY <1>2 DEF RowInv
<1>6. QED
  BY <1>1, <1>4, <1>5 DEF RowInv

\* Every step keeps each request with its row.
LEMMA NextRowInv == TypeOK /\ DTypeOK /\ RowInv /\ [DNext]_dVars => RowInv'
<1> SUFFICES ASSUME TypeOK, DTypeOK, RowInv, [DNext]_dVars PROVE RowInv'
  OBVIOUS
<1>1. CASE UNCHANGED dVars
  BY <1>1, RowQuiet, ResponseNext DEF dVars, vars, dbVars, decideVars, localVars, rowVars
<1>2. ASSUME NEW c \in Campaigns, EditCampaign(c) PROVE RowInv'
  BY <1>2, RowQuiet, ResponseNext DEF EditCampaign, vars, dbVars, decideVars, localVars, rowVars
<1>3. CASE RefreshStep
  BY <1>3, RowQuiet, ResponseNext
     DEF RefreshStep, Fetch, SetCache, SetCreatives, vars, dbVars, decideVars, localVars, rowVars
<1>4. ASSUME NEW q \in Requests, DecideStep(q) PROVE RowInv'
  <2>1. CASE Begin(q) \/ ByPreference(q) \/ Draw(q) \/ Reason(q) \/ Creative(q)
    <3>1. tx' = tx /\ rowOf' = rowOf /\ payload' = payload
      BY <2>1 DEF Begin, ByPreference, Draw, Reason, Creative, vars, dbVars, rowVars
    <3>2. /\ dpc[q] \in WithoutRow /\ dpc'[q] \in WithoutRow
          /\ \A p \in Requests \ {q} : dpc'[p] = dpc[p]
      BY <2>1 DEF Begin, ByPreference, Draw, Reason, Creative, Goto,
                  WithoutRow, Undecided, DTypeOK
    <3>3. \A p \in Requests \ {q} : campaign'[p] = campaign[p] /\ creative'[p] = creative[p]
      BY <2>1 DEF Begin, ByPreference, Draw, Reason, Creative, DTypeOK
    <3>4. \A p \in Requests \ {q} : Response(p)' = Response(p)
      BY <3>3, ResponseNext
    <3>5. QED
      BY <3>1, <3>2, <3>4, RowQuiet
  <2>2. CASE InsertFails(q) \/ Answer(q)
    <3>1. /\ tx' = tx /\ rowOf' = rowOf /\ payload' = payload
          /\ campaign' = campaign /\ creative' = creative
      BY <2>2 DEF InsertFails, Answer, vars, dbVars, localVars, rowVars
    <3>2. /\ \/ dpc[q] \in WithoutRow /\ dpc'[q] = "failed"
             \/ dpc[q] = "committed" /\ dpc'[q] = "answered"
          /\ \A p \in Requests \ {q} : dpc'[p] = dpc[p]
      BY <2>2 DEF InsertFails, Answer, Goto, WithoutRow, Undecided, DTypeOK
    <3>3. \A p \in Requests : Response(p)' = Response(p)
      BY <3>1, ResponseNext
    <3>4. QED
      BY <3>1, <3>2, <3>3, RowQuiet
  <2>3. QED
    BY <1>4, <2>1, <2>2, InsertRowInv, EndDecideRowInv DEF DecideStep
<1>5. CASE OutboxStep
  <2>1. /\ tx' = tx /\ rowOf' = rowOf /\ payload' = payload /\ dpc' = dpc
        /\ campaign' = campaign /\ creative' = creative
    BY <1>5, OutboxKeepsTx DEF OutboxStep, decideVars, localVars, rowVars
  <2>2. \A q \in Requests : Response(q)' = Response(q)
    BY <2>1, ResponseNext
  <2>3. QED
    BY <2>1, <2>2, RowQuiet
<1>6. CASE DCrash
  BY <1>6, DCrashRowInv
<1>7. QED
  BY <1>1, <1>2, <1>3, <1>4, <1>5, <1>6 DEF DNext

\* Every step keeps the two references equal outside a refresh.
LEMMA NextCacheInv == CacheInv /\ [DNext]_dVars => CacheInv'
<1> SUFFICES ASSUME CacheInv, [DNext]_dVars PROVE CacheInv'
  OBVIOUS
<1>1. CASE UNCHANGED cacheVars
  BY <1>1 DEF CacheInv, cacheVars
<1>2. ASSUME NEW c \in Campaigns, EditCampaign(c) PROVE CacheInv'
  BY <1>2 DEF EditCampaign, CacheInv
<1>3. CASE RefreshStep
  BY <1>3 DEF RefreshStep, Fetch, SetCache, SetCreatives, CreativesOf, CacheInv
<1>4. CASE DCrash
  BY <1>4 DEF DCrash, CacheInv
<1>5. ASSUME NEW q \in Requests, DecideStep(q) PROVE UNCHANGED cacheVars
  BY <1>5 DEF DecideStep, Begin, ByPreference, Draw, Reason, Creative,
              InsertFails, InsertRow, EndDecide, Answer
<1>6. OutboxStep => UNCHANGED cacheVars
  BY DEF OutboxStep
<1>7. QED
  BY <1>1, <1>2, <1>3, <1>4, <1>5, <1>6 DEF DNext, dVars

\* Every step keeps what a request that drew nothing knows of the cache.
LEMMA NextDrawInv == DTypeOK /\ DrawInv /\ [DNext]_dVars => DrawInv'
<1> SUFFICES ASSUME DTypeOK, DrawInv, [DNext]_dVars PROVE DrawInv'
  OBVIOUS
<1>1. CASE dpc' = dpc /\ reason' = reason /\ wanted' = wanted
           /\ cache' = cache /\ replaced' = replaced
  BY <1>1 DEF DrawInv
<1>2. ASSUME NEW c \in Campaigns, EditCampaign(c) PROVE DrawInv'
  BY <1>2, <1>1 DEF EditCampaign, decideVars, localVars
<1>3. CASE Fetch \/ SetCreatives
  BY <1>3, <1>1 DEF Fetch, SetCreatives, decideVars, localVars
<1>4. CASE SetCache
  BY <1>4 DEF SetCache, DrawInv, localVars, DTypeOK
<1>5. ASSUME NEW q \in Requests, DecideStep(q) PROVE DrawInv'
  <2>1. CASE Begin(q)
    BY <2>1, DecisionAssumption DEF Begin, Goto, DrawInv, Undecided, DTypeOK, cacheVars
  <2>2. CASE ByPreference(q)
    BY <2>2 DEF ByPreference, Goto, DrawInv, Undecided, DTypeOK, cacheVars
  <2>3. CASE Draw(q)
    BY <2>3, DecisionAssumption DEF Draw, Goto, DrawInv, Undecided, DTypeOK, cacheVars
  <2>4. CASE Reason(q)
    BY <2>4 DEF Reason, EmptyNow, Goto, DrawInv, Undecided, DTypeOK, cacheVars
  <2>5. CASE Creative(q)
    BY <2>5 DEF Creative, Goto, DrawInv, Undecided, DTypeOK, cacheVars
  <2>6. CASE InsertFails(q) \/ Answer(q)
    BY <2>6 DEF InsertFails, Answer, Goto, DrawInv, Undecided, DTypeOK, cacheVars, localVars
  <2>7. ASSUME NEW r \in Rows, InsertRow(q, r) PROVE DrawInv'
    BY <2>7 DEF InsertRow, Goto, DrawInv, Undecided, DTypeOK, cacheVars, localVars
  <2>8. CASE EndDecide(q)
    BY <2>8 DEF EndDecide, KnownAfter, Goto, DrawInv, Undecided, DTypeOK, cacheVars, localVars
  <2>9. QED
    BY <1>5, <2>1, <2>2, <2>3, <2>4, <2>5, <2>6, <2>7, <2>8 DEF DecideStep
<1>6. CASE OutboxStep
  BY <1>6, <1>1 DEF OutboxStep, cacheVars, decideVars, localVars
<1>7. CASE DCrash
  BY <1>7 DEF DCrash, DrawInv, Undecided, DTypeOK, localVars
<1>8. CASE UNCHANGED dVars
  BY <1>8, <1>1 DEF dVars, cacheVars, decideVars, localVars
<1>9. QED
  BY <1>2, <1>3, <1>4, <1>5, <1>6, <1>7, <1>8 DEF DNext, RefreshStep

(***************************************************************************)
(* The invariants of requests and cache hold in every state; what ends a   *)
(* transaction is a step of the outbox only because of them, and they need *)
(* the types of the outbox, so they are proved together                    *)
(* (DecisionService.kt:107-163, CampaignCache.kt:36-67).                   *)
(***************************************************************************)
THEOREM DecisionInv == DSpec => [](TypeOK /\ WorkerInv /\ DTypeOK /\ DInv)
<1>1. DInit => TypeOK /\ WorkerInv /\ DTypeOK /\ DInv
  BY DInitInv, InitType
<1>2. TypeOK /\ WorkerInv /\ DTypeOK /\ DInv /\ [DNext]_dVars
      => (TypeOK /\ WorkerInv /\ DTypeOK /\ DInv)'
  <2> SUFFICES ASSUME TypeOK, WorkerInv, DTypeOK, DInv, [DNext]_dVars
               PROVE  TypeOK' /\ WorkerInv' /\ DTypeOK' /\ DInv'
    OBVIOUS
  <2>1. [Next]_vars
    BY StepIsOutboxStep DEF DInv
  <2>2. TypeOK' /\ WorkerInv'
    BY <2>1, NextType, NextWorkerInv
  <2>3. DTypeOK' /\ RowInv' /\ CacheInv' /\ DrawInv'
    BY NextDType, NextRowInv, NextCacheInv, NextDrawInv DEF DInv
  <2>4. QED
    BY <2>2, <2>3 DEF DInv
<1>3. QED
  BY <1>1, <1>2, PTL DEF DSpec

(***************************************************************************)
(* The variables of decide and of the cache keep their types               *)
(* (DecisionService.kt:107-163).                                           *)
(***************************************************************************)
THEOREM DecisionTypeCorrect == DSpec => []DTypeOK
BY DecisionInv, PTL

(***************************************************************************)
(* The service with its cache and requests is an outbox: whatever decide   *)
(* and the refresh do is a step of Outbox or leaves it alone, so that      *)
(* every theorem above holds of the composition                            *)
(* (DecisionService.kt:98-106).                                            *)
(***************************************************************************)
THEOREM DecisionImplementsOutbox == DSpec => Spec
<1>1. DInit => Init
  BY DInitInv
<1>2. DTypeOK /\ DInv /\ [DNext]_dVars => [Next]_vars
  BY StepIsOutboxStep DEF DInv
<1>3. QED
  BY <1>1, <1>2, DecisionInv, PTL DEF DSpec, Spec

(***************************************************************************)
(* A client that was answered has a committed row that says what the       *)
(* answer says (DecisionService.kt:98-106, 129-163).                       *)
(***************************************************************************)
THEOREM AnswersAreRecorded == DSpec => []AnsweredIsRecorded
<1>1. DInv => AnsweredIsRecorded
  BY DEF DInv, RowInv, AnsweredIsRecorded
<1>2. QED
  BY <1>1, DecisionInv, PTL

(***************************************************************************)
(* Every record in the topic is the decision of one request whose          *)
(* transaction has ended; from the rows of the requests and from NoGhosts  *)
(* (DecisionService.kt:126-128).                                           *)
(***************************************************************************)
THEOREM TopicIsDecided == DSpec => []TopicHoldsDecisions
<1>1. DTypeOK /\ DInv /\ OnlyCommittedDelivered => TopicHoldsDecisions
  <2> SUFFICES ASSUME DTypeOK, RowInv, OnlyCommittedDelivered,
                      NEW r \in Rows, copies[r] + late[r] > 0
               PROVE  \E q \in Requests :
                        /\ rowOf[q] = r /\ payload[r] = Response(q)
                        /\ dpc[q] \in {"committed", "answered", "failed"}
    BY DEF DInv, TopicHoldsDecisions
  <2>1. tx[r] = "committed"
    BY DEF OnlyCommittedDelivered
  <2>2. PICK q \in Requests : rowOf[q] = r
    BY <2>1 DEF RowInv
  <2>3. dpc[q] \in {"committed", "answered", "failed"}
    BY <2>1, <2>2, RowsFacts DEF RowInv, DTypeOK, WithoutRow, Undecided
  <2>4. QED
    BY <2>2, <2>3, RowsFacts DEF RowInv
<1>2. QED
  BY <1>1, DecisionInv, DecisionImplementsOutbox, NoGhosts, PTL

(***************************************************************************)
(* A fill gets crt-unknown only between the two assignments of a refresh,  *)
(* or after its campaign has left the cache (CampaignCache.kt:55-64,       *)
(* 91-94).                                                                 *)
(***************************************************************************)
THEOREM UnknownNeedsASwitch == DSpec => UnknownOnlyWhenSwitching
<1>1. DTypeOK /\ DInv /\ [DNext]_dVars
      => [\A q \in Requests : creative[q] = None /\ creative'[q] = Unknown =>
            refresh = "cached" \/ campaign[q] \notin cache]_dVars
  <2> SUFFICES ASSUME DTypeOK, CacheInv, DNext,
                      NEW q \in Requests, creative[q] = None, creative'[q] = Unknown
               PROVE  refresh = "cached" \/ campaign[q] \notin cache
    BY DEF DInv
  <2>1. ASSUME NEW p \in Requests, Creative(p)
        PROVE  refresh = "cached" \/ campaign[q] \notin cache
    BY <2>1, DecisionAssumption DEF Creative, DTypeOK, CacheInv
  <2>2. CASE creative' = creative
    BY <2>2, DecisionAssumption
  <2>3. ASSUME NEW p \in Requests, DecideStep(p), ~Creative(p) PROVE creative' = creative
    BY <2>3 DEF DecideStep, Begin, ByPreference, Draw, Reason, InsertFails,
                InsertRow, EndDecide, Answer, localVars
  <2>4. ASSUME NEW c \in Campaigns, EditCampaign(c) PROVE creative' = creative
    BY <2>4 DEF EditCampaign, decideVars, localVars
  <2>5. RefreshStep \/ OutboxStep \/ DCrash => creative' = creative
    BY DEF RefreshStep, Fetch, SetCache, SetCreatives, OutboxStep, DCrash,
           decideVars, localVars
  <2>6. QED
    BY <2>1, <2>2, <2>3, <2>4, <2>5 DEF DNext
<1>2. QED
  BY <1>1, DecisionInv, PTL DEF DSpec, UnknownOnlyWhenSwitching

(***************************************************************************)
(* A request that was to be filled is refused as budget_exhausted only if  *)
(* the cache was replaced between its draw and its question for the size   *)
(* (DecisionService.kt:116-123).                                           *)
(***************************************************************************)
THEOREM ExhaustedNeedsARefresh == DSpec => []ExhaustedOnlyByChance
<1>1. DTypeOK /\ DInv => ExhaustedOnlyByChance
  BY DEF DInv, DrawInv, DTypeOK, ExhaustedOnlyByChance
<1>2. QED
  BY <1>1, DecisionInv, PTL
=============================================================================
