-------------------------- MODULE SettlementProofs --------------------------
(***************************************************************************)
(* Proofs about Settlement, for any rows, events, campaigns, number of     *)
(* runs and faults: a run of the batch that has no other beside it leaves  *)
(* both tables as the rows it read say (RerunReplaces); of runs that       *)
(* overlap and all succeed one has the whole table (OneRunPerTable); the   *)
(* two tables add up (DayIsSumOfMinutes), and so does a report over them   *)
(* (ReportExplained).                                                      *)
(***************************************************************************)
EXTENDS Settlement, SumTheorems

Writing(j) == stage[j] \in {"daily", "between", "minute"}

(***************************************************************************)
(* A run that is alone: no other is active, and the tables hold the part   *)
(* of its result it has inserted so far and nothing else.                  *)
(***************************************************************************)
AloneOf(j) ==
  /\ stage[j] # "new"
  /\ Active(j) => \A k \in Jobs : Active(k) => k = j
  /\ stage[j] = "daily" =>
       daily = [key \in DOMAIN DailyOf(result[j]) \ todo[j] |-> DailyOf(result[j])[key]]
  /\ stage[j] \in {"between", "minute"} => daily = DailyOf(result[j])
  /\ stage[j] = "minute" =>
       minute = [key \in DOMAIN MinuteOf(result[j]) \ todo[j] |-> MinuteOf(result[j])[key]]

AloneInv == \A j \in Jobs : j \in alone => AloneOf(j)

TodoInv ==
  \A j \in Jobs :
    /\ stage[j] = "daily" => todo[j] \subseteq DOMAIN DailyOf(result[j])
    /\ stage[j] = "minute" => todo[j] \subseteq DOMAIN MinuteOf(result[j])

\* While the tables hold a whole result, nobody is writing.
WholeInv ==
  whole # Nothing =>
    /\ daily = DailyOf(whole) /\ minute = MinuteOf(whole)
    /\ \A j \in Jobs : ~Writing(j)

Domains ==
  /\ stage \in [Jobs -> Stages]
  /\ DOMAIN result = Jobs /\ DOMAIN todo = Jobs
  /\ alone \subseteq Jobs

RInv == Domains /\ AloneInv /\ TodoInv /\ WholeInv

(***************************************************************************)
(* What is left to insert gets smaller, what is in the table larger.       *)
(***************************************************************************)
WrittenRows(rows, rest) == [key \in DOMAIN rows \ rest |-> rows[key]]

LEMMA InsertedRows ==
  ASSUME NEW rows, NEW rest, NEW part, part \subseteq rest, rest \subseteq DOMAIN rows
  PROVE  Inserted(WrittenRows(rows, rest), rows, part) = WrittenRows(rows, rest \ part)
BY DEF Inserted, WrittenRows

LEMMA TablesAreFunctions ==
  ASSUME NEW res
  PROVE  /\ DailyOf(res) = [key \in DOMAIN DailyOf(res) |-> DailyOf(res)[key]]
         /\ MinuteOf(res) = [key \in DOMAIN MinuteOf(res) |-> MinuteOf(res)[key]]
BY DEF DailyOf, MinuteOf

LEMMA EmptyTable ==
  ASSUME NEW rows
  PROVE  Empty = [key \in DOMAIN rows \ DOMAIN rows |-> rows[key]]
BY DEF Empty

LEMMA InitRInv == Init => RInv
BY DEF Init, RInv, Domains, AloneInv, AloneOf, TodoInv, WholeInv, Stages, Writing

\* A run that has ended, and the runs beside one that is active and alone.
LEMMA EndedAlone ==
  ASSUME NEW k, stage'[k] \in {"done", "failed"}
  PROVE  AloneOf(k)'
BY DEF AloneOf, Active

LEMMA OthersEnded ==
  ASSUME RInv, NEW j \in Jobs, Active(j), NEW k \in Jobs, k # j, k \in alone
  PROVE  stage[k] \in {"done", "failed"}
<1>1. stage[k] \in Stages /\ AloneOf(k)
  BY DEF RInv, Domains, AloneInv
<1>2. ~Active(k) /\ stage[k] # "new"
  BY <1>1 DEF AloneOf
<1> QED BY <1>1, <1>2 DEF Active, Stages

\* A step of an active run that leaves the others where they are.
LEMMA OthersAlone ==
  ASSUME RInv, NEW j \in Jobs, Active(j), UNCHANGED alone,
         \A k \in Jobs \ {j} : stage'[k] = stage[k],
         j \in alone => AloneOf(j)'
  PROVE  AloneInv'
<1>1. ASSUME NEW k \in Jobs, k \in alone, k # j PROVE AloneOf(k)'
  BY <1>1, OthersEnded, EndedAlone
<1> QED BY <1>1 DEF AloneInv

(***************************************************************************)
(* The steps that write to the tables of a run, or end it.                 *)
(***************************************************************************)
LEMMA StartRInv ==
  ASSUME RInv, NEW j \in Jobs, Start(j)
  PROVE  RInv'
<1> USE DEF Start, RInv, live, tables
<1>1. Domains'
  BY DEF Domains, Stages
<1>2. AloneInv'
  <2>1. stage'[j] = "read" /\ \A k \in Jobs \ {j} : stage'[k] = stage[k]
    BY DEF Domains
  <2>2. ASSUME j \in alone' PROVE AloneOf(j)'
    <3>1. j \notin alone
      BY DEF AloneInv, AloneOf
    <3>2. \A k \in Jobs : ~Active(k)
      BY <2>2, <3>1
    <3>3. \A k \in Jobs \ {j} : ~Active(k)'
      BY <2>1, <3>2 DEF Active
    <3> QED BY <2>1, <3>3 DEF AloneOf
  <2>3. ASSUME NEW k \in Jobs, k \in alone', k # j PROVE AloneOf(k)'
    <3>1. k \in alone /\ ~Active(k)
      BY <2>3
    <3>2. stage[k] \in Stages /\ stage[k] # "new"
      BY <3>1 DEF Domains, AloneInv, AloneOf
    <3>3. stage'[k] \in {"done", "failed"}
      BY <2>1, <2>3, <3>1, <3>2 DEF Active, Stages
    <3> QED BY <3>3, EndedAlone
  <2> QED BY <2>2, <2>3 DEF AloneInv
<1>3. TodoInv'
  BY DEF Domains, TodoInv
<1>4. WholeInv'
  BY DEF Domains, WholeInv, Writing
<1> QED BY <1>1, <1>2, <1>3, <1>4

LEMMA TruncateDailyRInv ==
  ASSUME RInv, NEW j \in Jobs, TruncateDaily(j)
  PROVE  RInv'
<1> USE DEF TruncateDaily, RInv, live, tables
<1>1. Domains'
  BY DEF Domains, Stages
<1>2. AloneInv'
  <2> SUFFICES ASSUME NEW k \in Jobs, k \in alone' PROVE AloneOf(k)'
    BY DEF AloneInv
  <2>1. CASE k = j
    BY <2>1, EmptyTable DEF Domains, AloneInv, AloneOf, TodoInv, Active
  <2>2. CASE k # j
    <3>1. Active(j) /\ k \in alone /\ stage'[k] = stage[k]
      BY <2>2 DEF Active, Domains
    <3> QED BY <2>2, <3>1, OthersEnded, EndedAlone
  <2> QED BY <2>1, <2>2
<1>3. TodoInv'
  BY DEF Domains, TodoInv
<1>4. WholeInv'
  BY DEF Domains, WholeInv, Writing
<1> QED BY <1>1, <1>2, <1>3, <1>4

LEMMA InsertDailyRInv ==
  ASSUME RInv, NEW j \in Jobs, NEW part \in SUBSET todo[j], InsertDaily(j, part)
  PROVE  RInv'
<1> USE DEF InsertDaily, RInv, live, tables
<1>1. Domains'
  BY DEF Domains, Stages
<1>2. AloneInv'
  <2> SUFFICES ASSUME NEW k \in Jobs, k \in alone' PROVE AloneOf(k)'
    BY DEF AloneInv
  <2>1. CASE k = j
    <3> DEFINE rows == DailyOf(result[j])
    <3>1. daily = WrittenRows(rows, todo[j]) /\ todo[j] \subseteq DOMAIN rows
      BY <2>1 DEF Domains, AloneInv, AloneOf, TodoInv, WrittenRows
    <3>2. daily' = WrittenRows(rows, todo[j] \ part)
      <4>1. daily' = Inserted(WrittenRows(rows, todo[j]), rows, part) /\ part \subseteq todo[j]
        BY <3>1
      <4> HIDE DEF rows
      <4>2. Inserted(WrittenRows(rows, todo[j]), rows, part) = WrittenRows(rows, todo[j] \ part)
        BY ONLY <3>1, <4>1, InsertedRows
      <4> QED BY ONLY <4>1, <4>2
    <3>3. stage' = stage /\ result' = result /\ todo'[j] = todo[j] \ part /\ stage[j] = "daily"
      BY DEF Domains
    <3> QED BY <2>1, <3>2, <3>3 DEF Domains, AloneInv, AloneOf, Active, WrittenRows
  <2>2. CASE k # j
    <3>1. Active(j) /\ k \in alone /\ stage'[k] = stage[k]
      BY <2>2 DEF Active, Domains
    <3> QED BY <2>2, <3>1, OthersEnded, EndedAlone
  <2> QED BY <2>1, <2>2
<1>3. TodoInv'
  BY DEF Domains, TodoInv
<1>4. WholeInv'
  BY DEF Domains, WholeInv, Writing
<1> QED BY <1>1, <1>2, <1>3, <1>4

LEMMA EndDailyRInv ==
  ASSUME RInv, NEW j \in Jobs, EndDaily(j)
  PROVE  RInv'
<1> USE DEF EndDaily, RInv, live, tables
<1>1. Domains'
  BY DEF Domains, Stages
<1>2. AloneInv'
  <2> SUFFICES ASSUME NEW k \in Jobs, k \in alone' PROVE AloneOf(k)'
    BY DEF AloneInv
  <2>1. CASE k = j
    <3> DEFINE rows == DailyOf(result[j])
    <3>1. daily = [key \in DOMAIN rows |-> rows[key]]
      <4>1. AloneOf(j) /\ stage[j] = "daily" /\ todo[j] = {}
        BY <2>1 DEF AloneInv
      <4> QED BY <4>1 DEF AloneOf
    <3>2. daily' = rows
      <4>1. rows = [key \in DOMAIN rows |-> rows[key]]
        BY TablesAreFunctions
      <4> QED BY <4>1, <3>1
    <3>3. result' = result /\ stage'[j] = "between"
      BY DEF Domains
    <3> QED BY <2>1, <3>2, <3>3 DEF Domains, AloneInv, AloneOf, Active
  <2>2. CASE k # j
    <3>1. Active(j) /\ k \in alone /\ stage'[k] = stage[k]
      BY <2>2 DEF Active, Domains
    <3> QED BY <2>2, <3>1, OthersEnded, EndedAlone
  <2> QED BY <2>1, <2>2
<1>3. TodoInv'
  BY DEF Domains, TodoInv
<1>4. WholeInv'
  BY DEF Domains, WholeInv, Writing
<1> QED BY <1>1, <1>2, <1>3, <1>4

LEMMA TruncateMinuteRInv ==
  ASSUME RInv, NEW j \in Jobs, TruncateMinute(j)
  PROVE  RInv'
<1> USE DEF TruncateMinute, RInv, live, tables
<1>1. Domains'
  BY DEF Domains, Stages
<1>2. AloneInv'
  <2> SUFFICES ASSUME NEW k \in Jobs, k \in alone' PROVE AloneOf(k)'
    BY DEF AloneInv
  <2>1. CASE k = j
    BY <2>1, EmptyTable DEF Domains, AloneInv, AloneOf, TodoInv, Active
  <2>2. CASE k # j
    <3>1. Active(j) /\ k \in alone /\ stage'[k] = stage[k]
      BY <2>2 DEF Active, Domains
    <3> QED BY <2>2, <3>1, OthersEnded, EndedAlone
  <2> QED BY <2>1, <2>2
<1>3. TodoInv'
  BY DEF Domains, TodoInv
<1>4. WholeInv'
  BY DEF Domains, WholeInv, Writing
<1> QED BY <1>1, <1>2, <1>3, <1>4

LEMMA InsertMinuteRInv ==
  ASSUME RInv, NEW j \in Jobs, NEW part \in SUBSET todo[j], InsertMinute(j, part)
  PROVE  RInv'
<1> USE DEF InsertMinute, RInv, live, tables
<1>1. Domains'
  BY DEF Domains, Stages
<1>2. AloneInv'
  <2> SUFFICES ASSUME NEW k \in Jobs, k \in alone' PROVE AloneOf(k)'
    BY DEF AloneInv
  <2>1. CASE k = j
    <3> DEFINE rows == MinuteOf(result[j])
    <3>1. minute = WrittenRows(rows, todo[j]) /\ todo[j] \subseteq DOMAIN rows
      BY <2>1 DEF Domains, AloneInv, AloneOf, TodoInv, WrittenRows
    <3>2. minute' = WrittenRows(rows, todo[j] \ part)
      <4>1. minute' = Inserted(WrittenRows(rows, todo[j]), rows, part) /\ part \subseteq todo[j]
        BY <3>1
      <4> HIDE DEF rows
      <4>2. Inserted(WrittenRows(rows, todo[j]), rows, part) = WrittenRows(rows, todo[j] \ part)
        BY ONLY <3>1, <4>1, InsertedRows
      <4> QED BY ONLY <4>1, <4>2
    <3>3. stage' = stage /\ result' = result /\ todo'[j] = todo[j] \ part /\ stage[j] = "minute"
      BY DEF Domains
    <3> QED BY <2>1, <3>2, <3>3 DEF Domains, AloneInv, AloneOf, Active, WrittenRows
  <2>2. CASE k # j
    <3>1. Active(j) /\ k \in alone /\ stage'[k] = stage[k]
      BY <2>2 DEF Active, Domains
    <3> QED BY <2>2, <3>1, OthersEnded, EndedAlone
  <2> QED BY <2>1, <2>2
<1>3. TodoInv'
  BY DEF Domains, TodoInv
<1>4. WholeInv'
  BY DEF Domains, WholeInv, Writing
<1> QED BY <1>1, <1>2, <1>3, <1>4

LEMMA InsertFailsRInv ==
  ASSUME RInv, NEW j \in Jobs, NEW part \in SUBSET todo[j], InsertFails(j, part)
  PROVE  RInv'
<1> USE DEF InsertFails, RInv, live, tables
<1>1. Domains'
  BY DEF Domains, Stages
<1>2. AloneInv'
  <2>1. Active(j) /\ UNCHANGED alone /\ stage'[j] \in {"done", "failed"}
        /\ \A k \in Jobs \ {j} : stage'[k] = stage[k]
    BY DEF Active, Domains
  <2>2. AloneOf(j)'
    BY <2>1, EndedAlone
  <2> QED BY <2>1, <2>2, OthersAlone
<1>3. TodoInv'
  BY DEF Domains, TodoInv
<1>4. WholeInv'
  BY DEF Domains, WholeInv, Writing
<1> QED BY <1>1, <1>2, <1>3, <1>4

LEMMA EndMinuteRInv ==
  ASSUME RInv, NEW j \in Jobs, EndMinute(j)
  PROVE  RInv'
<1> USE DEF EndMinute, RInv, live, tables
<1>1. Domains'
  BY DEF Domains, Stages
<1>2. AloneInv'
  <2>1. Active(j) /\ UNCHANGED alone /\ stage'[j] \in {"done", "failed"}
        /\ \A k \in Jobs \ {j} : stage'[k] = stage[k]
    BY DEF Active, Domains
  <2>2. AloneOf(j)'
    BY <2>1, EndedAlone
  <2> QED BY <2>1, <2>2, OthersAlone
<1>3. TodoInv'
  BY DEF Domains, TodoInv
<1>4. WholeInv'
  <2>1. CASE j \in alone
    <3> DEFINE res == result[j]
    <3>1. daily = DailyOf(res) /\ minute = [key \in DOMAIN MinuteOf(res) |-> MinuteOf(res)[key]]
      <4>1. stage[j] = "minute" /\ todo[j] = {} /\ AloneOf(j)
        BY <2>1 DEF AloneInv
      <4> QED BY <4>1 DEF AloneOf
    <3>2. whole' = res /\ daily' = daily /\ minute' = minute
      BY <2>1
    <3>3. ASSUME NEW k \in Jobs PROVE ~Writing(k)'
      <4>1. Active(k) => k = j
        BY <2>1 DEF AloneInv, AloneOf, Active
      <4>2. stage'[j] = "done" /\ (k # j => stage'[k] = stage[k])
        BY DEF Domains
      <4> QED BY <4>1, <4>2 DEF Writing, Active
    <3>4. minute = MinuteOf(res)
      BY <3>1, TablesAreFunctions
    <3> HIDE DEF res
    <3>5. daily' = DailyOf(whole)' /\ minute' = MinuteOf(whole)'
      BY <3>1, <3>2, <3>4 DEF DailyOf, MinuteOf
    <3> QED BY <3>3, <3>5 DEF WholeInv
  <2>2. CASE j \notin alone
    BY <2>2 DEF WholeInv
  <2> QED BY <2>1, <2>2
<1> QED BY <1>1, <1>2, <1>3, <1>4

LEMMA CrashRInv ==
  ASSUME RInv, NEW j \in Jobs, Crash(j)
  PROVE  RInv'
<1> USE DEF Crash, RInv, live, tables
<1>1. Domains'
  BY DEF Domains, Stages
<1>2. AloneInv'
  <2>1. Active(j) /\ UNCHANGED alone /\ stage'[j] \in {"done", "failed"}
        /\ \A k \in Jobs \ {j} : stage'[k] = stage[k]
    BY DEF Active, Domains
  <2>2. AloneOf(j)'
    BY <2>1, EndedAlone
  <2> QED BY <2>1, <2>2, OthersAlone
<1>3. TodoInv'
  BY DEF Domains, TodoInv
<1>4. WholeInv'
  BY DEF Domains, WholeInv, Writing
<1> QED BY <1>1, <1>2, <1>3, <1>4

(***************************************************************************)
(* The archive, the realtime side and the reports touch none of it.        *)
(***************************************************************************)
LEMMA OtherRInv ==
  ASSUME RInv, UNCHANGED <<jobVars, tables>>
  PROVE  RInv'
<1> USE DEF RInv, jobVars, tables
<1>1. Domains'
  BY DEF Domains
<1>2. AloneInv'
  <2>1. ASSUME NEW j \in Jobs, AloneOf(j) PROVE AloneOf(j)'
    BY <2>1 DEF AloneOf, Active
  <2> QED BY <2>1 DEF AloneInv
<1>3. TodoInv'
  BY DEF TodoInv
<1>4. WholeInv'
  BY DEF WholeInv, Writing
<1> QED BY <1>1, <1>2, <1>3, <1>4

LEMMA NextRInv == RInv /\ [Next]_vars => RInv'
<1> SUFFICES ASSUME RInv, [Next]_vars PROVE RInv'
  OBVIOUS
<1>1. CASE UNCHANGED vars
  BY <1>1, OtherRInv DEF vars
<1>2. ASSUME NEW r \in Rows, Archive(r) PROVE RInv'
  BY <1>2, OtherRInv DEF Archive
<1>3. ASSUME NEW e \in Events, CountImpression(e) \/ DropImpression(e) PROVE RInv'
  BY <1>3, OtherRInv DEF CountImpression, DropImpression
<1>4. ASSUME NEW j \in Jobs,
             \/ Start(j) \/ TruncateDaily(j) \/ EndDaily(j)
             \/ TruncateMinute(j) \/ EndMinute(j) \/ Crash(j)
      PROVE  RInv'
  BY <1>4, StartRInv, TruncateDailyRInv, EndDailyRInv, TruncateMinuteRInv, EndMinuteRInv, CrashRInv
<1>5. ASSUME NEW j \in Jobs, NEW part \in SUBSET todo[j],
             InsertDaily(j, part) \/ InsertMinute(j, part) \/ InsertFails(j, part)
      PROVE  RInv'
  BY <1>5, InsertDailyRInv, InsertMinuteRInv, InsertFailsRInv
<1>6. ASSUME NEW s \in session.scopes, ReadRealtime(s) PROVE RInv'
  BY <1>6, OtherRInv DEF ReadRealtime
<1>7. CASE ReadBatch \/ ReadLate \/ LateUnreadable
  BY <1>7, OtherRInv DEF ReadBatch, ReadLate, LateUnreadable
<1> QED BY <1>1, <1>2, <1>3, <1>4, <1>5, <1>6, <1>7 DEF Next

\* Whatever runs overlap, fail or die: a run that is alone has in its table what
\* it inserted, and nothing else (batch_settlement.py:195-237).
THEOREM RInvCorrect == Spec => []RInv
BY InitRInv, NextRInv, PTL DEF Spec

(***************************************************************************)
(* RerunReplaces (batch_settlement.py 194-195): after a run that nobody    *)
(* interfered with, both tables are what the rows it read come to,         *)
(* whatever other runs wrote, half wrote or destroyed before, for any      *)
(* number of them.                                                         *)
(***************************************************************************)
THEOREM RerunIsIdempotent == Spec => []RerunReplaces
<1>1. RInv => RerunReplaces
  BY DEF RInv, WholeInv, RerunReplaces
<1> QED BY <1>1, RInvCorrect, PTL

-----------------------------------------------------------------------------
(* Types: the tables hold counts *)

LEMMA EventsFacts ==
  /\ IsFiniteSet(Events)
  /\ \A S \in SUBSET Events : IsFiniteSet(S) /\ Cardinality(S) \in Nat
  /\ \A R \in SUBSET Rows : IsFiniteSet(R) /\ Cardinality(R) \in Nat
<1>1. IsFiniteSet(Events)
  BY SettlementAssumption, FiniteImage DEF Events
<1> QED BY <1>1, SettlementAssumption, FS_Subset, FS_CardinalityType

\* Whatever rows a run has read, what it counts are events.
LEMMA KindsAreEvents ==
  ASSUME NEW rows \in SUBSET Rows
  PROVE  /\ \A kind : OfKind(rows, kind) \subseteq Events
         /\ AllImpressions(rows) \subseteq Events
         /\ Impressions(rows) \subseteq Events
BY SettlementAssumption DEF OfKind, AllImpressions, Impressions, Deduped, Events

LEMMA CountIsNat ==
  ASSUME NEW es \in SUBSET Events, NEW key, NEW unit
  PROVE  CountAt(es, key, unit) \in Nat
BY EventsFacts DEF CountAt

LEMMA CountsAreNumbers ==
  ASSUME NEW rows \in SUBSET Rows, NEW key, NEW unit
  PROVE  /\ CountAt(Impressions(rows), key, unit) \in Nat
         /\ CountAt(AllImpressions(rows), key, unit) \in Nat
         /\ CountAt(OfKind(rows, "click"), key, unit) \in Nat
         /\ CountAt(OfKind(rows, "complete"), key, unit) \in Nat
         /\ CountAt(OfKind(rows, "response"), key, unit) \in Nat
BY KindsAreEvents, CountIsNat

LEMMA AmountIsNat ==
  ASSUME NEW imps \in Nat, NEW c
  PROVE  Amount(imps, c) \in Nat
<1> DEFINE cpm == IF c \in DOMAIN Rates THEN Rates[c] ELSE 0
<1>1. cpm \in Nat
  BY SettlementAssumption
<1>2. ASSUME NEW n \in Nat, NEW m \in Nat PROVE n * m \in Nat
  BY <1>2
<1>3. imps * cpm \in Nat
  BY <1>1, <1>2
<1>4. ASSUME NEW n \in Nat PROVE (n + 500) \div 1000 \in Nat
  BY <1>4
<1>5. (imps * cpm + 500) \div 1000 \in Nat
  BY <1>3, <1>4
<1> QED BY <1>5 DEF Amount

\* Every impression that is counted once per copy is counted once at least.
LEMMA DuplicatesAreNat ==
  ASSUME NEW rows \in SUBSET Rows, NEW key
  PROVE  Duplicates(rows, key) \in Nat
<1> DEFINE R == {r \in rows : EventOf[r] \in AllImpressions(rows) /\ Key(EventOf[r], Day) = key}
           E == {e \in AllImpressions(rows) : Key(e, Day) = key}
<1>1. R \in SUBSET Rows /\ E \in SUBSET Events
  BY KindsAreEvents
<1>2. IsFiniteSet(R) /\ Cardinality(R) \in Nat /\ Cardinality(E) \in Nat
  BY <1>1, EventsFacts
<1>3. E \subseteq {EventOf[r] : r \in R}
  BY DEF AllImpressions, OfKind, Deduped
<1>4. IsFiniteSet({EventOf[r] : r \in R}) /\ Cardinality({EventOf[r] : r \in R}) <= Cardinality(R)
  BY <1>2, FiniteImage
<1>5. Cardinality(E) <= Cardinality({EventOf[r] : r \in R}) /\ Cardinality({EventOf[r] : r \in R}) \in Nat
  BY <1>3, <1>4, FS_Subset, FS_CardinalityType
<1> QED BY <1>2, <1>4, <1>5 DEF Duplicates, CountAt

LEMMA DailyRowType ==
  ASSUME NEW res, res.rows \subseteq Rows, NEW key \in DOMAIN DailyOf(res)
  PROVE  DailyOf(res)[key] \in DailyRow
<1> DEFINE of == Counts(res.rows, key, Day)
           late == CountAt(Impressions(res.rows) \cap res.late, key, Day)
<1>1. /\ of.impressions \in Nat /\ of.raw \in Nat /\ of.clicks \in Nat
      /\ of.completes \in Nat /\ of.requests \in Nat
  BY CountsAreNumbers DEF Counts
<1>2. late \in Nat
  BY KindsAreEvents, CountIsNat
<1>3. Duplicates(res.rows, key) \in Nat /\ Amount(of.impressions, key[2]) \in Nat
  BY <1>1, DuplicatesAreNat, AmountIsNat
<1>4. DailyOf(res)[key] =
        [impressions |-> of.impressions, raw |-> of.raw, clicks |-> of.clicks,
         completes |-> of.completes, requests |-> of.requests,
         dupes_removed |-> Duplicates(res.rows, key), late |-> late,
         amount |-> Amount(of.impressions, key[2])]
  BY DEF DailyOf
<1> HIDE DEF of, late
<1> QED BY <1>1, <1>2, <1>3, <1>4 DEF DailyRow

LEMMA MinuteRowType ==
  ASSUME NEW res, res.rows \subseteq Rows, NEW key \in DOMAIN MinuteOf(res)
  PROVE  MinuteOf(res)[key] \in MinuteRow
<1>1. MinuteOf(res)[key] = Counts(res.rows, key, 1)
  BY DEF MinuteOf
<1> QED BY <1>1, CountsAreNumbers DEF Counts, MinuteRow

LEMMA InitType == Init => TypeOK
BY SettlementAssumption DEF Init, TypeOK, Stages, Empty, Nothing

LEMMA NextType ==
  TypeOK /\ RInv /\ [Next]_vars => TypeOK'
<1> SUFFICES ASSUME TypeOK, RInv, [Next]_vars PROVE TypeOK'
  OBVIOUS
<1> USE DEF TypeOK, live, tables, jobVars
<1>1. /\ stage \in [Jobs -> Stages] /\ DOMAIN result = Jobs
      /\ \A j \in Jobs : result[j].rows \subseteq Rows
  BY DEF RInv, Domains
<1>2. CASE UNCHANGED vars
  BY <1>2 DEF vars
<1>3. ASSUME NEW r \in Rows, Archive(r) PROVE TypeOK'
  <2>1. \A j \in Jobs : result'[j] = result[j] /\ archived \subseteq archived'
    BY <1>3 DEF Archive
  <2> QED BY <1>3, <2>1 DEF Archive
<1>4. ASSUME NEW e \in Events, CountImpression(e) \/ DropImpression(e) PROVE TypeOK'
  BY <1>4 DEF CountImpression, DropImpression
<1>5. ASSUME NEW j \in Jobs, Start(j) PROVE TypeOK'
  <2>1. PICK late \in LateChoices(archived) :
          result' = [result EXCEPT ![j] = [rows |-> archived, late |-> late]]
    BY <1>5 DEF Start
  <2>2. late \subseteq Events
    BY DEF LateChoices, Events
  <2>3. \A k \in Jobs : result'[k].rows \subseteq archived /\ result'[k].late \subseteq Events
    BY <1>1, <2>1, <2>2
  <2>4. stage' \in [Jobs -> Stages] /\ alone' \subseteq Jobs
    BY <1>5 DEF Start, Stages
  <2> QED BY <1>5, <2>3, <2>4 DEF Start
<1>6. ASSUME NEW j \in Jobs,
             \/ TruncateDaily(j) \/ EndDaily(j) \/ TruncateMinute(j)
             \/ EndMinute(j) \/ Crash(j)
      PROVE  TypeOK'
  <2>1. stage' \in [Jobs -> Stages]
    BY <1>6 DEF TruncateDaily, EndDaily, TruncateMinute, EndMinute, Crash, Stages
  <2>2. UNCHANGED <<session, archived, counted, dropped, result, alone>> /\ faults' \in 0..MaxFaults
    BY <1>6, SettlementAssumption DEF TruncateDaily, EndDaily, TruncateMinute, EndMinute, Crash, Fault
  <2>3. (daily' = daily \/ daily' = Empty) /\ (minute' = minute \/ minute' = Empty)
    BY <1>6 DEF TruncateDaily, EndDaily, TruncateMinute, EndMinute, Crash
  <2>4. DOMAIN Empty = {}
    BY DEF Empty
  <2> QED BY <2>1, <2>2, <2>3, <2>4
<1>7. ASSUME NEW j \in Jobs, NEW part \in SUBSET todo[j], InsertDaily(j, part) PROVE TypeOK'
  <2>1. daily' = Inserted(daily, DailyOf(result[j]), part) /\ part \subseteq DOMAIN DailyOf(result[j])
    BY <1>7 DEF InsertDaily, RInv, TodoInv
  <2>2. \A key \in part : DailyOf(result[j])[key] \in DailyRow
    BY <1>1, <2>1, DailyRowType
  <2>3. \A key \in DOMAIN daily' : daily'[key] \in DailyRow
    BY <2>1, <2>2 DEF Inserted
  <2> QED BY <1>7, <2>3 DEF InsertDaily
<1>8. ASSUME NEW j \in Jobs, NEW part \in SUBSET todo[j], InsertMinute(j, part) PROVE TypeOK'
  <2>1. minute' = Inserted(minute, MinuteOf(result[j]), part) /\ part \subseteq DOMAIN MinuteOf(result[j])
    BY <1>8 DEF InsertMinute, RInv, TodoInv
  <2>2. \A key \in part : MinuteOf(result[j])[key] \in MinuteRow
    BY <1>1, <2>1, MinuteRowType
  <2>3. \A key \in DOMAIN minute' : minute'[key] \in MinuteRow
    BY <2>1, <2>2 DEF Inserted
  <2> QED BY <1>8, <2>3 DEF InsertMinute
<1>9. ASSUME NEW j \in Jobs, NEW part \in SUBSET todo[j], InsertFails(j, part) PROVE TypeOK'
  <2>1. stage' \in [Jobs -> Stages]
    BY <1>9 DEF InsertFails, Stages
  <2> QED BY <1>9, <2>1 DEF InsertFails
<1>10. ASSUME NEW s \in session.scopes, ReadRealtime(s) PROVE TypeOK'
  BY <1>10 DEF ReadRealtime
<1>11. CASE ReadBatch \/ ReadLate \/ LateUnreadable
  BY <1>11, SettlementAssumption DEF ReadBatch, ReadLate, LateUnreadable, Fault
<1> QED BY <1>2, <1>3, <1>4, <1>5, <1>6, <1>7, <1>8, <1>9, <1>10, <1>11 DEF Next

(***************************************************************************)
(* The tables hold counts, and no column of differences is negative, in    *)
(* every state of every run (batch_settlement.py 145-232).                 *)
(***************************************************************************)
THEOREM SettlementTypeCorrect == Spec => []TypeOK
<1>1. TypeOK /\ RInv /\ [Next]_vars => TypeOK'
  BY NextType
<1> QED BY InitType, <1>1, RInvCorrect, PTL DEF Spec

-----------------------------------------------------------------------------
(* Runs that overlap                                                       *)

\* What is in the table under a key of rows, rest left out, is of rows.
Kept(table, rows, rest) ==
  \A key \in DOMAIN rows \ rest : key \in DOMAIN table /\ table[key] = rows[key]

(***************************************************************************)
(* The run that emptied a table last: what it has inserted so far is       *)
(* there, since no insert writes over another (the primary key).           *)
(***************************************************************************)
DailyOwner(j) ==
  /\ stage[j] \notin {"new", "read"}
  /\ stage[j] = "daily" => Kept(daily, DailyOf(result[j]), todo[j])
  /\ stage[j] \in {"between", "minute", "done"} => Kept(daily, DailyOf(result[j]), {})

MinuteOwner(j) ==
  /\ stage[j] \in {"minute", "done", "failed"}
  /\ stage[j] = "minute" => Kept(minute, MinuteOf(result[j]), todo[j])
  /\ stage[j] = "done" => Kept(minute, MinuteOf(result[j]), {})

\* A table has only keys some run came to, and an owner once a run began it.
OwnerInv ==
  /\ \A key \in DOMAIN daily :
       \E j \in Jobs : stage[j] # "new" /\ key \in DOMAIN DailyOf(result[j])
  /\ \A key \in DOMAIN minute :
       \E j \in Jobs : stage[j] # "new" /\ key \in DOMAIN MinuteOf(result[j])
  /\ (\E j \in Jobs : stage[j] \notin {"new", "read"}) => \E j \in Jobs : DailyOwner(j)
  /\ (\E j \in Jobs : stage[j] \in {"minute", "done", "failed"}) => \E j \in Jobs : MinuteOwner(j)
  /\ \A j \in Jobs : stage[j] # "new" => j \in session.runs
  /\ session.runs \subseteq Jobs /\ session.runs # {}

LEMMA InitOwner == Init => OwnerInv
<1> SUFFICES ASSUME Init PROVE OwnerInv
  OBVIOUS
<1>1. session.runs \subseteq Jobs /\ session.runs # {}
  BY SettlementAssumption DEF Init
<1>2. DOMAIN daily = {} /\ DOMAIN minute = {} /\ \A j \in Jobs : stage[j] = "new"
  BY DEF Init, Empty
<1> QED BY <1>1, <1>2 DEF OwnerInv

TablesInv ==
  /\ daily = [key \in DOMAIN daily |-> daily[key]]
  /\ minute = [key \in DOMAIN minute |-> minute[key]]

\* What the actions write is a table.
LEMMA TablesCorrect == Spec => []TablesInv
<1>1. Init => TablesInv
  BY DEF Init, TablesInv, Empty
<1>2. TablesInv /\ [Next]_vars => TablesInv'
  <2> SUFFICES ASSUME TablesInv, [Next]_vars PROVE TablesInv'
    OBVIOUS
  <2>1. Empty = [key \in DOMAIN Empty |-> Empty[key]]
    BY DEF Empty
  <2>2. ASSUME NEW table, NEW rows, NEW part
        PROVE  Inserted(table, rows, part)
                 = [key \in DOMAIN Inserted(table, rows, part) |-> Inserted(table, rows, part)[key]]
    BY DEF Inserted
  <2>3. daily' = daily \/ daily' = Empty \/ \E rows, part : daily' = Inserted(daily, rows, part)
    BY DEF Next, Archive, CountImpression, DropImpression, Start, TruncateDaily, EndDaily,
           TruncateMinute, EndMinute, Crash, InsertDaily, InsertMinute, InsertFails,
           ReadRealtime, ReadBatch, ReadLate, LateUnreadable, vars, tables
  <2>4. minute' = minute \/ minute' = Empty \/ \E rows, part : minute' = Inserted(minute, rows, part)
    BY DEF Next, Archive, CountImpression, DropImpression, Start, TruncateDaily, EndDaily,
           TruncateMinute, EndMinute, Crash, InsertDaily, InsertMinute, InsertFails,
           ReadRealtime, ReadBatch, ReadLate, LateUnreadable, vars, tables
  <2>5. daily' = [key \in DOMAIN daily' |-> daily'[key]]
    BY <2>1, <2>2, <2>3 DEF TablesInv
  <2>6. minute' = [key \in DOMAIN minute' |-> minute'[key]]
    BY <2>1, <2>2, <2>4 DEF TablesInv
  <2> QED BY <2>5, <2>6 DEF TablesInv
<1> QED BY <1>1, <1>2, PTL DEF Spec

\* A step that leaves the tables and the other runs alone, and every owner of
\* a table as it was.
LEMMA OwnerKept ==
  ASSUME OwnerInv, RInv, session' = session, daily' = daily, minute' = minute,
         NEW j \in Jobs, stage[j] # "new", result' = result,
         \A k \in Jobs \ {j} : stage'[k] = stage[k] /\ todo'[k] = todo[k],
         stage'[j] \notin {"new", "read"},
         DailyOwner(j)' \/ ((DailyOwner(j) => DailyOwner(j)') /\ stage[j] # "read"),
         MinuteOwner(j)' \/ ((MinuteOwner(j) => MinuteOwner(j)') /\ stage'[j] \notin {"minute", "done", "failed"})
  PROVE  OwnerInv'
<1>1. \A k \in Jobs \ {j} : (DailyOwner(k) => DailyOwner(k)') /\ (MinuteOwner(k) => MinuteOwner(k)')
  BY DEF DailyOwner, MinuteOwner, Kept
<1>2. \A key \in DOMAIN daily' : \E k \in Jobs : stage'[k] # "new" /\ key \in DOMAIN DailyOf(result'[k])
  BY DEF OwnerInv
<1>3. \A key \in DOMAIN minute' : \E k \in Jobs : stage'[k] # "new" /\ key \in DOMAIN MinuteOf(result'[k])
  BY DEF OwnerInv
<1>4. \E k \in Jobs : DailyOwner(k)'
  BY <1>1 DEF OwnerInv
<1>5. (\E k \in Jobs : stage'[k] \in {"minute", "done", "failed"}) => \E k \in Jobs : MinuteOwner(k)'
  BY <1>1 DEF OwnerInv
<1>6. \A k \in Jobs : stage'[k] # "new" => k \in session'.runs
  BY DEF OwnerInv
<1>7. session'.runs \subseteq Jobs /\ session'.runs # {}
  BY DEF OwnerInv
<1> QED BY <1>2, <1>3, <1>4, <1>5, <1>6, <1>7 DEF OwnerInv

LEMMA StartOwner ==
  ASSUME OwnerInv, RInv, NEW j \in Jobs, Start(j) PROVE OwnerInv'
<1>1. /\ stage[j] = "new" /\ stage' = [stage EXCEPT ![j] = "read"] /\ j \in session.runs
      /\ UNCHANGED <<session, todo, daily, minute>>
      /\ \A k \in Jobs \ {j} : stage'[k] = stage[k] /\ result'[k] = result[k]
      /\ stage'[j] = "read"
  BY DEF Start, live, tables, RInv, Domains
<1>2. \A k \in Jobs : (DailyOwner(k) => DailyOwner(k)') /\ (MinuteOwner(k) => MinuteOwner(k)')
  BY <1>1 DEF DailyOwner, MinuteOwner
<1>3. \A key \in DOMAIN daily' : \E k \in Jobs : stage'[k] # "new" /\ key \in DOMAIN DailyOf(result'[k])
  BY <1>1 DEF OwnerInv
<1>4. \A key \in DOMAIN minute' : \E k \in Jobs : stage'[k] # "new" /\ key \in DOMAIN MinuteOf(result'[k])
  BY <1>1 DEF OwnerInv
<1>5. (\E k \in Jobs : stage'[k] \notin {"new", "read"}) => \E k \in Jobs : DailyOwner(k)'
  BY <1>1, <1>2 DEF OwnerInv
<1>6. (\E k \in Jobs : stage'[k] \in {"minute", "done", "failed"}) => \E k \in Jobs : MinuteOwner(k)'
  BY <1>1, <1>2 DEF OwnerInv
<1>7. (\A k \in Jobs : stage'[k] # "new" => k \in session'.runs)
      /\ session'.runs \subseteq Jobs /\ session'.runs # {}
  BY <1>1 DEF OwnerInv
<1> QED BY <1>3, <1>4, <1>5, <1>6, <1>7 DEF OwnerInv

LEMMA TruncateDailyOwner ==
  ASSUME OwnerInv, RInv, NEW j \in Jobs, TruncateDaily(j) PROVE OwnerInv'
<1>1. /\ stage[j] = "read" /\ UNCHANGED <<session, result, minute>> /\ daily' = Empty
      /\ \A k \in Jobs \ {j} : stage'[k] = stage[k] /\ todo'[k] = todo[k]
      /\ stage'[j] = "daily" /\ todo'[j] = DOMAIN DailyOf(result[j])
  BY DEF TruncateDaily, live, RInv, Domains
<1>2. \A k \in Jobs : MinuteOwner(k) => MinuteOwner(k)'
  BY <1>1 DEF MinuteOwner
<1>3. DailyOwner(j)'
  BY <1>1 DEF DailyOwner, Kept
<1>4. DOMAIN daily' = {}
  BY <1>1 DEF Empty
<1>5. \A key \in DOMAIN minute' : \E k \in Jobs : stage'[k] # "new" /\ key \in DOMAIN MinuteOf(result'[k])
  BY <1>1 DEF OwnerInv
<1>6. (\E k \in Jobs : stage'[k] \in {"minute", "done", "failed"}) => \E k \in Jobs : MinuteOwner(k)'
  BY <1>1, <1>2 DEF OwnerInv
<1>7. (\A k \in Jobs : stage'[k] # "new" => k \in session'.runs)
      /\ session'.runs \subseteq Jobs /\ session'.runs # {}
  BY <1>1 DEF OwnerInv
<1> QED BY <1>3, <1>4, <1>5, <1>6, <1>7 DEF OwnerInv

LEMMA TruncateMinuteOwner ==
  ASSUME OwnerInv, RInv, NEW j \in Jobs, TruncateMinute(j) PROVE OwnerInv'
<1>1. /\ stage[j] = "between" /\ UNCHANGED <<session, result, daily>> /\ minute' = Empty
      /\ \A k \in Jobs \ {j} : stage'[k] = stage[k] /\ todo'[k] = todo[k]
      /\ stage'[j] = "minute" /\ todo'[j] = DOMAIN MinuteOf(result[j])
  BY DEF TruncateMinute, live, RInv, Domains
<1>2. \A k \in Jobs : DailyOwner(k) => DailyOwner(k)'
  BY <1>1 DEF DailyOwner
<1>3. MinuteOwner(j)'
  BY <1>1 DEF MinuteOwner, Kept
<1>4. DOMAIN minute' = {}
  BY <1>1 DEF Empty
<1>5. \A key \in DOMAIN daily' : \E k \in Jobs : stage'[k] # "new" /\ key \in DOMAIN DailyOf(result'[k])
  BY <1>1 DEF OwnerInv
<1>6. \E k \in Jobs : DailyOwner(k)'
  BY <1>1, <1>2 DEF OwnerInv
<1>7. (\A k \in Jobs : stage'[k] # "new" => k \in session'.runs)
      /\ session'.runs \subseteq Jobs /\ session'.runs # {}
  BY <1>1 DEF OwnerInv
<1> QED BY <1>3, <1>4, <1>5, <1>6, <1>7 DEF OwnerInv

LEMMA InsertDailyOwner ==
  ASSUME OwnerInv, RInv, NEW j \in Jobs, NEW part \in SUBSET todo[j], InsertDaily(j, part)
  PROVE  OwnerInv'
<1>1. /\ stage[j] = "daily" /\ UNCHANGED <<session, stage, result, minute>>
      /\ ~Conflict(daily, part) /\ daily' = Inserted(daily, DailyOf(result[j]), part)
      /\ \A k \in Jobs \ {j} : todo'[k] = todo[k]
      /\ todo'[j] = todo[j] \ part /\ part \subseteq DOMAIN DailyOf(result[j])
  BY DEF InsertDaily, live, RInv, Domains, TodoInv
<1>2. /\ \A key \in DOMAIN daily : key \in DOMAIN daily' /\ daily'[key] = daily[key]
      /\ \A key \in part : key \in DOMAIN daily' /\ daily'[key] = DailyOf(result[j])[key]
      /\ DOMAIN daily' = DOMAIN daily \cup part
  BY <1>1 DEF Inserted, Conflict
<1>3. \A k \in Jobs : MinuteOwner(k) => MinuteOwner(k)'
  BY <1>1 DEF MinuteOwner
<1>4. ASSUME NEW k \in Jobs, DailyOwner(k) PROVE DailyOwner(k)'
  <2>1. \A rest : Kept(daily, DailyOf(result[k]), rest) => Kept(daily', DailyOf(result[k]), rest)
    BY <1>2 DEF Kept
  <2>2. CASE k = j
    <3>1. Kept(daily', DailyOf(result[j]), todo[j] \ part)
      BY <1>1, <1>2, <1>4, <2>2 DEF DailyOwner, Kept
    <3> QED BY <1>1, <2>2, <3>1 DEF DailyOwner
  <2>3. CASE k # j
    BY <1>1, <1>4, <2>1, <2>3 DEF DailyOwner
  <2> QED BY <2>2, <2>3
<1>5. \A key \in DOMAIN daily' : \E k \in Jobs : stage'[k] # "new" /\ key \in DOMAIN DailyOf(result'[k])
  BY <1>1, <1>2 DEF OwnerInv
<1>6. \A key \in DOMAIN minute' : \E k \in Jobs : stage'[k] # "new" /\ key \in DOMAIN MinuteOf(result'[k])
  BY <1>1 DEF OwnerInv
<1>7. \E k \in Jobs : DailyOwner(k)'
  BY <1>1, <1>4 DEF OwnerInv
<1>8. (\E k \in Jobs : stage'[k] \in {"minute", "done", "failed"}) => \E k \in Jobs : MinuteOwner(k)'
  BY <1>1, <1>3 DEF OwnerInv
<1>9. (\A k \in Jobs : stage'[k] # "new" => k \in session'.runs)
      /\ session'.runs \subseteq Jobs /\ session'.runs # {}
  BY <1>1 DEF OwnerInv
<1> QED BY <1>5, <1>6, <1>7, <1>8, <1>9 DEF OwnerInv

LEMMA InsertMinuteOwner ==
  ASSUME OwnerInv, RInv, NEW j \in Jobs, NEW part \in SUBSET todo[j], InsertMinute(j, part)
  PROVE  OwnerInv'
<1>1. /\ stage[j] = "minute" /\ UNCHANGED <<session, stage, result, daily>>
      /\ ~Conflict(minute, part) /\ minute' = Inserted(minute, MinuteOf(result[j]), part)
      /\ \A k \in Jobs \ {j} : todo'[k] = todo[k]
      /\ todo'[j] = todo[j] \ part /\ part \subseteq DOMAIN MinuteOf(result[j])
  BY DEF InsertMinute, live, RInv, Domains, TodoInv
<1>2. /\ \A key \in DOMAIN minute : key \in DOMAIN minute' /\ minute'[key] = minute[key]
      /\ \A key \in part : key \in DOMAIN minute' /\ minute'[key] = MinuteOf(result[j])[key]
      /\ DOMAIN minute' = DOMAIN minute \cup part
  BY <1>1 DEF Inserted, Conflict
<1>3. ASSUME NEW k \in Jobs, DailyOwner(k) PROVE DailyOwner(k)'
  BY <1>1, <1>3 DEF DailyOwner
<1>4. ASSUME NEW k \in Jobs, MinuteOwner(k) PROVE MinuteOwner(k)'
  <2>1. \A rest : Kept(minute, MinuteOf(result[k]), rest) => Kept(minute', MinuteOf(result[k]), rest)
    BY <1>2 DEF Kept
  <2>2. CASE k = j
    <3>1. Kept(minute', MinuteOf(result[j]), todo[j] \ part)
      BY <1>1, <1>2, <1>4, <2>2 DEF MinuteOwner, Kept
    <3> QED BY <1>1, <2>2, <3>1 DEF MinuteOwner
  <2>3. CASE k # j
    BY <1>1, <1>4, <2>1, <2>3 DEF MinuteOwner
  <2> QED BY <2>2, <2>3
<1>5. \A key \in DOMAIN minute' : \E k \in Jobs : stage'[k] # "new" /\ key \in DOMAIN MinuteOf(result'[k])
  BY <1>1, <1>2 DEF OwnerInv
<1>6. \A key \in DOMAIN daily' : \E k \in Jobs : stage'[k] # "new" /\ key \in DOMAIN DailyOf(result'[k])
  BY <1>1 DEF OwnerInv
<1>7. \E k \in Jobs : DailyOwner(k)'
  BY <1>1, <1>3 DEF OwnerInv
<1>8. \E k \in Jobs : MinuteOwner(k)'
  BY <1>1, <1>4 DEF OwnerInv
<1>9. (\A k \in Jobs : stage'[k] # "new" => k \in session'.runs)
      /\ session'.runs \subseteq Jobs /\ session'.runs # {}
  BY <1>1 DEF OwnerInv
<1> QED BY <1>5, <1>6, <1>7, <1>8, <1>9 DEF OwnerInv

LEMMA NextOwner == OwnerInv /\ RInv /\ [Next]_vars => OwnerInv'
<1> SUFFICES ASSUME OwnerInv, RInv, [Next]_vars PROVE OwnerInv'
  OBVIOUS
<1>1. ASSUME UNCHANGED <<session, jobVars, tables>> PROVE OwnerInv'
  BY <1>1 DEF jobVars, tables, OwnerInv, DailyOwner, MinuteOwner, Kept
<1>2. ASSUME NEW r \in Rows, Archive(r) PROVE OwnerInv'
  BY <1>1, <1>2 DEF Archive
<1>3. ASSUME NEW e \in Events, CountImpression(e) \/ DropImpression(e) PROVE OwnerInv'
  BY <1>1, <1>3 DEF CountImpression, DropImpression
<1>4. ASSUME NEW j \in Jobs, EndDaily(j) PROVE OwnerInv'
  <2>1. /\ stage[j] = "daily" /\ todo[j] = {} /\ UNCHANGED <<session, result, daily, minute, todo>>
        /\ \A k \in Jobs \ {j} : stage'[k] = stage[k]
        /\ stage'[j] = "between"
    BY <1>4 DEF EndDaily, live, tables, RInv, Domains
  <2>2. DailyOwner(j) => DailyOwner(j)'
    BY <2>1 DEF DailyOwner
  <2>3. MinuteOwner(j) => MinuteOwner(j)'
    BY <2>1 DEF MinuteOwner
  <2> QED BY <2>1, <2>2, <2>3, OwnerKept
<1>5. ASSUME NEW j \in Jobs, EndMinute(j) PROVE OwnerInv'
  <2>1. /\ stage[j] = "minute" /\ todo[j] = {} /\ UNCHANGED <<session, result, daily, minute, todo>>
        /\ \A k \in Jobs \ {j} : stage'[k] = stage[k]
        /\ stage'[j] = "done"
    BY <1>5 DEF EndMinute, live, RInv, Domains
  <2>2. \A k \in Jobs : (DailyOwner(k) => DailyOwner(k)') /\ (MinuteOwner(k) => MinuteOwner(k)')
    BY <2>1 DEF DailyOwner, MinuteOwner
  <2> QED BY <2>1, <2>2 DEF OwnerInv
<1>6. ASSUME NEW j \in Jobs, stage'[j] = "failed", stage[j] # "new",
             UNCHANGED <<session, result, todo, daily, minute>>,
             \A k \in Jobs \ {j} : stage'[k] = stage[k]
      PROVE  OwnerInv'
  <2>1. DailyOwner(j)' /\ MinuteOwner(j)'
    BY <1>6 DEF DailyOwner, MinuteOwner
  <2> QED BY <1>6, <2>1, OwnerKept
<1>7. ASSUME NEW j \in Jobs, Crash(j) PROVE OwnerInv'
  BY <1>6, <1>7 DEF Crash, Active, live, tables, RInv, Domains
<1>8. ASSUME NEW j \in Jobs, NEW part \in SUBSET todo[j], InsertFails(j, part) PROVE OwnerInv'
  BY <1>6, <1>8 DEF InsertFails, live, tables, RInv, Domains
<1>9. ASSUME NEW s \in session.scopes, ReadRealtime(s) PROVE OwnerInv'
  BY <1>1, <1>9 DEF ReadRealtime, live
<1>10. CASE ReadBatch \/ ReadLate \/ LateUnreadable
  BY <1>1, <1>10 DEF ReadBatch, ReadLate, LateUnreadable, live
<1>11. CASE UNCHANGED vars
  BY <1>1, <1>11 DEF vars, live
<1>12. ASSUME NEW j \in Jobs, Start(j) \/ TruncateDaily(j) \/ TruncateMinute(j) PROVE OwnerInv'
  BY <1>12, StartOwner, TruncateDailyOwner, TruncateMinuteOwner
<1>13. ASSUME NEW j \in Jobs, NEW part \in SUBSET todo[j],
              InsertDaily(j, part) \/ InsertMinute(j, part)
       PROVE  OwnerInv'
  BY <1>13, InsertDailyOwner, InsertMinuteOwner
<1> QED BY <1>2, <1>3, <1>4, <1>5, <1>7, <1>8, <1>9, <1>10, <1>11, <1>12, <1>13 DEF Next

(***************************************************************************)
(* Only the primary keys keep two runs of the batch apart                  *)
(* (batch_settlement.py 194-232, write_jdbc), and they are enough for any  *)
(* number of runs that came to the same keys and all succeed: the run that *)
(* emptied a table last found none of its keys taken, so all the rows are  *)
(* its own.                                                                *)
(***************************************************************************)
THEOREM OverlappingRunsLeaveOneTable == Spec => []OneRunPerTable
<1>1. ASSUME RInv, OwnerInv, \A j \in session.runs : stage[j] = "done"
      PROVE  \A j \in Jobs : j \in session.runs <=> stage[j] # "new"
  BY <1>1 DEF OwnerInv
<1>2. RInv /\ OwnerInv /\ TablesInv => OneRunPerTable
  <2> SUFFICES ASSUME RInv, OwnerInv, TablesInv, \A j \in session.runs : stage[j] = "done"
               PROVE  /\ OneRun(daily, [j \in session.runs |-> DailyOf(result[j])])
                      /\ OneRun(minute, [j \in session.runs |-> MinuteOf(result[j])])
    BY DEF OneRunPerTable
  <2>1. \A j \in Jobs : j \in session.runs <=> stage[j] # "new"
    BY <1>1
  <2>2. session.runs \subseteq Jobs /\ session.runs # {}
    BY DEF OwnerInv
  <2>3. ASSUME \A j, k \in session.runs : DOMAIN DailyOf(result[j]) = DOMAIN DailyOf(result[k])
        PROVE  \E j \in session.runs : daily = DailyOf(result[j])
    <3>1. PICK j \in Jobs : DailyOwner(j)
      BY <2>1, <2>2 DEF OwnerInv
    <3>2. j \in session.runs /\ Kept(daily, DailyOf(result[j]), {})
      BY <2>1, <3>1 DEF DailyOwner
    <3>3. \A key \in DOMAIN daily : key \in DOMAIN DailyOf(result[j])
      BY <2>1, <2>3, <3>2 DEF OwnerInv
    <3>4. DOMAIN daily = DOMAIN DailyOf(result[j])
          /\ \A key \in DOMAIN daily : daily[key] = DailyOf(result[j])[key]
      BY <3>2, <3>3 DEF Kept
    <3>5. daily = [key \in DOMAIN daily |-> daily[key]]
      BY DEF TablesInv
    <3> QED BY <3>2, <3>4, <3>5, TablesAreFunctions
  <2>4. ASSUME \A j, k \in session.runs : DOMAIN MinuteOf(result[j]) = DOMAIN MinuteOf(result[k])
        PROVE  \E j \in session.runs : minute = MinuteOf(result[j])
    <3>1. PICK j \in Jobs : MinuteOwner(j)
      BY <2>1, <2>2 DEF OwnerInv
    <3>2. j \in session.runs /\ Kept(minute, MinuteOf(result[j]), {})
      BY <2>1, <3>1 DEF MinuteOwner
    <3>3. \A key \in DOMAIN minute : key \in DOMAIN MinuteOf(result[j])
      BY <2>1, <2>4, <3>2 DEF OwnerInv
    <3>4. DOMAIN minute = DOMAIN MinuteOf(result[j])
          /\ \A key \in DOMAIN minute : minute[key] = MinuteOf(result[j])[key]
      BY <3>2, <3>3 DEF Kept
    <3>5. minute = [key \in DOMAIN minute |-> minute[key]]
      BY DEF TablesInv
    <3> QED BY <3>2, <3>4, <3>5, TablesAreFunctions
  <2> QED BY <2>3, <2>4 DEF OneRun
<1>3. OwnerInv /\ RInv /\ [Next]_vars => OwnerInv'
  BY NextOwner
<1> QED BY InitOwner, <1>2, <1>3, RInvCorrect, TablesCorrect, PTL DEF Spec

-----------------------------------------------------------------------------
(* The two tables of one result                                            *)

\* The result the tables hold came from rows of the archive.
WholeRows == whole.rows \subseteq Rows

LEMMA WholeRowsCorrect == Spec => []WholeRows
<1>1. Init => WholeRows
  BY DEF Init, WholeRows, Nothing
<1>2. TypeOK /\ RInv /\ WholeRows /\ [Next]_vars => WholeRows'
  <2> SUFFICES ASSUME TypeOK, RInv, WholeRows, [Next]_vars PROVE WholeRows'
    OBVIOUS
  <2>1. whole' = whole \/ whole' = Nothing \/ \E j \in Jobs : whole' = result[j]
    BY DEF Next, Archive, CountImpression, DropImpression, Start, TruncateDaily, EndDaily,
           TruncateMinute, EndMinute, Crash, InsertDaily, InsertMinute, InsertFails,
           ReadRealtime, ReadBatch, ReadLate, LateUnreadable, vars, tables
  <2>2. Nothing.rows = {}
    BY DEF Nothing
  <2>3. \A j \in Jobs : result[j].rows \subseteq Rows
    BY DEF TypeOK
  <2> QED BY <2>1, <2>2, <2>3 DEF WholeRows
<1> QED BY <1>1, <1>2, SettlementTypeCorrect, RInvCorrect, PTL DEF Spec

\* The columns both tables have, and the events each of them counts.
Columns == {"impressions", "raw", "clicks", "completes", "requests"}

CountedIn(rows, field) ==
  IF field = "impressions" THEN Impressions(rows)
  ELSE IF field = "raw" THEN AllImpressions(rows)
  ELSE IF field = "clicks" THEN OfKind(rows, "click")
  ELSE IF field = "completes" THEN OfKind(rows, "complete")
  ELSE OfKind(rows, "response")

LEMMA ColumnsCount ==
  ASSUME NEW rows, NEW key, NEW unit, NEW field \in Columns
  PROVE  Counts(rows, key, unit)[field] = CountAt(CountedIn(rows, field), key, unit)
<1>1. CASE field = "impressions"
  BY <1>1 DEF Counts, CountedIn
<1>2. CASE field = "raw"
  BY <1>2 DEF Counts, CountedIn
<1>3. CASE field = "clicks"
  BY <1>3 DEF Counts, CountedIn
<1>4. CASE field = "completes"
  BY <1>4 DEF Counts, CountedIn
<1>5. CASE field = "requests"
  BY <1>5 DEF Counts, CountedIn
<1> QED BY <1>1, <1>2, <1>3, <1>4, <1>5 DEF Columns

LEMMA ColumnsAreEvents ==
  ASSUME NEW rows \in SUBSET Rows, NEW field \in Columns
  PROVE  /\ CountedIn(rows, field) \subseteq Events
         /\ \A e \in CountedIn(rows, field) : Key(e, 1) \in MinuteKeys(rows)
<1>1. Impressions(rows) \subseteq AllImpressions(rows) /\ AllImpressions(rows) = OfKind(rows, "impression")
  BY DEF Impressions, AllImpressions
<1>2. CountedIn(rows, field) \subseteq
        UNION {OfKind(rows, k) : k \in {"impression", "click", "complete", "response"}}
  BY <1>1 DEF CountedIn
<1>3. CountedIn(rows, field) \subseteq Events
  BY KindsAreEvents DEF CountedIn
<1> QED BY <1>2, <1>3 DEF MinuteKeys, Keys

\* The rows of both tables, column by column.
LEMMA TableColumns ==
  ASSUME NEW res, NEW field \in Columns
  PROVE  /\ \A key \in DOMAIN DailyOf(res) :
              DailyOf(res)[key][field] = CountAt(CountedIn(res.rows, field), key, Day)
         /\ \A key \in DOMAIN MinuteOf(res) :
              MinuteOf(res)[key][field] = CountAt(CountedIn(res.rows, field), key, 1)
<1>1. ASSUME NEW key \in DOMAIN MinuteOf(res)
      PROVE  MinuteOf(res)[key][field] = CountAt(CountedIn(res.rows, field), key, 1)
  <2>1. MinuteOf(res)[key] = Counts(res.rows, key, 1)
    BY DEF MinuteOf
  <2> QED BY <2>1, ColumnsCount
<1>2. ASSUME NEW key \in DOMAIN DailyOf(res)
      PROVE  DailyOf(res)[key][field] = CountAt(CountedIn(res.rows, field), key, Day)
  <2> DEFINE of == Counts(res.rows, key, Day)
  <2>1. DailyOf(res)[key] =
          [impressions |-> of.impressions, raw |-> of.raw, clicks |-> of.clicks,
           completes |-> of.completes, requests |-> of.requests,
           dupes_removed |-> Duplicates(res.rows, key),
           late |-> CountAt(Impressions(res.rows) \cap res.late, key, Day),
           amount |-> Amount(of.impressions, key[2])]
    BY DEF DailyOf
  <2>2. of[field] = CountAt(CountedIn(res.rows, field), key, Day)
    BY ColumnsCount
  <2> HIDE DEF of
  <2>3. DailyOf(res)[key][field] = of[field]
    BY <2>1 DEF Columns
  <2> QED BY <2>2, <2>3
<1> QED BY <1>1, <1>2

LEMMA KeysAreFinite ==
  ASSUME NEW rows \in SUBSET Rows
  PROVE  IsFiniteSet(MinuteKeys(rows)) /\ IsFiniteSet(DailyKeys(rows))
<1>1. ASSUME NEW es \in SUBSET Events, NEW unit PROVE IsFiniteSet(Keys(es, unit))
  <2> DEFINE key == [e \in es |-> Key(e, unit)]
  <2>1. Keys(es, unit) = {key[e] : e \in es}
    BY DEF Keys
  <2>2. IsFiniteSet(es)
    BY EventsFacts
  <2> HIDE DEF key
  <2> QED BY <2>1, <2>2, FiniteImage
<1>2. UNION {OfKind(rows, k) : k \in {"impression", "click", "complete", "response"}} \in SUBSET Events
  BY KindsAreEvents
<1> QED BY <1>1, <1>2, KindsAreEvents DEF MinuteKeys, DailyKeys

\* The events with one of these keys.
KeyedIn(es, unit, keys) == {e \in es : Key(e, unit) \in keys}

\* Counts by key, summed over some keys, count the events with one of them.
LEMMA CountsByKey ==
  ASSUME NEW es \in SUBSET Events, NEW unit, NEW keys, IsFiniteSet(keys),
         NEW f, \A key \in keys : f[key] = CountAt(es, key, unit)
  PROVE  SumFunctionOnSet(f, keys) = Cardinality(KeyedIn(es, unit, keys))
<1> DEFINE S == {e \in es : Key(e, unit) \in keys}
           class == [e \in S |-> Key(e, unit)]
<1>1. IsFiniteSet(S) /\ class \in [S -> keys]
  BY EventsFacts
<1>2. ASSUME NEW key \in keys PROVE f[key] = Cardinality({e \in S : class[e] = key})
  <2>1. {e \in S : class[e] = key} = {e \in es : Key(e, unit) = key}
    OBVIOUS
  <2> QED BY <2>1 DEF CountAt
<1> HIDE DEF class
<1>3. SumFunctionOnSet(f, keys) = Cardinality(S)
  BY <1>1, <1>2, CountByClass
<1> QED BY <1>3 DEF KeyedIn

\* The times of events, and their minute and day.
LEMMA KeyFacts ==
  ASSUME NEW e \in Events
  PROVE  /\ TimeOf[e] \in Nat /\ Key(e, 1) = <<TimeOf[e], CampaignOf[e]>>
         /\ Key(e, Day) = <<TimeOf[e] \div Day, CampaignOf[e]>>
<1>1. TimeOf[e] \in Nat
  BY SettlementAssumption
<1>2. TimeOf[e] \div 1 = TimeOf[e]
  BY <1>1
<1> QED BY <1>1, <1>2 DEF Key

LEMMA DayFromMinutes ==
  ASSUME NEW res, res.rows \subseteq Rows, NEW field \in Columns, NEW key \in DOMAIN DailyOf(res),
         minute = MinuteOf(res)
  PROVE  DailyOf(res)[key][field] = MinuteSum(key, field)
<1> DEFINE es == CountedIn(res.rows, field)
           ks == {m \in DOMAIN minute : m[1] \div Day = key[1] /\ m[2] = key[2]}
           f == [k \in ks |-> minute[k][field]]
<1>1. DOMAIN minute = MinuteKeys(res.rows)
  BY DEF MinuteOf
<1>2. IsFiniteSet(ks)
  BY <1>1, KeysAreFinite, FS_Subset
<1>3. es \in SUBSET Events /\ \A e \in es : Key(e, 1) \in DOMAIN minute
  BY <1>1, ColumnsAreEvents
<1>4. \A k \in ks : f[k] = CountAt(es, k, 1)
  BY TableColumns
<1>5. MinuteSum(key, field) = SumFunctionOnSet(f, ks)
  BY DEF MinuteSum, SumFunction
<1>6. SumFunctionOnSet(f, ks) = Cardinality({e \in es : Key(e, 1) \in ks})
  <2> HIDE DEF f, es, ks
  <2>1. es \in SUBSET Events
    BY <1>3
  <2>2. SumFunctionOnSet(f, ks) = Cardinality(KeyedIn(es, 1, ks))
    BY ONLY <2>1, <1>2, <1>4, CountsByKey
  <2> QED BY ONLY <2>2 DEF KeyedIn
<1>7. {e \in es : Key(e, 1) \in ks} = {e \in es : Key(e, Day) = key}
  <2>1. PICK d, c : key = <<d, c>>
    BY DEF DailyOf, DailyKeys, Keys, Key
  <2>2. ASSUME NEW e \in es PROVE Key(e, 1) \in ks <=> Key(e, Day) = key
    BY <1>3, <2>1, KeyFacts
  <2> QED BY <2>2
<1>8. DailyOf(res)[key][field] = Cardinality({e \in es : Key(e, Day) = key})
  BY TableColumns DEF CountAt
<1> QED BY <1>5, <1>6, <1>7, <1>8

LEMMA MinutesWithoutDay ==
  ASSUME NEW res, res.rows \subseteq Rows, NEW key \in DOMAIN MinuteOf(res),
         <<key[1] \div Day, key[2]>> \notin DOMAIN DailyOf(res)
  PROVE  MinuteOf(res)[key].raw = 0
<1> DEFINE es == {e \in AllImpressions(res.rows) : Key(e, 1) = key}
<1>1. es = {}
  <2> SUFFICES ASSUME NEW e \in AllImpressions(res.rows), Key(e, 1) = key PROVE FALSE
    OBVIOUS
  <2>1. e \in Events
    BY KindsAreEvents
  <2>2. key = <<TimeOf[e], CampaignOf[e]>> /\ Key(e, Day) = <<TimeOf[e] \div Day, CampaignOf[e]>>
    BY <2>1, KeyFacts
  <2>3. Key(e, Day) \in DOMAIN DailyOf(res)
    BY DEF DailyOf, DailyKeys, Keys
  <2> QED BY <2>2, <2>3
<1>2. MinuteOf(res)[key].raw = Cardinality(es)
  BY DEF MinuteOf, Counts, CountAt
<1> QED BY <1>1, <1>2, FS_EmptySet

(***************************************************************************)
(* A row of the daily table is the sum of its minutes, in every column the *)
(* two have in common, and the minutes of a campaign without a row for the *)
(* day have no impression (batch_settlement.py 145-153, 228-232), for any  *)
(* rows and any length of a day.                                           *)
(***************************************************************************)
THEOREM DaysAreSumsOfMinutes == Spec => []DayIsSumOfMinutes
<1>1. RInv /\ WholeRows => DayIsSumOfMinutes
  <2> SUFFICES ASSUME RInv, WholeRows, whole # Nothing
               PROVE  /\ \A key \in DOMAIN daily : \A field \in Columns :
                           daily[key][field] = MinuteSum(key, field)
                      /\ \A key \in DOMAIN minute :
                           <<key[1] \div Day, key[2]>> \notin DOMAIN daily => minute[key].raw = 0
    BY DEF DayIsSumOfMinutes, Columns
  <2>1. daily = DailyOf(whole) /\ minute = MinuteOf(whole) /\ whole.rows \subseteq Rows
    BY DEF RInv, WholeInv, WholeRows
  <2> QED BY <2>1, DayFromMinutes, MinutesWithoutDay
<1> QED BY <1>1, RInvCorrect, WholeRowsCorrect, PTL

-----------------------------------------------------------------------------
(* A report over whole tables                                              *)

\* The impressions a report of scope s finds in a table of these rows.
RawOf(rows, s, c) == {e \in AllImpressions(rows) : CampaignOf[e] = c /\ InScope(s, TimeOf[e])}

\* The minutes of a day are those from its first to the next day's first.
LEMMA SameDay ==
  ASSUME NEW d \in Nat \ {0}, NEW from \in Nat, from % d = 0, NEW t \in Nat
  PROVE  t \div d = from \div d <=> from <= t /\ t < from + d
<1>1. PICK q \in Nat : q = t \div d
  BY QuotientFacts
<1>2. PICK p \in Nat : p = from \div d
  BY QuotientFacts
<1>3. d * q \in Nat /\ d * q <= t /\ t < d * q + d
  BY <1>1, QuotientFacts, NextMultiple
<1>4. from = d * p
  BY <1>2, QuotientFacts
<1>5. CASE q = p
  BY <1>1, <1>2, <1>3, <1>4, <1>5
<1>6. CASE q < p
  <2>1. d * q + d <= d * p
    BY <1>6, NextMultiple
  <2>2. ~(from <= t)
    BY <1>3, <1>4, <2>1
  <2> QED BY <1>1, <1>2, <1>6, <2>2
<1>7. CASE p < q
  <2>1. d * p + d <= d * q
    BY <1>7, NextMultiple
  <2>2. ~(t < from + d)
    BY <1>3, <1>4, <2>1
  <2> QED BY <1>1, <1>2, <1>7, <2>2
<1> QED BY <1>5, <1>6, <1>7

\* What fetch_batch finds of a column in the tables of one result.
LEMMA BatchSumCounts ==
  ASSUME NEW res, res.rows \subseteq Rows, daily = DailyOf(res), minute = MinuteOf(res),
         NEW s \in Scopes, NEW c, NEW field \in Columns
  PROVE  /\ BatchSum(s, c, field) \in Nat
         /\ field = "raw" => BatchSum(s, c, field) = Cardinality(RawOf(res.rows, s, c))
<1> DEFINE es == CountedIn(res.rows, field)
<1>1. es \in SUBSET Events /\ \A e \in es : Key(e, 1) \in DOMAIN minute
  BY ColumnsAreEvents DEF MinuteOf
<1>2. IsFiniteSet(DOMAIN minute) /\ IsFiniteSet(DOMAIN daily)
  BY KeysAreFinite DEF MinuteOf, DailyOf
<1>3. CASE s.ranged
  <2> DEFINE ks == {k \in DOMAIN minute : k[2] = c /\ InScope(s, k[1])}
             f == [key \in ks |-> minute[key][field]]
  <2>1. IsFiniteSet(ks) /\ \A k \in ks : f[k] = CountAt(es, k, 1)
    BY <1>2, FS_Subset, TableColumns
  <2>2. BatchSum(s, c, field) = SumFunctionOnSet(f, ks)
    BY <1>3 DEF BatchSum, SumFunction
  <2>3. field = "raw" => {e \in es : Key(e, 1) \in ks} = RawOf(res.rows, s, c)
    <3>1. ASSUME NEW e \in es
          PROVE  Key(e, 1) \in ks <=> CampaignOf[e] = c /\ InScope(s, TimeOf[e])
      BY <1>1, KeyFacts
    <3> QED BY <3>1 DEF CountedIn, RawOf
  <2> HIDE DEF f, ks, es
  <2>4. SumFunctionOnSet(f, ks) = Cardinality({e \in es : Key(e, 1) \in ks})
    <3>1. es \in SUBSET Events
      BY <1>1
    <3>2. IsFiniteSet(ks)
      BY <2>1
    <3>3. \A k \in ks : f[k] = CountAt(es, k, 1)
      BY <2>1
    <3>4. SumFunctionOnSet(f, ks) = Cardinality(KeyedIn(es, 1, ks))
      BY ONLY <3>1, <3>2, <3>3, CountsByKey
    <3> QED BY ONLY <3>4 DEF KeyedIn
  <2>5. Cardinality({e \in es : Key(e, 1) \in ks}) \in Nat
    BY <1>1, EventsFacts
  <2> QED BY <2>2, <2>3, <2>4, <2>5
<1>4. CASE ~s.ranged
  <2> DEFINE ks == {k \in DOMAIN daily : k[2] = c /\ k[1] = s.from \div Day}
             f == [key \in ks |-> daily[key][field]]
  <2>1. IsFiniteSet(ks) /\ \A k \in ks : f[k] = CountAt(es, k, Day)
    BY <1>2, FS_Subset, TableColumns
  <2>2. BatchSum(s, c, field) = SumFunctionOnSet(f, ks)
    BY <1>4 DEF BatchSum, SumFunction
  <2>3. field = "raw" => {e \in es : Key(e, Day) \in ks} = RawOf(res.rows, s, c)
    <3>1. s.from \in Nat /\ s.from % Day = 0 /\ s.to = s.from + Day /\ Day \in Nat \ {0}
      BY <1>4, SettlementAssumption DEF Scopes
    <3>2. ASSUME NEW e \in AllImpressions(res.rows)
          PROVE  Key(e, Day) \in ks <=> CampaignOf[e] = c /\ InScope(s, TimeOf[e])
      <4>1. Key(e, Day) \in DOMAIN daily
        BY DEF DailyOf, DailyKeys, Keys
      <4>2. TimeOf[e] \in Nat /\ Key(e, Day) = <<TimeOf[e] \div Day, CampaignOf[e]>>
        BY KindsAreEvents, KeyFacts
      <4>3. TimeOf[e] \div Day = s.from \div Day <=> s.from <= TimeOf[e] /\ TimeOf[e] < s.from + Day
        BY <3>1, <4>2, SameDay
      <4> QED BY <3>1, <4>1, <4>2, <4>3 DEF InScope
    <3> QED BY <3>2 DEF CountedIn, RawOf
  <2> HIDE DEF f, ks, es
  <2>4. SumFunctionOnSet(f, ks) = Cardinality({e \in es : Key(e, Day) \in ks})
    <3>1. es \in SUBSET Events
      BY <1>1
    <3>2. IsFiniteSet(ks)
      BY <2>1
    <3>3. \A k \in ks : f[k] = CountAt(es, k, Day)
      BY <2>1
    <3>4. SumFunctionOnSet(f, ks) = Cardinality(KeyedIn(es, Day, ks))
      BY ONLY <3>1, <3>2, <3>3, CountsByKey
    <3> QED BY ONLY <3>4 DEF KeyedIn
  <2>5. Cardinality({e \in es : Key(e, Day) \in ks}) \in Nat
    BY <1>1, EventsFacts
  <2> QED BY <2>2, <2>3, <2>4, <2>5
<1> QED BY <1>3, <1>4

(***************************************************************************)
(* What a report has read: figures of sets that were in Redis, in the      *)
(* tables and among the late rows, and only grow.                          *)
(***************************************************************************)
DecidedInv ==
  /\ counted \cap dropped = {}
  /\ \A e \in counted \cup dropped : Impression(e)
  /\ \A s \in session.scopes : s \in Scopes

RealtimeRead ==
  /\ report.scope \in Scopes
  /\ report.early \subseteq counted
  /\ report.realtime = CountFor(report.early, report.scope)

BatchRead ==
  report.base # Nothing =>
    /\ report.base.rows \subseteq Rows
    /\ \A c \in Campaigns :
         /\ report.batch[c] \in Nat
         /\ report.raw[c] = Cardinality(RawOf(report.base.rows, report.scope, c))

LateRead ==
  report.lateRead =>
    /\ report.discarded \subseteq dropped
    /\ report.late = CountFor(report.discarded, report.scope)

ReportInv ==
  /\ DOMAIN report = {"stage", "scope", "realtime", "early", "base", "batch", "raw",
                      "late", "discarded", "lateRead"}
  /\ report.stage \in {"none", "realtime", "batch", "stored"}
  /\ report.stage # "none" => RealtimeRead
  /\ report.stage \in {"batch", "stored"} => BatchRead
  /\ report.stage = "stored" => LateRead
  /\ report.stage # "stored" => report.lateRead = FALSE

LEMMA InitReport == Init => DecidedInv /\ ReportInv
BY SettlementAssumption DEF Init, DecidedInv, ReportInv, NoReport

LEMMA NextDecided == DecidedInv /\ [Next]_vars => DecidedInv'
<1> SUFFICES ASSUME DecidedInv, [Next]_vars PROVE DecidedInv'
  OBVIOUS
<1>1. ASSUME UNCHANGED <<session, counted, dropped>> PROVE DecidedInv'
  BY <1>1 DEF DecidedInv
<1>2. ASSUME NEW e \in Events, CountImpression(e) \/ DropImpression(e) PROVE DecidedInv'
  BY <1>2 DEF CountImpression, DropImpression, DecidedInv
<1> QED BY <1>1, <1>2
  DEF Next, Archive, Start, TruncateDaily, EndDaily, TruncateMinute, EndMinute, Crash, InsertDaily,
      InsertMinute, InsertFails, ReadRealtime, ReadBatch, ReadLate, LateUnreadable, vars, live

\* What a report has read stays as it is when the sets it came from grow.
LEMMA ReportStays ==
  ASSUME ReportInv, report' = report, counted \subseteq counted', dropped \subseteq dropped'
  PROVE  ReportInv'
BY DEF ReportInv, RealtimeRead, BatchRead, LateRead

LEMMA NextReport ==
  RInv /\ WholeRows /\ DecidedInv /\ ReportInv /\ [Next]_vars => ReportInv'
<1> SUFFICES ASSUME RInv, WholeRows, DecidedInv, ReportInv, [Next]_vars PROVE ReportInv'
  OBVIOUS
<1>1. ASSUME UNCHANGED <<counted, dropped, report>> PROVE ReportInv'
  BY <1>1, ReportStays
<1>2. ASSUME NEW e \in Events, CountImpression(e) \/ DropImpression(e) PROVE ReportInv'
  BY <1>2, ReportStays DEF CountImpression, DropImpression
<1>3. ASSUME NEW s \in session.scopes, ReadRealtime(s) PROVE ReportInv'
  <2>1. /\ DOMAIN report' = DOMAIN report
        /\ report'.stage = "realtime" /\ report'.scope = s /\ report'.early = counted
        /\ report'.realtime = CountFor(counted, s) /\ report'.lateRead = report.lateRead
    BY <1>3 DEF ReadRealtime, ReportInv
  <2>2. s \in Scopes /\ counted' = counted /\ report.lateRead = FALSE
    BY <1>3 DEF ReadRealtime, DecidedInv, live, ReportInv
  <2>3. RealtimeRead'
    BY <2>1, <2>2 DEF RealtimeRead
  <2> QED BY <2>1, <2>2, <2>3 DEF ReportInv
<1>4. CASE ReadBatch
  <2> DEFINE batch == [c \in Campaigns |-> BatchSum(report.scope, c, "impressions")]
             raw == [c \in Campaigns |-> BatchSum(report.scope, c, "raw")]
  <2>1. report.stage = "realtime" /\ counted' = counted /\ report' =
          [report EXCEPT !.stage = "batch", !.base = whole, !.batch = batch, !.raw = raw]
    BY <1>4 DEF ReadBatch, live
  <2> HIDE DEF batch, raw
  <2>2. /\ DOMAIN report' = DOMAIN report /\ report'.stage = "batch"
        /\ report'.base = whole /\ report'.batch = batch /\ report'.raw = raw
        /\ report'.scope = report.scope /\ report'.early = report.early
        /\ report'.realtime = report.realtime /\ report'.lateRead = report.lateRead
    BY <2>1 DEF ReportInv
  <2>3. RealtimeRead /\ RealtimeRead'
    BY <2>1, <2>2 DEF RealtimeRead, ReportInv
  <2>4. ASSUME whole # Nothing, NEW c \in Campaigns
        PROVE  batch[c] \in Nat /\ raw[c] = Cardinality(RawOf(whole.rows, report.scope, c))
    <3>1. daily = DailyOf(whole) /\ minute = MinuteOf(whole) /\ whole.rows \subseteq Rows
      BY <2>4 DEF RInv, WholeInv, WholeRows
    <3>2. report.scope \in Scopes /\ "impressions" \in Columns /\ "raw" \in Columns
      BY <2>3 DEF RealtimeRead, Columns
    <3>3. BatchSum(report.scope, c, "impressions") \in Nat
      BY <3>1, <3>2, BatchSumCounts
    <3>4. BatchSum(report.scope, c, "raw") = Cardinality(RawOf(whole.rows, report.scope, c))
      BY <3>1, <3>2, BatchSumCounts
    <3> QED BY <2>4, <3>3, <3>4 DEF batch, raw
  <2>5. BatchRead'
    BY <2>2, <2>4 DEF BatchRead, WholeRows
  <2> QED BY <2>1, <2>2, <2>3, <2>5 DEF ReportInv
<1>5. CASE ReadLate
  <2>1. /\ report.stage = "batch" /\ counted' = counted /\ dropped' = dropped
        /\ report' = [report EXCEPT !.stage = "stored", !.late = CountFor(dropped, report.scope),
                                    !.discarded = dropped, !.lateRead = TRUE]
    BY <1>5 DEF ReadLate, live
  <2>2. /\ DOMAIN report' = DOMAIN report /\ report'.stage = "stored"
        /\ report'.base = report.base /\ report'.batch = report.batch /\ report'.raw = report.raw
        /\ report'.scope = report.scope /\ report'.early = report.early
        /\ report'.realtime = report.realtime
        /\ report'.late = CountFor(dropped, report.scope) /\ report'.discarded = dropped
    BY <2>1 DEF ReportInv
  <2>3. RealtimeRead' /\ BatchRead' /\ LateRead'
    BY <2>1, <2>2 DEF RealtimeRead, BatchRead, LateRead, ReportInv
  <2> QED BY <2>2, <2>3 DEF ReportInv
<1>6. CASE LateUnreadable
  <2>1. /\ report.stage = "batch" /\ counted' = counted
        /\ report' = [report EXCEPT !.stage = "stored", !.discarded = dropped]
    BY <1>6 DEF LateUnreadable, live
  <2>2. /\ DOMAIN report' = DOMAIN report /\ report'.stage = "stored"
        /\ report'.base = report.base /\ report'.batch = report.batch /\ report'.raw = report.raw
        /\ report'.scope = report.scope /\ report'.early = report.early
        /\ report'.realtime = report.realtime /\ report'.lateRead = report.lateRead
    BY <2>1 DEF ReportInv
  <2>3. RealtimeRead' /\ BatchRead' /\ LateRead'
    BY <2>1, <2>2 DEF RealtimeRead, BatchRead, LateRead, ReportInv
  <2> QED BY <2>2, <2>3 DEF ReportInv
<1> QED BY <1>1, <1>2, <1>3, <1>4, <1>5, <1>6
  DEF Next, Archive, Start, TruncateDaily, EndDaily, TruncateMinute, EndMinute, Crash, InsertDaily,
      InsertMinute, InsertFails, vars, live

\* What CountFor says of one campaign.
CampaignIn(es, s, c) == {e \in es : CampaignOf[e] = c /\ InScope(s, TimeOf[e])}

LEMMA CountForFacts ==
  ASSUME NEW es \in SUBSET Events, NEW s, NEW c \in Campaigns
  PROVE  /\ CountFor(es, s)[c] = Cardinality(CampaignIn(es, s, c))
         /\ IsFiniteSet(CampaignIn(es, s, c)) /\ Cardinality(CampaignIn(es, s, c)) \in Nat
<1>1. CampaignIn(es, s, c) \in SUBSET Events
  BY DEF CampaignIn
<1> QED BY <1>1, EventsFacts DEF CountFor, CampaignIn

\* More, or fewer, raw impressions than decided ones have a reason.
LEMMA ResidualHasReason ==
  ASSUME NEW A, IsFiniteSet(A), NEW E, IsFiniteSet(E), NEW D, IsFiniteSet(D), E \cap D = {}
  PROVE  /\ Cardinality(A) > Cardinality(E) + Cardinality(D) => \E e \in A : e \notin E \cup D
         /\ Cardinality(A) < Cardinality(E) + Cardinality(D) => \E e \in E \cup D : e \notin A
<1>1. IsFiniteSet(E \cup D) /\ Cardinality(E \cup D) = Cardinality(E) + Cardinality(D)
  BY CountUnion, FS_Union
<1>2. Cardinality(A) \in Nat /\ Cardinality(E \cup D) \in Nat
  BY <1>1, FS_CardinalityType
<1>3. A \subseteq E \cup D => Cardinality(A) <= Cardinality(E \cup D)
  BY <1>1, FS_Subset
<1>4. E \cup D \subseteq A => Cardinality(E \cup D) <= Cardinality(A)
  BY FS_Subset
<1>5. ASSUME Cardinality(A) > Cardinality(E) + Cardinality(D) PROVE \E e \in A : e \notin E \cup D
  BY <1>1, <1>2, <1>3, <1>5
<1>6. ASSUME Cardinality(A) < Cardinality(E) + Cardinality(D) PROVE \E e \in E \cup D : e \notin A
  BY <1>1, <1>2, <1>4, <1>6
<1> QED BY <1>5, <1>6

(***************************************************************************)
(* reconcile.py 20-31: the residual of a report that read a whole batch    *)
(* table and the late rows is never unexplained, although the three reads  *)
(* are of different moments: too much in the batch is an impression the    *)
(* realtime had not decided on, too little is one the batch had not seen.  *)
(***************************************************************************)
THEOREM ResidualsHaveReasons == Spec => []ReportExplained
<1>1. TypeOK /\ DecidedInv /\ ReportInv => ReportExplained
  <2> SUFFICES ASSUME TypeOK, DecidedInv, ReportInv, report.stage = "stored",
                      report.lateRead, report.base # Nothing, NEW c \in Campaigns
               PROVE  /\ Residual(c) > 0 => \E e \in Compared(c) \cap AllImpressions(report.base.rows) :
                                              e \notin report.early \cup report.discarded
                      /\ Residual(c) < 0 => \E e \in Compared(c) \ AllImpressions(report.base.rows) :
                                              e \in report.early \cup report.discarded
    BY DEF ReportExplained
  <2> DEFINE s == report.scope
             A == RawOf(report.base.rows, s, c)
             E == CampaignIn(report.early, s, c)
             D == CampaignIn(report.discarded, s, c)
  <2>1. RealtimeRead /\ BatchRead /\ LateRead
    BY DEF ReportInv
  <2>2. report.early \in SUBSET Events /\ report.discarded \in SUBSET Events /\ report.base.rows \in SUBSET Rows
    BY <2>1 DEF RealtimeRead, BatchRead, LateRead, TypeOK
  <2>3. report.realtime[c] = Cardinality(E) /\ IsFiniteSet(E) /\ Cardinality(E) \in Nat
    BY <2>1, <2>2, CountForFacts DEF RealtimeRead
  <2>4. report.late[c] = Cardinality(D) /\ IsFiniteSet(D) /\ Cardinality(D) \in Nat
    BY <2>1, <2>2, CountForFacts DEF LateRead
  <2>5. report.raw[c] = Cardinality(A) /\ report.batch[c] \in Nat
    BY <2>1 DEF BatchRead
  <2>6. A \in SUBSET Events /\ IsFiniteSet(A) /\ Cardinality(A) \in Nat
    BY <2>2, KindsAreEvents, EventsFacts DEF RawOf
  <2>7. Residual(c) = Cardinality(A) - Cardinality(E) - Cardinality(D)
    BY <2>3, <2>4, <2>5, <2>6 DEF Residual
  <2>8. E \cap D = {}
    BY <2>1 DEF DecidedInv, RealtimeRead, LateRead, CampaignIn
  <2>9. A \subseteq Compared(c) \cap AllImpressions(report.base.rows)
    BY <2>6 DEF RawOf, Compared, AllImpressions, OfKind, Deduped, Impression
  <2>10. ASSUME NEW e \in E \cup D, e \notin A
         PROVE  e \in Compared(c) \ AllImpressions(report.base.rows) /\ e \in report.early \cup report.discarded
    BY <2>1, <2>2, <2>10 DEF CampaignIn, RawOf, Compared, DecidedInv, RealtimeRead, LateRead
  <2>11. ASSUME NEW e \in A, e \notin E \cup D PROVE e \notin report.early \cup report.discarded
    BY <2>11 DEF CampaignIn, RawOf
  <2> HIDE DEF A, E, D
  <2>12. /\ Cardinality(A) > Cardinality(E) + Cardinality(D) => \E e \in A : e \notin E \cup D
         /\ Cardinality(A) < Cardinality(E) + Cardinality(D) => \E e \in E \cup D : e \notin A
    BY <2>3, <2>4, <2>6, <2>8, ResidualHasReason
  <2>13. ASSUME Residual(c) > 0
         PROVE  \E e \in Compared(c) \cap AllImpressions(report.base.rows) :
                  e \notin report.early \cup report.discarded
    <3>1. Cardinality(A) > Cardinality(E) + Cardinality(D)
      BY <2>3, <2>4, <2>6, <2>7, <2>13
    <3> QED BY <2>9, <2>11, <2>12, <3>1
  <2>14. ASSUME Residual(c) < 0
         PROVE  \E e \in Compared(c) \ AllImpressions(report.base.rows) :
                  e \in report.early \cup report.discarded
    <3>1. Cardinality(A) < Cardinality(E) + Cardinality(D)
      BY <2>3, <2>4, <2>6, <2>7, <2>14
    <3> QED BY <2>10, <2>12, <3>1
  <2> QED BY <2>13, <2>14
<1>2. Spec => []DecidedInv
  BY InitReport, NextDecided, PTL DEF Spec
<1>3. Spec => []ReportInv
  BY InitReport, NextReport, <1>2, RInvCorrect, WholeRowsCorrect, PTL DEF Spec
<1> QED BY <1>1, <1>2, <1>3, SettlementTypeCorrect, PTL
=============================================================================
