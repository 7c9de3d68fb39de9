-------------------------- MODULE RedisWriterProofs --------------------------
(***************************************************************************)
(* Theorems about RedisWriter and Dashboard for every log, every number of *)
(* partitions, every retention and every combination of faults.            *)
(***************************************************************************)
EXTENDS Dashboard, SumTheorems, SequenceTheorems

LEMMA MessageFacts ==
  /\ \A m \in Messages : /\ m[1] \in Partitions /\ m[2] \in 1..Len(Log[m[1]])
                         /\ m = <<m[1], m[2]>> /\ m # NoMsg
  /\ \A p \in Partitions : \A i \in 1..Len(Log[p]) : <<p, i>> \in Messages
BY DEF Messages, NoMsg

LEMMA LogFacts ==
  /\ \A p \in Partitions : Len(Log[p]) \in Nat
  /\ \A m \in Messages : RecordOf(m) \in Record
  /\ \A m \in Messages : IsKind(m, "agg") => RecordOf(m).time # NoTime
<1>1. \A p \in Partitions : Log[p] \in Seq(Record)
  BY WriterAssumption
<1>2. \A p \in Partitions : Len(Log[p]) \in Nat
  BY <1>1
<1>3. \A m \in Messages : RecordOf(m) \in Record
  BY <1>1, MessageFacts DEF RecordOf
<1>4. \A m \in Messages : IsKind(m, "agg") => RecordOf(m).time # NoTime
  BY WriterAssumption, MessageFacts DEF RecordOf, IsKind
<1> QED BY <1>2, <1>3, <1>4

\* The key a timed message is counted under.
LEMMA KeyFacts ==
  ASSUME NEW m \in Messages, RecordOf(m).time # NoTime
  PROVE  MinuteKey(RecordOf(m).time) \in Minutes /\ KeyOf(m) \in Keys
<1>1. RecordOf(m).time \in Times
  BY DEF Times
<1>2. MinuteKey(RecordOf(m).time) \in Minutes
  BY <1>1 DEF Minutes
<1>3. RecordOf(m).campaign \in Campaigns
  BY LogFacts DEF Record
<1> QED BY <1>2, <1>3 DEF KeyOf, Keys

-----------------------------------------------------------------------------
(* Type correctness *)

ConsumerTypes ==
  /\ up \in BOOLEAN
  /\ pos \in [Partitions -> Nat] /\ \A p \in Partitions : pos[p] <= end[p]
  /\ hand \in Messages \cup {NoMsg}
  /\ committed \in [Partitions -> Nat \cup {NoOffset}]

RedisTypes ==
  /\ hash \in [Keys -> Entry]
  /\ index \subseteq Keys
  /\ lateMinute \in [Minutes -> Entry]
  /\ lateTotal \in Nat
  /\ alerts \in Seq(Messages)
  /\ alertsTotal \in Nat

TallyTypes ==
  /\ applied \in [Messages -> Nat]
  /\ latest \in [Keys -> Nat \cup {NoResult}]

LossTypes ==
  /\ lost \subseteq Messages
  /\ wiped \subseteq Messages
  /\ faults \in 0..MaxFaults
  /\ crashes \in Nat

TopicTypes ==
  /\ now \in 0..MaxNow
  /\ end \in [Partitions -> Nat] /\ \A p \in Partitions : end[p] <= Len(Log[p])

LEMMA TypeParts ==
  TypeOK <=> ConsumerTypes /\ RedisTypes /\ TallyTypes /\ LossTypes /\ TopicTypes
BY DEF TypeOK, ConsumerTypes, RedisTypes, TallyTypes, LossTypes, TopicTypes

LEMMA IncrType ==
  ASSUME NEW e \in Entry, now \in Nat
  PROVE  Incr(e) \in Entry
BY WriterAssumption DEF Incr, Entry, Alive

\* What a handler leaves in Redis.
LEMMA ApplyType ==
  ASSUME TypeOK, NEW m \in Messages, Apply(m)
  PROVE  RedisTypes' /\ TallyTypes'
<1> now \in Nat /\ Ttl \in Nat /\ AlertCap \in Nat
  BY WriterAssumption DEF TypeOK
<1>1. applied' = [applied EXCEPT ![m] = @ + 1]
  BY DEF Apply
<1>2. applied' \in [Messages -> Nat]
  BY <1>1 DEF TypeOK
<1>3. CASE IsKind(m, "agg") /\ HandleAgg(m)
  <2>1. KeyOf(m) \in Keys /\ RecordOf(m).count \in Nat
    BY <1>3, LogFacts, KeyFacts DEF Record
  <2>2. hash' \in [Keys -> Entry]
    <3>1. [n |-> RecordOf(m).count, exp |-> now + Ttl] \in Entry
      BY <2>1 DEF Entry
    <3> QED BY <1>3, <2>1, <3>1 DEF HandleAgg, TypeOK
  <2>3. index' \subseteq Keys
    BY <1>3, <2>1 DEF HandleAgg, TypeOK, Trim
  <2>4. latest' \in [Keys -> Nat \cup {NoResult}]
    BY <1>3, <2>1 DEF HandleAgg, TypeOK
  <2> QED BY <1>2, <1>3, <2>2, <2>3, <2>4 DEF HandleAgg, TypeOK, RedisTypes, TallyTypes
<1>4. CASE IsKind(m, "late") /\ HandleLate(m)
  <2>1. CASE RecordOf(m).time # NoTime
    <3> DEFINE k == MinuteKey(RecordOf(m).time)
    <3>1. k \in Minutes
      BY <2>1, KeyFacts
    <3>2. lateMinute' = [lateMinute EXCEPT ![k] = Incr(lateMinute[k])] /\ lateTotal' = lateTotal + 1
      BY <1>4, <2>1, <3>1 DEF HandleLate, TypeOK
    <3>3. lateMinute[k] \in Entry
      BY <3>1 DEF TypeOK
    <3> HIDE DEF k
    <3>4. lateMinute' \in [Minutes -> Entry]
      BY <3>1, <3>2, <3>3, IncrType DEF TypeOK
    <3> QED BY <1>2, <1>4, <3>2, <3>4 DEF HandleLate, TypeOK, RedisTypes, TallyTypes
  <2>2. CASE RecordOf(m).time = NoTime
    BY <1>2, <1>4, <2>2 DEF HandleLate, TypeOK, RedisTypes, TallyTypes
  <2> QED BY <2>1, <2>2
<1>5. CASE IsKind(m, "alert") /\ HandleAlert(m)
  <2> DEFINE pushed == <<m>> \o alerts
             n == IF Len(pushed) < AlertCap THEN Len(pushed) ELSE AlertCap
  <2>1. pushed \in Seq(Messages)
    <3>1. <<m>> \in Seq(Messages)
      OBVIOUS
    <3> QED BY <3>1, ConcatProperties DEF TypeOK
  <2>2. n \in 0..Len(pushed)
    BY <2>1
  <2>3. alerts' = SubSeq(pushed, 1, n)
    BY <1>5 DEF HandleAlert
  <2> HIDE DEF pushed, n
  <2>4. alerts' \in Seq(Messages)
    <3>1. \A i \in 1..n : i \in 1..Len(pushed)
      BY <2>1, <2>2
    <3> QED BY <2>1, <2>2, <2>3, <3>1, SubSeqProperties
  <2> QED BY <1>2, <1>5, <2>4 DEF HandleAlert, TypeOK, RedisTypes, TallyTypes
<1> QED BY <1>3, <1>4, <1>5 DEF Apply

LEMMA FaultType ==
  ASSUME TypeOK, NEW kind, Fault(kind)
  PROVE  faults' \in 0..MaxFaults /\ faults' = faults + 1
BY WriterAssumption DEF TypeOK, Fault

LEMMA PolledType ==
  ASSUME TypeOK
  PROVE  Polled \in [Partitions -> Nat \cup {NoOffset}]
BY DEF TypeOK, Polled

LEMMA InitType == Init => TypeOK
<1>1. \A p \in Partitions : Len(Log[p]) \in Nat
  BY LogFacts
<1>2. NoEntry \in Entry /\ <<>> \in Seq(Messages)
  BY DEF NoEntry, Entry
<1> SUFFICES ASSUME Init PROVE TypeOK
  OBVIOUS
<1>3. ConsumerTypes /\ TallyTypes /\ LossTypes /\ TopicTypes
  <2>1. ConsumerTypes
    <3>1. up \in BOOLEAN /\ hand \in Messages \cup {NoMsg}
      BY DEF Init
    <3>2. pos \in [Partitions -> Nat] /\ \A p \in Partitions : pos[p] <= end[p]
      BY DEF Init
    <3>3. committed \in [Partitions -> Nat \cup {NoOffset}]
      BY DEF Init
    <3> QED BY <3>1, <3>2, <3>3 DEF ConsumerTypes
  <2>2. TallyTypes
    BY DEF Init, TallyTypes
  <2>3. LossTypes /\ TopicTypes
    BY <1>1, WriterAssumption DEF Init, LossTypes, TopicTypes
  <2> QED BY <2>1, <2>2, <2>3
<1>4. RedisTypes
  BY <1>2 DEF Init, RedisTypes
<1> QED BY <1>3, <1>4, TypeParts

LEMMA ResumeType ==
  ASSUME TypeOK, CommitBehind
  PROVE  /\ [p \in Partitions |-> Resume(p)] \in [Partitions -> Nat]
         /\ \A p \in Partitions : Resume(p) <= end[p]
BY DEF TypeOK, CommitBehind, Resume, NoOffset

LEMMA NextType == TypeOK /\ CommitBehind /\ [Next]_writerVars => TypeOK'
<1> SUFFICES ASSUME TypeOK, CommitBehind, [Next]_writerVars PROVE TypeOK'
  OBVIOUS
<1> USE DEF writerVars, topicVars, consumerVars, redisVars, tallyVars, lossVars
<1>1. ASSUME NEW p \in Partitions, Produce(p) PROVE TypeOK'
  <2>1. end' \in [Partitions -> Nat] /\ \A x \in Partitions : end'[x] <= Len(Log[x]) /\ pos[x] <= end'[x]
    <3>1. end' = [end EXCEPT ![p] = @ + 1] /\ end[p] < Len(Log[p])
      BY <1>1 DEF Produce
    <3>2. end \in [Partitions -> Nat] /\ pos \in [Partitions -> Nat]
          /\ \A x \in Partitions : end[x] <= Len(Log[x]) /\ pos[x] <= end[x]
      BY DEF TypeOK
    <3> QED BY <3>1, <3>2, LogFacts
  <2> QED BY <1>1, <2>1 DEF Produce, TypeOK
<1>2. CASE Tick
  <2>1. now' \in 0..MaxNow
    BY <1>2, WriterAssumption DEF Tick, TypeOK
  <2> QED BY <1>2, <2>1 DEF Tick, TypeOK
<1>3. ASSUME NEW p \in Partitions, Poll(p) PROVE TypeOK'
  <2>1. pos[p] + 1 \in 1..Len(Log[p])
    BY <1>3, LogFacts DEF Poll, TypeOK
  <2>2. hand' \in Messages
    BY <1>3, <2>1, MessageFacts DEF Poll
  <2>3. pos' \in [Partitions -> Nat] /\ \A x \in Partitions : pos'[x] <= end[x]
    <3>1. pos' = [pos EXCEPT ![p] = @ + 1] /\ pos[p] < end[p]
      BY <1>3 DEF Poll
    <3>2. end \in [Partitions -> Nat] /\ pos \in [Partitions -> Nat]
          /\ \A x \in Partitions : pos[x] <= end[x]
      BY DEF TypeOK
    <3> QED BY ONLY <3>1, <3>2
  <2> QED BY <1>3, <2>2, <2>3 DEF Poll, TypeOK
<1>4. CASE Handle
  <2>1. hand \in Messages
    BY <1>4 DEF Handle, TypeOK
  <2>2. RedisTypes' /\ TallyTypes'
    BY <1>4, <2>1, ApplyType DEF Handle
  <2>3. ConsumerTypes' /\ LossTypes' /\ TopicTypes'
    BY <1>4 DEF Handle, TypeOK, ConsumerTypes, LossTypes, TopicTypes
  <2> QED BY <2>2, <2>3, TypeParts, PTL
<1>5. CASE HandleFails
  <2>1. hand \in Messages /\ faults' \in 0..MaxFaults
    BY <1>5, FaultType DEF HandleFails, TypeOK
  <2>2. RedisTypes' /\ TallyTypes'
    <3>1. CASE UNCHANGED <<redisVars, tallyVars>>
      BY <3>1 DEF TypeOK, RedisTypes, TallyTypes
    <3>2. CASE Apply(hand)
      BY <2>1, <3>2, ApplyType
    <3> QED BY <1>5, <3>1, <3>2 DEF HandleFails
  <2>3. ConsumerTypes' /\ LossTypes' /\ TopicTypes'
    BY <1>5, <2>1 DEF HandleFails, TypeOK, ConsumerTypes, LossTypes, TopicTypes
  <2> QED BY <2>2, <2>3, TypeParts, PTL
<1>6. CASE Commit
  BY <1>6, PolledType DEF Commit, TypeOK
<1>7. CASE Stop
  BY <1>7, PolledType, FaultType DEF Stop, TypeOK
<1>8. CASE Crash
  <2>1. lost' \subseteq Messages /\ crashes' \in Nat
    BY <1>8 DEF Crash, TypeOK
  <2>2. faults' \in 0..MaxFaults
    BY <1>8, FaultType DEF Crash
  <2>3. up' \in BOOLEAN /\ hand' \in Messages \cup {NoMsg}
    BY <1>8 DEF Crash
  <2> QED BY <1>8, <2>1, <2>2, <2>3 DEF Crash, TypeOK
<1>9. CASE Start
  BY <1>9, ResumeType DEF Start, TypeOK
<1>10. CASE RedisRestart
  <2>1. RedisTypes'
    <3>1. NoEntry \in Entry /\ <<>> \in Seq(Messages)
      BY DEF NoEntry, Entry
    <3> QED BY <1>10, <3>1 DEF RedisRestart, EmptyRedis, RedisTypes
  <2>2. TallyTypes'
    BY <1>10 DEF RedisRestart, TallyTypes, NoResult
  <2>3. ConsumerTypes' /\ LossTypes' /\ TopicTypes'
    BY <1>10, FaultType DEF RedisRestart, TypeOK, ConsumerTypes, LossTypes, TopicTypes
  <2> QED BY <2>1, <2>2, <2>3, TypeParts, PTL
<1>11. CASE UNCHANGED writerVars
  BY <1>11 DEF TypeOK
<1> QED BY <1>1, <1>2, <1>3, <1>4, <1>5, <1>6, <1>7, <1>8, <1>9, <1>10, <1>11 DEF Next
-----------------------------------------------------------------------------
(* The inductive invariant of the consumer *)

\* A fault adds at most one message to those it skipped.
LEMMA OneMoreLost ==
  ASSUME TypeOK, IsFiniteSet(lost), Cardinality(lost) <= faults,
         faults' = faults + 1, NEW m, lost' = lost \cup {m} \/ lost' = lost
  PROVE  IsFiniteSet(lost') /\ Cardinality(lost') <= faults'
<1>1. faults \in Nat /\ faults' = faults + 1
  BY DEF TypeOK
<1>2. Cardinality(lost) \in Nat
  BY FS_CardinalityType
<1>3. /\ IsFiniteSet(lost \cup {m})
      /\ Cardinality(lost \cup {m}) = Cardinality(lost) \/ Cardinality(lost \cup {m}) = Cardinality(lost) + 1
  BY FS_AddElement
<1>4. Cardinality(lost \cup {m}) <= faults'
  BY <1>1, <1>2, <1>3
<1>5. CASE lost' = lost \cup {m}
  BY <1>3, <1>4, <1>5
<1>6. CASE lost' = lost
  BY <1>1, <1>2, <1>6
<1> QED BY <1>5, <1>6

LostCounted == IsFiniteSet(lost) /\ Cardinality(lost) <= faults

LEMMA NextLostCounted == TypeOK /\ LostCounted /\ [Next]_writerVars => LostCounted'
<1> SUFFICES ASSUME TypeOK, LostCounted, [Next]_writerVars PROVE LostCounted'
  OBVIOUS
<1> USE DEF LostCounted, lossVars
<1>1. ASSUME UNCHANGED <<lost, faults>> PROVE LostCounted'
  BY <1>1
<1>2. ASSUME NEW kind, Fault(kind), lost' = lost \cup {hand} \/ lost' = lost PROVE LostCounted'
  BY <1>2, OneMoreLost DEF Fault
<1>3. ASSUME NEW p \in Partitions, Produce(p) \/ Poll(p) PROVE LostCounted'
  BY <1>1, <1>3 DEF Produce, Poll
<1>4. ASSUME Tick \/ Handle \/ Commit \/ Start \/ UNCHANGED writerVars PROVE LostCounted'
  BY <1>1, <1>4 DEF Tick, Handle, Commit, Start, writerVars
<1>5. CASE HandleFails
  BY <1>2, <1>5 DEF HandleFails
<1>6. CASE Stop
  BY <1>2, <1>6 DEF Stop
<1>7. CASE Crash
  BY <1>2, <1>7 DEF Crash
<1>8. CASE RedisRestart
  BY <1>2, <1>8 DEF RedisRestart
<1> QED BY <1>3, <1>4, <1>5, <1>6, <1>7, <1>8 DEF Next

\* The part of the invariant that places the offsets.
Offsets == CommitBehind /\ HandPolled /\ RereadBounded /\ RepeatsNeedCrashes

\* The messages a consumer has gone past, without their number.
Accounted == \A m \in Messages : Passed(m) => Applied(m) \/ m = hand \/ m \in lost \cup wiped

LEMMA IndParts == IndInv <=> TypeOK /\ LostCounted /\ Offsets /\ Accounted
BY DEF IndInv, LostCounted, Offsets, Accounted, PassedAccounted

LEMMA NatFacts ==
  ASSUME TypeOK
  PROVE  /\ \A m \in Messages : /\ m[1] \in Partitions /\ m[2] \in Nat /\ m[2] >= 1
                                /\ m # NoMsg /\ m = <<m[1], m[2]>> /\ applied[m] \in Nat
         /\ \A p \in Partitions : /\ pos[p] \in Nat /\ end[p] \in Nat /\ pos[p] <= end[p]
                                  /\ committed[p] \in Nat \/ committed[p] = NoOffset
         /\ crashes \in Nat /\ up \in BOOLEAN
<1>1. \A m \in Messages : /\ m[1] \in Partitions /\ m[2] \in Nat /\ m[2] >= 1
                          /\ m # NoMsg /\ m = <<m[1], m[2]>>
  BY MessageFacts, LogFacts
<1>2. \A m \in Messages : applied[m] \in Nat
  BY DEF TypeOK
<1>3. /\ \A p \in Partitions : /\ pos[p] \in Nat /\ end[p] \in Nat /\ pos[p] <= end[p]
                               /\ committed[p] \in Nat \/ committed[p] = NoOffset
      /\ crashes \in Nat /\ up \in BOOLEAN
  BY DEF TypeOK
<1> QED BY <1>1, <1>2, <1>3

\* What a commit of Polled stores.
LEMMA PolledFacts ==
  ASSUME TypeOK, CommitBehind, up, NEW p \in Partitions
  PROVE  /\ Polled[p] <= pos[p]
         /\ Polled[p] = NoOffset => pos[p] = 0
         /\ Polled[p] # NoOffset => Polled[p] = pos[p]
BY DEF TypeOK, CommitBehind, Polled, NoOffset

LEMMA ProduceInd ==
  ASSUME IndInv, NEW p \in Partitions, Produce(p)
  PROVE  Offsets' /\ Accounted'
<1>1. \A x \in Partitions : end'[x] >= end[x] /\ end'[x] \in Nat
  BY DEF Produce, IndInv, TypeOK
<1>2. UNCHANGED <<consumerVars, redisVars, tallyVars, lossVars>>
  BY DEF Produce
<1> QED BY <1>1, <1>2, IndParts, NatFacts
   DEF IndInv, Offsets, Accounted, CommitBehind, HandPolled, RereadBounded, RepeatsNeedCrashes,
       Passed, Covered, Applied, Resume, consumerVars, tallyVars, lossVars, NoOffset

LEMMA PollInd ==
  ASSUME IndInv, NEW p \in Partitions, Poll(p)
  PROVE  Offsets' /\ Accounted'
<1> DEFINE polled == <<p, pos[p] + 1>>
<1>0. UNCHANGED <<end, up, committed, applied, lost, wiped, crashes>> /\ up /\ hand = NoMsg
      /\ hand' = polled /\ pos' = [pos EXCEPT ![p] = @ + 1] /\ pos[p] < end[p]
  BY DEF Poll, topicVars, tallyVars, lossVars
<1>1. pos'[p] = pos[p] + 1 /\ \A x \in Partitions : x # p => pos'[x] = pos[x]
  BY <1>0 DEF IndInv, TypeOK
<1>2. polled \in Messages /\ polled[1] = p /\ polled[2] = pos[p] + 1
  <2>1. pos[p] + 1 \in 1..Len(Log[p])
    BY <1>0, LogFacts DEF IndInv, TypeOK
  <2> QED BY <2>1, MessageFacts
<1> HIDE DEF polled
<1>n. TypeOK
  BY DEF IndInv
<1>3. CommitBehind'
  BY <1>0, <1>1, <1>n, NatFacts DEF IndInv, CommitBehind, NoOffset
<1>4. HandPolled'
  BY <1>0, <1>1, <1>2, <1>n, NatFacts DEF IndInv, HandPolled, RepeatsNeedCrashes
<1>5. RereadBounded'
  BY <1>0 DEF IndInv, RereadBounded
<1>6. RepeatsNeedCrashes'
  BY <1>0, <1>1, <1>n, NatFacts DEF IndInv, RepeatsNeedCrashes
<1>7. Accounted'
  <2> SUFFICES ASSUME NEW m \in Messages, Passed(m)' PROVE Applied(m)' \/ m = hand' \/ m \in (lost \cup wiped)'
    BY DEF Accounted
  <2>1. CASE Passed(m)
    BY <1>0, <1>n, <2>1, NatFacts, IndParts DEF Accounted, Applied
  <2>2. CASE ~Passed(m)
    <3>1. m[1] = p /\ m[2] = pos[p] + 1
      BY <1>0, <1>1, <1>n, <2>2, NatFacts DEF Passed, Covered
    <3> QED BY <1>0, <1>n, <3>1, NatFacts DEF polled
  <2> QED BY <2>1, <2>2
<1> QED BY <1>3, <1>4, <1>5, <1>6, <1>7 DEF Offsets

\* The message in hand is done: applied, or skipped by a fault.
LEMMA DoneInd ==
  ASSUME IndInv, hand # NoMsg, hand' = NoMsg,
         UNCHANGED <<end, up, pos, committed, wiped, crashes>>,
         \/ applied' = [applied EXCEPT ![hand] = @ + 1] /\ lost' = lost
         \/ applied' = applied /\ lost' = lost \cup {hand}
  PROVE  Offsets' /\ Accounted'
<1>n. TypeOK
  BY DEF IndInv
<1>1. hand \in Messages /\ up /\ pos[hand[1]] = hand[2] /\ applied[hand] <= crashes
  BY DEF IndInv, HandPolled, TypeOK
<1>2. \A m \in Messages : /\ applied'[m] >= applied[m]
                          /\ m # hand => applied'[m] = applied[m]
                          /\ applied'[m] <= applied[m] + 1 /\ applied'[m] \in Nat
  <2>1. applied \in [Messages -> Nat]
    BY <1>n DEF TypeOK
  <2>2. applied' = [applied EXCEPT ![hand] = @ + 1] \/ applied' = applied
    OBVIOUS
  <2> QED BY ONLY <2>1, <2>2
<1>3. CommitBehind' /\ HandPolled' /\ RereadBounded'
  BY <1>1 DEF IndInv, CommitBehind, HandPolled, RereadBounded
<1>4. RepeatsNeedCrashes'
  BY <1>1, <1>2, <1>n, NatFacts DEF IndInv, RepeatsNeedCrashes
<1>5. Accounted'
  <2> SUFFICES ASSUME NEW m \in Messages, Passed(m)' PROVE Applied(m)' \/ m = hand' \/ m \in (lost \cup wiped)'
    BY DEF Accounted
  <2>1. Applied(m) \/ m = hand \/ m \in lost \cup wiped
    BY IndParts DEF Accounted, Passed, Covered
  <2>2. CASE m = hand
    <3>1. applied' = [applied EXCEPT ![hand] = @ + 1] => applied'[m] > 0
      BY <1>1, <1>n, <2>2, NatFacts DEF TypeOK
    <3> QED BY <2>2, <3>1 DEF Applied
  <2>3. CASE m # hand
    BY <1>2, <2>1, <2>3, <1>n, NatFacts DEF Applied
  <2> QED BY <2>2, <2>3
<1> QED BY <1>3, <1>4, <1>5 DEF Offsets

LEMMA CommitInd ==
  ASSUME IndInv, Commit
  PROVE  Offsets' /\ Accounted'
<1>n. TypeOK /\ CommitBehind
  BY DEF IndInv
<1>0. UNCHANGED <<end, up, pos, hand, applied, lost, wiped, crashes>> /\ up /\ committed' = Polled
  BY DEF Commit, topicVars, tallyVars, lossVars
<1>1. \A p \in Partitions : committed'[p] <= pos[p]
  BY <1>0, <1>n, PolledFacts
<1>2. CommitBehind'
  <2>1. \A p \in Partitions : committed'[p] \in Nat \cup {NoOffset}
    BY <1>0, <1>n, PolledType
  <2> QED BY <1>0, <1>1, <1>n, <2>1, NatFacts DEF CommitBehind, NoOffset
<1>3. HandPolled' /\ RereadBounded' /\ RepeatsNeedCrashes'
  BY <1>0 DEF IndInv, HandPolled, RereadBounded, RepeatsNeedCrashes
<1>4. Accounted'
  <2> SUFFICES ASSUME NEW m \in Messages, Passed(m)' PROVE Applied(m)' \/ m = hand' \/ m \in (lost \cup wiped)'
    BY DEF Accounted
  <2>1. Passed(m)
    BY <1>0, <1>n, PolledFacts, NatFacts DEF Passed, Covered, NoOffset
  <2> QED BY <1>0, <2>1, IndParts DEF Accounted, Applied
<1> QED BY <1>2, <1>3, <1>4 DEF Offsets

LEMMA StopInd ==
  ASSUME IndInv, Stop
  PROVE  Offsets' /\ Accounted'
<1>n. TypeOK /\ CommitBehind
  BY DEF IndInv
<1>0. /\ UNCHANGED <<end, pos, hand, applied, lost, wiped, crashes>>
      /\ up /\ up' = FALSE /\ committed' = Polled /\ hand = NoMsg
  BY DEF Stop, topicVars, tallyVars, lossVars
<1>1. \A p \in Partitions : committed'[p] <= pos[p] /\ committed'[p] \in Nat \cup {NoOffset}
  BY <1>0, <1>n, PolledFacts, PolledType
<1>2. CommitBehind' /\ HandPolled'
  BY <1>0, <1>1, <1>n, NatFacts DEF CommitBehind, HandPolled, NoOffset
<1>3. RereadBounded'
  <2> SUFFICES ASSUME NEW m \in Messages, Resume(m[1])' < m[2] PROVE applied'[m] <= crashes'
    BY DEF RereadBounded
  <2>1. pos[m[1]] <= Resume(m[1])'
    BY <1>0, <1>n, PolledFacts, NatFacts DEF Resume, NoOffset
  <2>2. Resume(m[1])' \in Nat
    BY <1>1, <1>n, NatFacts DEF Resume, NoOffset
  <2>3. ~(pos[m[1]] >= m[2])
    BY <2>1, <2>2, <1>n, NatFacts
  <2> QED BY <1>0, <1>n, <2>3, NatFacts DEF IndInv, RepeatsNeedCrashes
<1>4. RepeatsNeedCrashes'
  BY <1>0 DEF IndInv, RepeatsNeedCrashes
<1>5. Accounted'
  BY <1>0, <1>1, <1>n, IndParts, NatFacts DEF Accounted, Passed, Covered, Applied, NoOffset
<1> QED BY <1>2, <1>3, <1>4, <1>5 DEF Offsets

LEMMA CrashInd ==
  ASSUME IndInv, Crash
  PROVE  Offsets' /\ Accounted'
<1>n. TypeOK
  BY DEF IndInv
<1>0. /\ UNCHANGED <<end, pos, committed, applied, wiped>> /\ up /\ up' = FALSE /\ hand' = NoMsg
      /\ crashes' = crashes + 1
      /\ lost' = IF hand # NoMsg /\ Covered(hand) THEN lost \cup {hand} ELSE lost
  BY DEF Crash, topicVars, tallyVars
<1>1. CommitBehind' /\ HandPolled'
  BY <1>0 DEF IndInv, CommitBehind, HandPolled
<1>2. \A m \in Messages : applied'[m] <= crashes'
  BY <1>0, <1>n, NatFacts DEF IndInv, RepeatsNeedCrashes
<1>3. RereadBounded'
  BY <1>2 DEF RereadBounded
<1>4. RepeatsNeedCrashes'
  BY <1>0, <1>2, <1>n, NatFacts DEF RepeatsNeedCrashes
<1>5. Accounted'
  BY <1>0, <1>n, IndParts, NatFacts DEF Accounted, Passed, Covered, Applied
<1> QED BY <1>1, <1>3, <1>4, <1>5 DEF Offsets

LEMMA StartInd ==
  ASSUME IndInv, Start
  PROVE  Offsets' /\ Accounted'
<1>n. TypeOK /\ CommitBehind
  BY DEF IndInv
<1>0. /\ UNCHANGED <<end, hand, committed, applied, lost, wiped, crashes>> /\ ~up /\ up'
      /\ pos' = [p \in Partitions |-> Resume(p)]
  BY DEF Start, topicVars, tallyVars, lossVars
<1>1. \A p \in Partitions : pos'[p] = Resume(p) /\ Resume(p) \in Nat /\ committed[p] <= Resume(p)
  BY <1>0, <1>n, NatFacts DEF Resume, NoOffset
<1>2. CommitBehind'
  BY <1>0, <1>1, <1>n DEF CommitBehind
<1>3. HandPolled' /\ RereadBounded'
  BY <1>0 DEF IndInv, HandPolled, RereadBounded
<1>4. RepeatsNeedCrashes'
  <2> SUFFICES ASSUME NEW m \in Messages
               PROVE  applied[m] <= crashes + (IF Resume(m[1]) >= m[2] THEN 1 ELSE 0)
    BY <1>0, <1>1, <1>n, NatFacts DEF RepeatsNeedCrashes
  <2>1. CASE Resume(m[1]) >= m[2]
    BY <1>n, <2>1, NatFacts DEF IndInv, RepeatsNeedCrashes
  <2>2. CASE ~(Resume(m[1]) >= m[2])
    <3>1. Resume(m[1]) < m[2]
      BY <1>1, <1>n, <2>2, NatFacts
    <3> QED BY <1>0, <1>n, <2>2, <3>1, NatFacts DEF IndInv, RereadBounded
  <2> QED BY <2>1, <2>2
<1>5. Accounted'
  <2> SUFFICES ASSUME NEW m \in Messages, Passed(m)' PROVE Applied(m)' \/ m = hand' \/ m \in (lost \cup wiped)'
    BY DEF Accounted
  <2>1. Covered(m)
    BY <1>0, <1>1, <1>n, NatFacts DEF Passed, Covered, Resume, NoOffset
  <2> QED BY <1>0, <2>1, IndParts DEF Accounted, Passed, Applied
<1> QED BY <1>2, <1>3, <1>4, <1>5 DEF Offsets

LEMMA WipeInd ==
  ASSUME IndInv, RedisRestart
  PROVE  Offsets' /\ Accounted'
<1>n. TypeOK
  BY DEF IndInv
<1>0. /\ UNCHANGED <<end, up, pos, hand, committed, lost, crashes>>
      /\ wiped' = wiped \cup {m \in Messages : applied[m] > 0}
      /\ \A m \in Messages : applied'[m] = 0
  BY DEF RedisRestart, topicVars, consumerVars
<1>1. CommitBehind'
  BY <1>0 DEF IndInv, CommitBehind
<1>2. HandPolled'
  BY <1>0, <1>n, NatFacts DEF IndInv, HandPolled, TypeOK
<1>3. RereadBounded' /\ RepeatsNeedCrashes'
  BY <1>0, <1>n, NatFacts DEF RereadBounded, RepeatsNeedCrashes
<1>4. Accounted'
  BY <1>0, IndParts DEF Accounted, Passed, Covered, Applied
<1> QED BY <1>1, <1>2, <1>3, <1>4 DEF Offsets

LEMMA InitInd == Init => IndInv
<1> SUFFICES ASSUME Init PROVE IndInv
  OBVIOUS
<1>1. TypeOK
  BY InitType
<1>2. LostCounted
  BY FS_EmptySet DEF Init, LostCounted
<1>3. Offsets
  BY <1>1, NatFacts DEF Init, Offsets, CommitBehind, HandPolled, RereadBounded, RepeatsNeedCrashes,
     NoOffset
<1>4. Accounted
  BY <1>1, NatFacts DEF Init, Accounted, Passed, Covered, NoOffset
<1> QED BY <1>1, <1>2, <1>3, <1>4, IndParts

LEMMA NextInd == IndInv /\ [Next]_writerVars => IndInv'
<1> SUFFICES ASSUME IndInv, [Next]_writerVars PROVE IndInv'
  OBVIOUS
<1>1. TypeOK'
  BY NextType DEF IndInv
<1>2. LostCounted'
  BY NextLostCounted, IndParts
<1>3. Offsets' /\ Accounted'
  <2>1. ASSUME NEW p \in Partitions, Produce(p) \/ Poll(p) PROVE Offsets' /\ Accounted'
    BY <2>1, ProduceInd, PollInd
  <2>2. CASE Handle
    BY <2>2, DoneInd DEF Handle, Apply, topicVars, lossVars
  <2>3. CASE HandleFails
    BY <2>3, DoneInd DEF HandleFails, Apply, topicVars, tallyVars
  <2>4. CASE Commit \/ Stop \/ Crash \/ Start \/ RedisRestart
    BY <2>4, CommitInd, StopInd, CrashInd, StartInd, WipeInd
  <2>5. CASE Tick \/ UNCHANGED writerVars
    <3>1. UNCHANGED <<end, consumerVars, tallyVars, lossVars>>
      BY <2>5 DEF Tick, writerVars, topicVars
    <3> QED BY <3>1, IndParts
       DEF Offsets, Accounted, CommitBehind, HandPolled, RereadBounded, RepeatsNeedCrashes,
           Passed, Covered, Applied, Resume, consumerVars, tallyVars, lossVars
  <2> QED BY <2>1, <2>2, <2>3, <2>4, <2>5 DEF Next
<1> QED
  <2>1. (TypeOK /\ LostCounted /\ Offsets /\ Accounted => IndInv)'
    BY IndParts, PTL
  <2> QED BY <1>1, <1>2, <1>3, <2>1

-----------------------------------------------------------------------------
(* The summary *)

\* Flink has written nothing before its time.
WrittenInPast == \A m \in Messages : m[2] <= end[m[1]] => RecordOf(m).time <= now

\* The hash of a key holds the last result applied, and neither the hash nor
\* its entry in the index goes before the retention of its minute has passed.
KeyServed(k) ==
  IF latest[k] = NoResult THEN k \notin index
  ELSE /\ hash[k].n = latest[k]
       /\ hash[k].exp >= k[2] + Ttl
       /\ k[2] > now - Ttl => k \in index

ServedInv ==
  /\ IndInv
  /\ WrittenInPast
  /\ \A k \in Keys : KeyServed(k)

\* A key's minute is a multiple of the minute.
LEMMA KeyMinutes ==
  /\ \A t \in Nat : MinuteKey(t) \in Nat /\ MinuteKey(t) <= t
  /\ \A k \in Keys : k[2] \in Nat /\ \E q \in Nat : k[2] = Minute * q
<1>1. ASSUME NEW t \in Nat PROVE /\ MinuteKey(t) \in Nat /\ MinuteKey(t) <= t
                                 /\ \E q \in Nat : MinuteKey(t) = Minute * q
  <2>1. PICK q \in Nat : q = t \div Minute
    BY QuotientFacts, WriterAssumption
  <2>2. Minute \in Nat /\ Minute * q <= t /\ Minute * q \in Nat
    BY <2>1, QuotientFacts, QuotientOfMultiple, WriterAssumption
  <2>3. MinuteKey(t) = Minute * q
    BY <2>1, <2>2 DEF MinuteKey
  <2> QED BY <2>2, <2>3
<1>2. ASSUME NEW k \in Keys PROVE k[2] \in Nat /\ \E q \in Nat : k[2] = Minute * q
  <2>1. k[2] \in Minutes
    BY DEF Keys
  <2>2. PICK t \in Times : k[2] = MinuteKey(t)
    BY <2>1 DEF Minutes
  <2>3. t \in Nat
    BY LogFacts DEF Times, Record
  <2> QED BY <1>1, <2>2, <2>3
<1> QED BY <1>1, <1>2

\* writer.py 213-226: a result applied is the last one of its key, indexed for
\* as long as its minute is retained.
LEMMA AggServed ==
  ASSUME ServedInv, hand \in Messages, now \in Nat, now' = now, IsKind(hand, "agg"), HandleAgg(hand)
  PROVE  \A k \in Keys : KeyServed(k)'
<1>n. TypeOK /\ Ttl \in Nat
  BY WriterAssumption DEF ServedInv, IndInv
<1>0. PICK key, n : key = KeyOf(hand) /\ n = RecordOf(hand).count
  OBVIOUS
<1>1. key \in Keys /\ n \in Nat /\ RecordOf(hand).time \in Nat /\ key[2] = MinuteKey(RecordOf(hand).time)
  BY <1>0, LogFacts, KeyFacts DEF Record, KeyOf
<1>2. RecordOf(hand).time <= now
  <2>1. hand[1] \in Partitions /\ hand[2] \in Nat /\ hand # NoMsg
    BY <1>n, NatFacts
  <2>2. pos[hand[1]] = hand[2] /\ pos[hand[1]] <= end[hand[1]]
    BY <2>1 DEF ServedInv, IndInv, HandPolled, TypeOK
  <2> QED BY <2>1, <2>2 DEF ServedInv, WrittenInPast
<1>3. key[2] <= now /\ key[2] \in Nat
  BY <1>1, <1>2, KeyMinutes
<1>4. /\ hash' = [hash EXCEPT ![key] = [n |-> n, exp |-> now + Ttl]]
      /\ index' = Trim(index \cup {key})
      /\ latest' = [latest EXCEPT ![key] = n]
  BY <1>0 DEF HandleAgg
<1>5. KeyServed(key)'
  <2>1. hash'[key] = [n |-> n, exp |-> now + Ttl] /\ latest'[key] = n /\ n # NoResult
    BY <1>1, <1>4, <1>n DEF TypeOK, NoResult
  <2>2. key[2] > now - Ttl => key \in index'
    BY <1>4 DEF Trim
  <2> QED BY <1>3, <1>n, <2>1, <2>2 DEF KeyServed
<1>6. ASSUME NEW k \in Keys, k # key PROVE KeyServed(k)'
  <2>1. hash'[k] = hash[k] /\ latest'[k] = latest[k]
    BY <1>4, <1>6, <1>n DEF TypeOK
  <2>2. k \in index' <=> k \in index /\ k[2] > now - Ttl
    BY <1>4, <1>6 DEF Trim
  <2>3. KeyServed(k)
    BY DEF ServedInv
  <2> QED BY <2>1, <2>2, <2>3 DEF KeyServed
<1> QED BY <1>5, <1>6

LEMMA ApplyServed ==
  ASSUME ServedInv, hand \in Messages, now \in Nat, now' = now, Apply(hand)
  PROVE  \A k \in Keys : KeyServed(k)'
<1>1. CASE IsKind(hand, "agg") /\ HandleAgg(hand)
  BY <1>1, AggServed
<1>2. CASE HandleLate(hand) \/ HandleAlert(hand)
  <2>1. UNCHANGED <<hash, index, latest>>
    BY <1>2 DEF HandleLate, HandleAlert
  <2> QED BY <2>1 DEF ServedInv, KeyServed
<1> QED BY <1>1, <1>2 DEF Apply

LEMMA NextServed == ServedInv /\ [Next]_writerVars => ServedInv'
<1> SUFFICES ASSUME ServedInv, [Next]_writerVars PROVE ServedInv'
  OBVIOUS
<1>1. IndInv'
  BY NextInd DEF ServedInv
<1>n. TypeOK /\ now \in Nat /\ Ttl \in Nat
  BY WriterAssumption DEF ServedInv, IndInv, TypeOK
<1>2. WrittenInPast'
  <2> SUFFICES ASSUME NEW m \in Messages, m[2] <= end'[m[1]] PROVE RecordOf(m).time <= now'
    BY DEF WrittenInPast, RecordOf
  <2>1. now' \in Nat /\ now <= now'
    <3>1. now' = now \/ now' = now + 1
      BY DEF Next, Produce, Tick, Poll, Handle, HandleFails, Commit, Stop, Crash, Start, RedisRestart,
             topicVars, writerVars
    <3> QED BY <1>n, <3>1
  <2>2. RecordOf(m).time \in Nat \cup {NoTime} /\ m[1] \in Partitions /\ m[2] \in Nat
    BY <1>n, LogFacts, NatFacts DEF Record
  <2>3. CASE m[2] <= end[m[1]]
    <3>1. RecordOf(m).time <= now
      BY <2>3 DEF ServedInv, WrittenInPast
    <3> QED BY <1>n, <2>1, <2>2, <3>1 DEF NoTime
  <2>4. CASE ~(m[2] <= end[m[1]])
    <3>1. PICK p \in Partitions : Produce(p)
      <4>1. end' # end
        BY <2>4
      <4>2. end' = end \/ \E p \in Partitions : Produce(p)
        BY DEF Next, Tick, Poll, Handle, HandleFails, Commit, Stop, Crash, Start, RedisRestart,
               topicVars, writerVars
      <4> QED BY <4>1, <4>2
    <3>2. m[1] = p /\ m[2] = end[p] + 1
      <4>1. end' = [end EXCEPT ![p] = end[p] + 1] /\ end \in [Partitions -> Nat]
        BY <1>n, <3>1 DEF Produce, TypeOK
      <4>2. m[2] <= end'[m[1]] /\ m[2] \in Nat /\ m[1] \in Partitions /\ end[m[1]] \in Nat /\ ~(m[2] <= end[m[1]])
        BY <2>2, <2>4, <4>1
      <4>3. m[1] = p
        BY <4>1, <4>2
      <4>4. end'[p] = end[p] + 1
        BY <4>1
      <4> QED BY <4>2, <4>3, <4>4
    <3> QED BY <3>1, <3>2 DEF Produce, RecordOf
  <2> QED BY <2>3, <2>4
<1>3. \A k \in Keys : KeyServed(k)'
  <2>1. CASE UNCHANGED <<hash, index, latest>> /\ now' >= now /\ now' \in Nat
    <3> SUFFICES ASSUME NEW k \in Keys PROVE KeyServed(k)'
      OBVIOUS
    <3>1. KeyServed(k) /\ k[2] \in Nat
      BY KeyMinutes DEF ServedInv
    <3> QED BY <1>n, <2>1, <3>1 DEF KeyServed
  <2>2. CASE hand # NoMsg /\ Apply(hand) /\ UNCHANGED now
    BY <1>n, <2>2, ApplyServed DEF TypeOK
  <2>3. CASE RedisRestart
    BY <2>3 DEF RedisRestart, EmptyRedis, KeyServed
  <2>4. ASSUME NEW p \in Partitions, Produce(p) \/ Poll(p) PROVE \A k \in Keys : KeyServed(k)'
    BY <1>n, <2>1, <2>4 DEF Produce, Poll, redisVars, tallyVars, topicVars
  <2>5. CASE Tick \/ Commit \/ Stop \/ Crash \/ Start \/ UNCHANGED writerVars
    BY <1>n, <2>1, <2>5 DEF Tick, Commit, Stop, Crash, Start, writerVars, redisVars, tallyVars, topicVars
  <2>6. CASE Handle
    BY <2>2, <2>6 DEF Handle, topicVars
  <2>7. CASE HandleFails
    BY <1>n, <2>1, <2>2, <2>7 DEF HandleFails, redisVars, tallyVars, topicVars
  <2> QED BY <2>3, <2>4, <2>5, <2>6, <2>7 DEF Next
<1> QED
  BY <1>1, <1>2, <1>3 DEF ServedInv

LEMMA InitServed == Init => ServedInv
<1> SUFFICES ASSUME Init PROVE ServedInv
  OBVIOUS
<1>1. IndInv
  BY InitInd
<1>2. WrittenInPast
  BY <1>1, NatFacts DEF Init, WrittenInPast, IndInv
<1>3. \A k \in Keys : KeyServed(k)
  BY DEF Init, KeyServed
<1> QED BY <1>1, <1>2, <1>3 DEF ServedInv

\* The keys the summary reads are those of the range that had a result.
LEMMA SummaryKeys ==
  ASSUME ServedInv, NEW from \in Nat, NEW to \in Nat, now - Ttl < MinuteKey(from), NEW k
  PROVE  /\ k \in index /\ k[2] >= MinuteKey(from) /\ k[2] <= MinuteKey(to) - 1 /\ Alive(hash[k])
         <=> /\ k \in Keys /\ k[2] \div Minute \in from \div Minute .. to \div Minute - 1
             /\ latest[k] # NoResult
<1>n. TypeOK /\ now \in Nat /\ Ttl \in Nat /\ Minute \in Nat \ {0}
  BY WriterAssumption DEF ServedInv, IndInv, TypeOK
<1> SUFFICES ASSUME k \in Keys
             PROVE  /\ k \in index /\ k[2] >= MinuteKey(from) /\ k[2] <= MinuteKey(to) - 1 /\ Alive(hash[k])
                    <=> /\ k[2] \div Minute \in from \div Minute .. to \div Minute - 1
                        /\ latest[k] # NoResult
  BY <1>n DEF TypeOK
<1>1. PICK q \in Nat : k[2] = Minute * q
  BY KeyMinutes
<1>2. k[2] \div Minute = q /\ k[2] \in Nat
  BY <1>n, <1>1, QuotientOfMultiple
<1>3. PICK a \in Nat : a = from \div Minute
  BY <1>n, QuotientFacts
<1>4. PICK b \in Nat : b = to \div Minute
  BY <1>n, QuotientFacts
<1>5. MinuteKey(from) = Minute * a /\ MinuteKey(to) = Minute * b
  BY <1>n, <1>3, <1>4 DEF MinuteKey
<1>6. Minute * a \in Nat /\ Minute * b \in Nat
  BY <1>n, QuotientOfMultiple
<1>7. k[2] >= MinuteKey(from) <=> a <= q
  <2>1. a < q => Minute * a <= Minute * q
    BY <1>n, <1>1, <1>2, <1>6, NextMultiple
  <2>2. q < a => Minute * q < Minute * a
    BY <1>n, <1>1, <1>2, <1>6, NextMultiple
  <2> QED BY <1>1, <1>2, <1>5, <1>6, <2>1, <2>2
<1>8. k[2] <= MinuteKey(to) - 1 <=> q <= b - 1
  <2>1. b < q => Minute * b <= Minute * q
    BY <1>n, <1>1, <1>2, <1>6, NextMultiple
  <2>2. q < b => Minute * q < Minute * b
    BY <1>n, <1>1, <1>2, <1>6, NextMultiple
  <2> QED BY <1>1, <1>2, <1>5, <1>6, <2>1, <2>2
<1>9. KeyServed(k)
  BY DEF ServedInv
<1>10. ASSUME k[2] >= MinuteKey(from), latest[k] # NoResult PROVE k \in index /\ Alive(hash[k])
  <2>1. now - Ttl < k[2]
    BY <1>n, <1>2, <1>5, <1>6, <1>10
  <2>2. hash[k].exp \in Nat
    BY <1>n DEF TypeOK, Entry
  <2> QED BY <1>n, <1>2, <1>9, <1>10, <2>1, <2>2 DEF KeyServed, Alive
<1>11. latest[k] = NoResult => k \notin index
  BY <1>9 DEF KeyServed
<1>12. q \in a .. b - 1 <=> a <= q /\ q <= b - 1
  OBVIOUS
<1> QED BY <1>2, <1>3, <1>4, <1>7, <1>8, <1>10, <1>11, <1>12

LEMMA ServedExact == ServedInv => SummaryExact
<1> SUFFICES ASSUME ServedInv, NEW from \in 0..MaxNow, NEW to \in 0..MaxNow, now - Ttl < MinuteKey(from)
             PROVE  LET inRange == {k \in Keys : /\ k[2] \div Minute \in from \div Minute .. to \div Minute - 1
                                                 /\ latest[k] # NoResult}
                    IN  SumRange(from, to) = SumFunction([k \in inRange |-> latest[k]])
  BY DEF SummaryExact
<1> DEFINE inRange == {k \in Keys : /\ k[2] \div Minute \in from \div Minute .. to \div Minute - 1
                                    /\ latest[k] # NoResult}
           found == {k \in index : k[2] >= MinuteKey(from) /\ k[2] <= MinuteKey(to) - 1}
           shown == {key \in found : Alive(hash[key])}
<1>1. from \in Nat /\ to \in Nat
  BY WriterAssumption
<1>2. shown = inRange
  BY <1>1, SummaryKeys
<1>3. \A k \in inRange : hash[k].n = latest[k]
  BY DEF ServedInv, KeyServed
<1>4. [k \in shown |-> hash[k].n] = [k \in inRange |-> latest[k]]
  BY <1>2, <1>3
<1> QED BY <1>4 DEF SumRange

-----------------------------------------------------------------------------
(* late:total *)

\* The counts of the minutes, expired or not.
LateCounts == [t \in Minutes |-> lateMinute[t].n]

LateInv ==
  /\ TypeOK
  /\ lateTotal = SumFunctionOnSet(applied, Timed)
  /\ SumFunctionOnSet(LateCounts, Minutes) <= lateTotal

LEMMA LogIsFinite == IsFiniteSet(Messages) /\ IsFiniteSet(Timed) /\ IsFiniteSet(Minutes)
<1>1. IsFiniteSet(Messages)
  <2> DEFINE of == [p \in Partitions |-> {p} \X (1..Len(Log[p]))]
  <2>1. ASSUME NEW p \in Partitions PROVE IsFiniteSet(of[p])
    <3>1. IsFiniteSet({p})
      BY FS_Singleton
    <3>2. IsFiniteSet(1..Len(Log[p]))
      BY LogFacts, FS_Interval
    <3>3. IsFiniteSet({p} \X (1..Len(Log[p])))
      BY <3>1, <3>2, FS_Product
    <3> QED BY <3>3
  <2>2. Messages = UNION {of[p] : p \in Partitions}
    BY DEF Messages
  <2> HIDE DEF of
  <2>3. IsFiniteSet({of[p] : p \in Partitions})
    BY WriterAssumption, FiniteImage
  <2> QED BY <2>1, <2>2, <2>3, FS_UNION
<1>2. IsFiniteSet(Timed)
  BY <1>1, FS_Subset DEF Timed
<1>3. IsFiniteSet(Minutes)
  <2> DEFINE at == [m \in Messages |-> RecordOf(m).time]
             minute == [t \in Times |-> MinuteKey(t)]
  <2>1. Times \subseteq {at[m] : m \in Messages}
    BY DEF Times
  <2>2. Minutes = {minute[t] : t \in Times}
    BY DEF Minutes
  <2> HIDE DEF at, minute
  <2>3. IsFiniteSet({at[m] : m \in Messages})
    BY <1>1, FiniteImage
  <2>4. IsFiniteSet(Times)
    BY <2>1, <2>3, FS_Subset
  <2> QED BY <2>2, <2>4, FiniteImage
<1> QED BY <1>1, <1>2, <1>3

\* Another message than a timed late event leaves the total.
LEMMA OtherApplied ==
  ASSUME TypeOK, NEW m \in Messages, m \notin Timed, applied' = [applied EXCEPT ![m] = @ + 1]
  PROVE  SumFunctionOnSet(applied', Timed) = SumFunctionOnSet(applied, Timed)
<1>1. \A x \in Timed : applied'[x] = applied[x]
  BY DEF Timed, TypeOK
<1> QED BY <1>1, LogIsFinite, SumDependsOnValues

\* A timed late event adds one to the total.
LEMMA LateApplied ==
  ASSUME TypeOK, NEW m \in Timed, applied' = [applied EXCEPT ![m] = @ + 1]
  PROVE  SumFunctionOnSet(applied', Timed) = SumFunctionOnSet(applied, Timed) + 1
<1>1. PICK f, g : f = applied /\ g = applied'
  OBVIOUS
<1>2. \A x \in Timed : f[x] \in Int /\ g[x] \in Int
  BY <1>1 DEF Timed, TypeOK
<1>3. \A x \in Timed \ {m} : g[x] = f[x]
  BY <1>1 DEF Timed, TypeOK
<1>4. g[m] = f[m] + 1
  BY <1>1 DEF Timed, TypeOK
<1>5. SumFunctionOnSet(g, Timed) = SumFunctionOnSet(f, Timed) - f[m] + g[m]
  <2>1. IsFiniteSet(Timed)
    BY LogIsFinite
  <2> QED BY <1>2, <1>3, <2>1, SumChange, Z3
<1>6. SumFunctionOnSet(f, Timed) \in Int
  BY <1>2, LogIsFinite, SumType
<1> QED BY <1>1, <1>2, <1>4, <1>5, <1>6

\* ... and at most one to the counts of the minutes.
LEMMA LateCounted ==
  ASSUME TypeOK, NEW t \in Minutes, lateMinute' = [lateMinute EXCEPT ![t] = Incr(lateMinute[t])]
  PROVE  SumFunctionOnSet(LateCounts', Minutes) <= SumFunctionOnSet(LateCounts, Minutes) + 1
<1>1. PICK f, g : f = LateCounts /\ g = LateCounts'
  OBVIOUS
<1>2. lateMinute[t] \in Entry /\ Incr(lateMinute[t]) \in Entry /\ Incr(lateMinute[t]).n <= lateMinute[t].n + 1
  <2>1. lateMinute[t] \in Entry /\ now \in Nat /\ Ttl \in Nat
    BY WriterAssumption DEF TypeOK
  <2> QED BY <2>1 DEF Incr, Entry
<1>3. \A x \in Minutes : lateMinute[x] \in Entry /\ lateMinute'[x] \in Entry
  BY <1>2 DEF TypeOK
<1>4. \A x \in Minutes : f[x] \in Int /\ g[x] \in Int
  BY <1>1, <1>3 DEF LateCounts, Entry
<1>5. \A x \in Minutes \ {t} : g[x] = f[x]
  BY <1>1 DEF LateCounts, TypeOK
<1>6. g[t] <= f[t] + 1
  BY <1>1, <1>2 DEF LateCounts, TypeOK
<1>7. SumFunctionOnSet(g, Minutes) = SumFunctionOnSet(f, Minutes) - f[t] + g[t]
  <2>1. IsFiniteSet(Minutes)
    BY LogIsFinite
  <2> QED BY <1>4, <1>5, <2>1, SumChange, Z3
<1>8. SumFunctionOnSet(f, Minutes) \in Int
  BY <1>4, LogIsFinite, SumType
<1> QED BY <1>1, <1>4, <1>6, <1>7, <1>8

\* writer.py 229-240: the handler adds to both or to neither.
LEMMA ApplyLate ==
  ASSUME LateInv, NEW m \in Messages, Apply(m)
  PROVE  /\ lateTotal' = SumFunctionOnSet(applied', Timed)
         /\ SumFunctionOnSet(LateCounts', Minutes) <= lateTotal'
<1>0. applied' = [applied EXCEPT ![m] = @ + 1] /\ TypeOK
  BY DEF Apply, LateInv
<1>1. CASE m \notin Timed
  <2>1. lateTotal' = lateTotal /\ LateCounts' = LateCounts
    BY <1>1 DEF Apply, HandleAgg, HandleLate, HandleAlert, LateCounts, Timed, IsKind
  <2> QED BY <1>0, <1>1, <2>1, OtherApplied DEF LateInv
<1>2. CASE m \in Timed
  <2>1. PICK t \in Minutes : t = MinuteKey(RecordOf(m).time)
    BY <1>2, KeyFacts DEF Timed
  <2>2. IsKind(m, "late") /\ ~IsKind(m, "agg") /\ ~IsKind(m, "alert") /\ RecordOf(m).time # NoTime
    BY <1>2 DEF Timed, IsKind
  <2>3. HandleLate(m)
    BY <2>2 DEF Apply
  <2>4. lateMinute' = [lateMinute EXCEPT ![t] = Incr(lateMinute[t])] /\ lateTotal' = lateTotal + 1
    BY <1>0, <2>1, <2>2, <2>3 DEF HandleLate, TypeOK
  <2>5. SumFunctionOnSet(applied', Timed) = SumFunctionOnSet(applied, Timed) + 1
    BY <1>0, <1>2, LateApplied
  <2>6. SumFunctionOnSet(LateCounts', Minutes) <= SumFunctionOnSet(LateCounts, Minutes) + 1
    BY <1>0, <2>4, LateCounted
  <2>7. SumFunctionOnSet(LateCounts, Minutes) \in Int /\ SumFunctionOnSet(LateCounts', Minutes) \in Int
        /\ lateTotal \in Int
    <3>1. lateMinute \in [Minutes -> Entry] /\ lateMinute' \in [Minutes -> Entry] /\ lateTotal \in Int
      <4>1. RedisTypes'
        BY <1>0, ApplyType
      <4> QED BY <1>0, <4>1 DEF TypeOK, RedisTypes
    <3>2. \A x \in Minutes : LateCounts[x] \in Int /\ LateCounts'[x] \in Int
      BY <3>1 DEF LateCounts, Entry
    <3> QED BY <3>1, <3>2, LogIsFinite, SumType
  <2> QED BY <2>4, <2>5, <2>6, <2>7 DEF LateInv
<1> QED BY <1>1, <1>2

LEMMA NextLate == IndInv /\ LateInv /\ [Next]_writerVars => LateInv'
<1> SUFFICES ASSUME IndInv, LateInv, [Next]_writerVars PROVE LateInv'
  OBVIOUS
<1>1. TypeOK'
  BY NextType DEF IndInv
<1>2. /\ lateTotal' = SumFunctionOnSet(applied', Timed)
      /\ SumFunctionOnSet(LateCounts', Minutes) <= lateTotal'
  <2>1. ASSUME lateTotal' = lateTotal, lateMinute' = lateMinute, applied' = applied
        PROVE  /\ lateTotal' = SumFunctionOnSet(applied', Timed)
               /\ SumFunctionOnSet(LateCounts', Minutes) <= lateTotal'
    BY <2>1 DEF LateInv, LateCounts
  <2>2. ASSUME hand # NoMsg, Apply(hand)
        PROVE  /\ lateTotal' = SumFunctionOnSet(applied', Timed)
               /\ SumFunctionOnSet(LateCounts', Minutes) <= lateTotal'
    BY <2>2, ApplyLate DEF LateInv, TypeOK
  <2>3. CASE RedisRestart
    <3>1. lateTotal' = 0 /\ \A x \in Timed : applied'[x] = 0
      BY <2>3 DEF RedisRestart, EmptyRedis, Timed
    <3>2. \A t \in Minutes : LateCounts'[t] = 0
      BY <2>3 DEF RedisRestart, EmptyRedis, LateCounts, NoEntry
    <3>3. SumFunctionOnSet(applied', Timed) = 0 /\ SumFunctionOnSet(LateCounts', Minutes) = 0
      BY <3>1, <3>2, LogIsFinite, SumOfZeros
    <3> QED BY <3>1, <3>3
  <2>4. ASSUME NEW p \in Partitions, Produce(p) \/ Poll(p)
        PROVE  /\ lateTotal' = SumFunctionOnSet(applied', Timed)
               /\ SumFunctionOnSet(LateCounts', Minutes) <= lateTotal'
    BY <2>1, <2>4 DEF Produce, Poll, redisVars, tallyVars
  <2>5. CASE Tick \/ Commit \/ Stop \/ Crash \/ Start \/ UNCHANGED writerVars
    BY <2>1, <2>5 DEF Tick, Commit, Stop, Crash, Start, writerVars, redisVars, tallyVars
  <2>6. CASE Handle
    BY <2>2, <2>6 DEF Handle
  <2>7. CASE HandleFails
    BY <2>1, <2>2, <2>7 DEF HandleFails, redisVars, tallyVars
  <2> QED BY <2>3, <2>4, <2>5, <2>6, <2>7 DEF Next
<1> QED BY <1>1, <1>2 DEF LateInv

LEMMA InitLate == Init => LateInv
<1> SUFFICES ASSUME Init PROVE LateInv
  OBVIOUS
<1>1. lateTotal = 0 /\ \A x \in Timed : applied[x] = 0
  BY DEF Init, Timed
<1>2. \A t \in Minutes : LateCounts[t] = 0
  BY DEF Init, LateCounts, NoEntry
<1>3. SumFunctionOnSet(applied, Timed) = 0 /\ SumFunctionOnSet(LateCounts, Minutes) = 0
  BY <1>1, <1>2, LogIsFinite, SumOfZeros
<1> QED BY <1>1, <1>3, InitType DEF LateInv

LEMMA LateAccounted == LateInv => LateTotalAccounted
<1> SUFFICES ASSUME LateInv PROVE LateTotalAccounted
  OBVIOUS
<1> DEFINE f == [t \in Minutes |-> IF Alive(lateMinute[t]) THEN lateMinute[t].n ELSE 0]
<1>1. lateTotal \in Int /\ \A t \in Minutes : lateMinute[t].n \in Nat
  BY DEF LateInv, TypeOK, Entry
<1>2. \A t \in Minutes : f[t] \in Int /\ LateCounts[t] \in Int /\ f[t] <= LateCounts[t]
  BY <1>1 DEF LateCounts
<1>3. SumFunction(f) = SumFunctionOnSet(f, Minutes)
  BY DEF SumFunction
<1> HIDE DEF f
<1>4. SumFunctionOnSet(f, Minutes) <= SumFunctionOnSet(LateCounts, Minutes)
  BY <1>2, LogIsFinite, SumMonotone
<1>5. SumFunctionOnSet(f, Minutes) \in Int /\ SumFunctionOnSet(LateCounts, Minutes) \in Int
  BY <1>2, LogIsFinite, SumType
<1>6. SumFunction(f) <= lateTotal
  BY <1>1, <1>3, <1>4, <1>5 DEF LateInv
<1> QED BY <1>6 DEF LateInv, LateTotalAccounted, f

-----------------------------------------------------------------------------
(* The dashboard *)

\* A sample without lag over all partitions counts committed records only.
LagTrue(sample) ==
  sample.lag = 0 /\ sample.n = Cardinality(Partitions) =>
    \A p \in Partitions : sample.ends[p] <= committed[p]

DashInv ==
  /\ IndInv
  /\ DashTypeOK
  /\ LagTrue(kafka)
  /\ LagTrue(snap.kafka)

\* api.py 226-236: what is left to do after one partition is not negative.
LEMMA BehindFacts ==
  ASSUME IndInv, DashTypeOK, NEW p \in Partitions
  PROVE  Behind(p) \in Nat /\ (Behind(p) = 0 => ends[p] <= committed[p])
<1>1. ends[p] \in Int /\ committed[p] \in Int
  BY DEF IndInv, TypeOK, DashTypeOK, NoEnd, NoOffset
<1> QED BY <1>1 DEF Behind

\* api.py 206-240: the sample the offsets end.
LEMMA OffsetsSampled ==
  ASSUME IndInv, DashTypeOK, SampleOffsets
  PROVE  kafka' \in KafkaSample /\ LagTrue(kafka')
<1> DEFINE counted == {p \in Partitions : committed[p] # NoOffset /\ ends[p] # NoEnd}
           f == [p \in counted |-> Behind(p)]
<1>1. IsFiniteSet(Partitions) /\ counted \subseteq Partitions
  BY WriterAssumption
<1>2. IsFiniteSet(counted) /\ Cardinality(counted) \in Nat
  BY <1>1, FS_Subset, FS_CardinalityType
<1>3. Cardinality(counted) = Cardinality(Partitions) => counted = Partitions
  BY <1>1, FS_Subset
<1>4. ends \in [Partitions -> Nat \cup {NoEnd}]
  BY DEF DashTypeOK
<1>5. \A p \in counted : f[p] \in Nat /\ f[p] = Behind(p)
  BY <1>1, BehindFacts
<1>6. SumFunction(f) = SumFunctionOnSet(f, counted)
  BY DEF SumFunction
<1>7. kafka' = [lag |-> IF GroupAlive THEN SumFunction(f) ELSE NoLag, n |-> Cardinality(counted), ends |-> ends]
      \/ kafka' = [lag |-> NoLag, n |-> 0, ends |-> ends]
  BY DEF SampleOffsets
<1> HIDE DEF f, counted
<1>8. SumFunction(f) \in Nat
  BY <1>2, <1>5, <1>6, SumType
<1>9. ASSUME SumFunction(f) = 0, NEW p \in counted PROVE ends[p] <= committed[p]
  <2>1. f[p] <= SumFunctionOnSet(f, counted)
    BY <1>2, <1>5, SumBoundsTerms
  <2>2. Behind(p) = 0
    BY <1>5, <1>6, <1>9, <2>1
  <2> QED BY <1>1, <2>2, BehindFacts
<1>10. kafka' \in KafkaSample
  BY <1>2, <1>4, <1>7, <1>8 DEF KafkaSample
<1>11. CASE kafka'.lag = 0 /\ kafka'.n = Cardinality(Partitions)
  <2>1. SumFunction(f) = 0 /\ Cardinality(counted) = Cardinality(Partitions) /\ kafka'.ends = ends
    BY <1>7, <1>11 DEF NoLag
  <2> QED BY <1>3, <1>9, <1>10, <2>1 DEF LagTrue
<1>12. CASE ~(kafka'.lag = 0 /\ kafka'.n = Cardinality(Partitions))
  BY <1>10, <1>12 DEF LagTrue
<1> QED BY <1>10, <1>11, <1>12

LEMMA NextDashTypes ==
  ASSUME IndInv, DashTypeOK, DashNext
  PROVE  DashTypeOK'
<1> USE DEF dashVars
<1>n. /\ KafkaEvery \in Nat \ {0} /\ tick \in Nat /\ NoKafka \in KafkaSample
      /\ \A p \in Partitions : end[p] \in Nat
  BY DashboardAssumption DEF IndInv, TypeOK, DashTypeOK, NoKafka, KafkaSample
<1>1. (tick + 1) % KafkaEvery \in 0..KafkaEvery - 1
  BY <1>n
<1>2. [p \in Partitions |-> NoEnd] \in [Partitions -> Nat \cup {NoEnd}] /\ DOMAIN NoCounts = {}
  BY DEF NoCounts
<1>3. CASE UNCHANGED dashVars
  BY <1>3 DEF DashTypeOK
<1>4. CASE SampleIndex
  <2>1. keys' \subseteq Keys
    BY <1>4 DEF SampleIndex, IndInv, TypeOK
  <2> QED BY <1>4, <2>1 DEF SampleIndex, Sampling, DashTypeOK
<1>5. CASE SampleHashes
  <2>1. DOMAIN totals' \subseteq Keys
    <3>1. CASE totals' = [k \in {k \in keys : Alive(hash[k])} |-> hash[k].n]
      BY <3>1 DEF DashTypeOK
    <3>2. CASE totals' = NoCounts
      BY <1>2, <3>2
    <3> QED BY <1>5, <3>1, <3>2 DEF SampleHashes
  <2>2. keys' = {} /\ phase' \in {"ends", "publish"}
    BY <1>5 DEF SampleHashes, Sampling, AfterHashes
  <2> QED BY <1>5, <2>1, <2>2 DEF SampleHashes, DashTypeOK
<1>6. ASSUME NEW p \in Partitions, SampleEnd(p) PROVE DashTypeOK'
  <2>1. ends' \in [Partitions -> Nat \cup {NoEnd}]
    BY <1>6, <1>n DEF SampleEnd, DashTypeOK
  <2>2. phase' \in {"offsets", "ends"} /\ asked' \subseteq Partitions
    BY <1>6 DEF SampleEnd, DashTypeOK
  <2> QED BY <1>6, <2>1, <2>2 DEF SampleEnd, DashTypeOK
<1>7. CASE SampleOffsets
  <2>1. kafka' \in KafkaSample
    BY <1>7, OffsetsSampled
  <2> QED BY <1>7, <1>2, <2>1 DEF SampleOffsets, Sampling, DashTypeOK
<1>8. CASE Publish
  BY <1>1, <1>2, <1>8 DEF Publish, Sampling, DashTypeOK
<1>9. CASE SampleNoTopics
  BY <1>n, <1>9 DEF SampleNoTopics, Sampling, DashTypeOK
<1>10. CASE SampleFails
  BY <1>1, <1>2, <1>10 DEF SampleFails, DashTypeOK
<1> QED BY <1>3, <1>4, <1>5, <1>6, <1>7, <1>8, <1>9, <1>10 DEF DashNext, Sample

\* A failed query is one fault more, and nothing else, to the writer.
LEMMA QueryFailsInd == IndInv /\ QueryFails => IndInv' /\ UNCHANGED committed
<1> SUFFICES ASSUME IndInv, QueryFails PROVE IndInv' /\ UNCHANGED committed
  OBVIOUS
<1> USE DEF topicVars, consumerVars, redisVars, tallyVars
<1>1. UNCHANGED <<topicVars, consumerVars, redisVars, tallyVars, lost, wiped, crashes>>
  BY DEF QueryFails
<1>2. faults' \in 0..MaxFaults /\ faults' = faults + 1
  BY FaultType DEF QueryFails, IndInv
<1>3. TypeOK'
  BY <1>1, <1>2 DEF IndInv, TypeOK
<1>4. IsFiniteSet(lost') /\ Cardinality(lost') <= faults'
  BY <1>1, <1>2, OneMoreLost, IndParts DEF LostCounted
<1>5. Offsets' /\ Accounted'
  BY <1>1, IndParts DEF Offsets, Accounted, CommitBehind, HandPolled, RereadBounded, RepeatsNeedCrashes,
     Passed, Covered, Applied, Resume
<1>6. (TypeOK /\ LostCounted /\ Offsets /\ Accounted => IndInv)'
  BY IndParts, PTL
<1> QED BY <1>1, <1>3, <1>4, <1>5, <1>6 DEF LostCounted

\* Whoever moves, the offsets of the group only grow.
LEMMA CommittedGrows ==
  IndInv /\ ([Next]_writerVars \/ QueryFails)
    => \A p \in Partitions : committed'[p] \in Int /\ committed[p] <= committed'[p]
<1> SUFFICES ASSUME IndInv, [Next]_writerVars \/ QueryFails, NEW p \in Partitions
             PROVE  committed'[p] \in Int /\ committed[p] <= committed'[p]
  OBVIOUS
<1>n. TypeOK /\ CommitBehind /\ committed[p] \in Int
  BY DEF IndInv, TypeOK, NoOffset
<1>1. CASE committed' = committed
  BY <1>1, <1>n
<1>2. CASE up /\ committed' = Polled
  <2>1. pos[p] \in Nat /\ committed[p] <= pos[p]
    BY <1>2, <1>n DEF TypeOK, CommitBehind
  <2> QED BY <1>2, <1>n, <2>1 DEF Polled
<1>3. committed' = committed \/ (up /\ committed' = Polled)
  BY DEF Next, Produce, Tick, Poll, Handle, HandleFails, Commit, Stop, Crash, Start, RedisRestart,
         QueryFails, consumerVars, writerVars
<1> QED BY <1>1, <1>2, <1>3

\* Every step of the dashboard leaves the writer alone, but for a fault.
LEMMA DashWriter == [DashNext]_dvars => [Next]_writerVars \/ QueryFails
BY DEF DashNext, Sample, SampleIndex, SampleHashes, SampleEnd, SampleOffsets, Publish, SampleNoTopics,
       SampleFails, dvars

LEMMA NextDash == DashInv /\ [DashNext]_dvars => DashInv'
<1> SUFFICES ASSUME DashInv, [DashNext]_dvars PROVE DashInv'
  OBVIOUS
<1>0. IndInv /\ DashTypeOK /\ LagTrue(kafka) /\ LagTrue(snap.kafka) /\ ([Next]_writerVars \/ QueryFails)
  BY DashWriter DEF DashInv
<1>1. IndInv'
  BY <1>0, NextInd, QueryFailsInd
<1>2. DashTypeOK'
  <2>1. CASE UNCHANGED dvars
    BY <1>0, <2>1 DEF dvars, dashVars, DashTypeOK
  <2> QED BY <1>0, <2>1, NextDashTypes
<1>3. \A p \in Partitions : committed[p] \in Int /\ committed'[p] \in Int /\ committed[p] <= committed'[p]
  BY <1>0, CommittedGrows DEF IndInv, TypeOK, NoOffset
<1>4. ASSUME NEW K \in KafkaSample, LagTrue(K) PROVE LagTrue(K)'
  <2>1. \A p \in Partitions : K.ends[p] \in Int
    BY DEF KafkaSample, NoEnd
  <2> QED BY <1>3, <1>4, <2>1 DEF LagTrue
<1>5. PICK K, L : K = kafka /\ L = snap.kafka
  OBVIOUS
<1>6. LagTrue(K)' /\ LagTrue(L)'
  BY <1>0, <1>4, <1>5 DEF DashTypeOK
<1>7. kafka' = K \/ kafka' = NoKafka \/ SampleOffsets
  BY <1>5 DEF DashNext, Sample, SampleIndex, SampleHashes, SampleEnd, Publish, SampleNoTopics, SampleFails,
              dvars, dashVars
<1>8. snap'.kafka \in {K, L}
  BY <1>5 DEF DashNext, Sample, SampleIndex, SampleHashes, SampleEnd, SampleOffsets, Publish, SampleNoTopics,
              SampleFails, dvars, dashVars
<1>9. LagTrue(kafka)'
  <2>1. CASE kafka' = K
    BY <1>6, <2>1 DEF LagTrue
  <2>2. CASE kafka' = NoKafka
    BY <2>2 DEF LagTrue, NoKafka, NoLag
  <2>3. CASE SampleOffsets
    <3>1. LagTrue(kafka') /\ kafka' \in KafkaSample
      BY <1>0, <2>3, OffsetsSampled
    <3>2. \A p \in Partitions : kafka'.ends[p] \in Int
      BY <3>1 DEF KafkaSample, NoEnd
    <3> QED BY <1>3, <3>1, <3>2 DEF LagTrue
  <2> QED BY <1>7, <2>1, <2>2, <2>3
<1>10. LagTrue(snap.kafka)'
  BY <1>6, <1>8 DEF LagTrue
<1> QED BY <1>1, <1>2, <1>9, <1>10 DEF DashInv

LEMMA InitDash == DashInit => DashInv
<1> SUFFICES ASSUME DashInit PROVE DashInv
  OBVIOUS
<1>1. IndInv
  BY InitInd DEF DashInit
<1>2. NoKafka \in KafkaSample /\ DOMAIN NoCounts = {}
  BY DEF NoKafka, KafkaSample, NoCounts
<1>3. DashTypeOK
  <2>1. tick \in 0..KafkaEvery - 1
    BY DashboardAssumption DEF DashInit
  <2> QED BY <1>2, <2>1 DEF DashInit, DashTypeOK
<1>4. LagTrue(kafka) /\ LagTrue(snap.kafka)
  BY DEF DashInit, LagTrue, NoKafka, NoLag
<1> QED BY <1>1, <1>3, <1>4 DEF DashInv

LEMMA LagServed == DashInv => ZeroLagMeansServed
<1> SUFFICES ASSUME DashInv, snap.kafka.lag = 0, snap.kafka.n = Cardinality(Partitions),
                    NEW m \in Messages, m[2] <= snap.kafka.ends[m[1]]
             PROVE  Applied(m) \/ m = hand \/ m \in lost \cup wiped
  BY DEF ZeroLagMeansServed
<1>1. m[1] \in Partitions /\ m[2] \in Int
  BY NatFacts DEF DashInv, IndInv
<1>2. snap.kafka.ends[m[1]] <= committed[m[1]]
  BY <1>1 DEF DashInv, LagTrue
<1>3. snap.kafka.ends[m[1]] \in Int /\ committed[m[1]] \in Int
  <2>1. snap.kafka.ends \in [Partitions -> Nat \cup {NoEnd}] /\ NoEnd \in Int
    BY DEF DashInv, DashTypeOK, KafkaSample, NoEnd
  <2>2. committed[m[1]] \in Nat \/ committed[m[1]] = NoOffset
    BY <1>1, NatFacts DEF DashInv, IndInv
  <2> QED BY <1>1, <2>1, <2>2 DEF NoOffset
<1>4. Covered(m)
  BY <1>1, <1>2, <1>3 DEF Covered
<1> QED BY <1>4, IndParts DEF DashInv, Accounted, Passed

-----------------------------------------------------------------------------
(* Theorems *)

\* writer.py 263-294: the offsets of the consumer, its message in hand and the
\* tallies of what it applied stay in the relation the results rest on.
THEOREM ConsumerInvariant == Spec => []IndInv
BY InitInd, NextInd, PTL DEF Spec

\* Every variable keeps its type.
THEOREM TypeCorrect == Spec => []TypeOK
<1>1. IndInv => TypeOK
  BY DEF IndInv
<1> QED BY <1>1, ConsumerInvariant, PTL

\* writer.py 263-294: whatever was passed is in Redis, in hand, or skipped by
\* a fault or emptied with Redis, and faults skip at most one message each.
THEOREM PassedIsAccounted == Spec => []PassedAccounted
<1>1. IndInv => PassedAccounted
  BY DEF IndInv
<1> QED BY <1>1, ConsumerInvariant, PTL

\* writer.py 229-240: late:total counts a message at most once more per crash.
THEOREM RepeatsAreBounded == Spec => []RepeatsNeedCrashes
<1>1. IndInv => RepeatsNeedCrashes
  BY DEF IndInv
<1> QED BY <1>1, ConsumerInvariant, PTL

\* writer.py 229-240: late:total is the number of timed late events applied,
\* and the counts of the minutes never add up to more.
THEOREM LateIsCounted == Spec => []LateTotalAccounted
<1>1. Spec => []LateInv
  BY InitLate, NextLate, ConsumerInvariant, PTL DEF Spec
<1> QED BY <1>1, LateAccounted, PTL

\* writer.py 71-138, 213-226: within the retention the summary of a range is
\* the sum of the last results applied to its minutes, for every range, log,
\* retention and order of results, redeliveries and restarts.
THEOREM SummaryIsExact == Spec => []SummaryExact
<1>1. Spec => []ServedInv
  BY InitServed, NextServed, PTL DEF Spec
<1> QED BY <1>1, ServedExact, PTL

\* api.py 189-240: the types of the sampler and of what it shows.
THEOREM DashboardTypes == DashSpec => []DashTypeOK
<1>1. DashSpec => []DashInv
  BY InitDash, NextDash, PTL DEF DashSpec
<1>2. DashInv => DashTypeOK
  BY DEF DashInv
<1> QED BY <1>1, <1>2, PTL

\* api.py 189-240: a lag of zero on display, over all partitions, means that
\* what the ends beside it count was served, however old the sample is and
\* whatever failed since.
THEOREM ZeroLagIsServed == DashSpec => []ZeroLagMeansServed
<1>1. DashSpec => []DashInv
  BY InitDash, NextDash, PTL DEF DashSpec
<1> QED BY <1>1, LagServed, PTL
=============================================================================
