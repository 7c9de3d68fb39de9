--------------------------- MODULE RealtimeProofs ---------------------------
(***************************************************************************)
(* Theorems about Realtime and Reconciliation for every set of events and  *)
(* partitions, every window length, every watermark delay and every        *)
(* combination of faults.                                                  *)
(***************************************************************************)
EXTENDS Reconciliation, SumTheorems

\* Ticks are natural numbers, and a window ends after the event it holds.
LEMMA TimeFacts ==
  /\ Marks \subseteq Nat
  /\ \A e \in Events : TimeOf[e] \in Nat /\ WindowEnd(e) \in Nat /\ WindowEnd(e) >= 1
<1>1. Marks \subseteq Nat
  BY RealtimeAssumption DEF Marks
<1>2. ASSUME NEW n \in Nat, NEW m \in Nat \ {0} PROVE (n + 1) * m \in Nat /\ (n + 1) * m >= 1
  BY <1>2
<1>3. ASSUME NEW e \in Events
      PROVE  TimeOf[e] \in Nat /\ WindowEnd(e) \in Nat /\ WindowEnd(e) >= 1
  <2>1. TimeOf[e] \in Nat /\ Minute \in Nat \ {0}
    BY RealtimeAssumption
  <2>2. TimeOf[e] \div Minute \in Nat
    BY <2>1
  <2>3. QED
    BY <2>1, <2>2, <1>2 DEF WindowEnd
<1>4. QED
  BY <1>1, <1>3

\* A larger watermark, or the same one.
LEMMA LaterFacts ==
  ASSUME NEW s \in Int, NEW t \in Int
  PROVE  Later(s, t) \in {s, t} /\ Later(s, t) >= s /\ Later(s, t) >= t
BY DEF Later

-----------------------------------------------------------------------------
(* Types *)

LEMMA InitType == Init => TypeOK
BY RealtimeAssumption DEF Init, TypeOK, Snapshot, Now, NoCount, NoMark

\* Appending a record keeps what was read a prefix of what is there.
LEMMA ProduceType ==
  ASSUME TypeOK, NEW e \in Events, Produce(e)
  PROVE  TypeOK'
<1>1. PartOf[e] \in Partitions
  BY RealtimeAssumption
<1>2. log' = [log EXCEPT ![PartOf[e]] = Append(@, e)]
  BY DEF Produce
<1>3. log' \in [Partitions -> Seq(Events)]
  BY <1>1, <1>2 DEF TypeOK
<1>4. \A p \in Partitions : Len(log[p]) \in Nat /\ Len(log'[p]) \in Nat /\ Len(log[p]) <= Len(log'[p])
  <2> TAKE p \in Partitions
  <2>1. log[p] \in Seq(Events)
    BY DEF TypeOK
  <2>2. CASE p = PartOf[e]
    BY <1>1, <1>2, <2>1, <2>2 DEF TypeOK
  <2>3. CASE p # PartOf[e]
    BY <1>1, <1>2, <2>1, <2>3 DEF TypeOK
  <2>4. QED
    BY <2>2, <2>3
<1>5. saved.pos \in [Partitions -> Nat] /\ pos \in [Partitions -> Nat]
  BY DEF TypeOK, Snapshot
<1>6. \A p \in Partitions : pos[p] <= Len(log'[p]) /\ saved.pos[p] <= Len(log'[p])
  BY <1>4, <1>5 DEF TypeOK
<1>7. QED
  BY <1>3, <1>6 DEF Produce, TypeOK, sourceVars, stateVars, sinkVars, histVars

LEMMA ReadType ==
  ASSUME TypeOK, NEW p \in Partitions, Read(p)
  PROVE  TypeOK'
<1> DEFINE r == log[p][pos[p] + 1]
<1>1. r \in Events /\ TimeOf[r] \in Nat
  <2>1. log[p] \in Seq(Events) /\ pos[p] \in Nat /\ pos[p] < Len(log[p])
    BY DEF TypeOK, Read, Unread
  <2>2. pos[p] + 1 \in 1..Len(log[p])
    BY <2>1
  <2>3. r \in Events
    BY <2>1, <2>2
  <2>4. QED
    BY <2>3, TimeFacts
<1>2. high' \in [Partitions -> Nat \cup {NoMark}]
  <2>1. high' = [high EXCEPT ![p] = Later(@, TimeOf[r])]
    BY DEF Read
  <2>2. Later(high[p], TimeOf[r]) \in Nat \cup {NoMark}
    BY <1>1 DEF Later, TypeOK
  <2>3. QED
    BY <2>1, <2>2 DEF TypeOK
<1>3. /\ pos' \in [Partitions -> Nat]
      /\ \A q \in Partitions : pos'[q] <= Len(log[q])
  <2>1. pos' = [pos EXCEPT ![p] = @ + 1] /\ pos[p] < Len(log[p])
    BY DEF Read, Unread
  <2>2. \A q \in Partitions : Len(log[q]) \in Nat /\ pos[q] <= Len(log[q])
    BY DEF TypeOK
  <2>3. pos \in [Partitions -> Nat]
    BY DEF TypeOK
  <2>4. QED
    BY ONLY <2>1, <2>2, <2>3
<1>4. /\ seen' \subseteq Counted /\ acc' \in [Events -> Nat]
      /\ dropped' \subseteq Counted /\ swallowed' \subseteq Counted
  <2>1. CASE FilterOut(r)
    BY <2>1 DEF FilterOut, TypeOK
  <2>2. CASE FirstRow(r)
    <3>1. acc' = acc \/ acc' = [acc EXCEPT ![r] = @ + 1]
      BY <2>2 DEF FirstRow
    <3>2. r \in Counted
      BY <2>2 DEF FirstRow
    <3>3. swallowed' \in {swallowed, swallowed \cup {r}} /\ dropped' \in {dropped, dropped \cup {r}}
      BY <2>2 DEF FirstRow
    <3>4. seen' = seen \cup {r}
      BY <2>2 DEF FirstRow
    <3>5. /\ seen \subseteq Counted /\ dropped \subseteq Counted /\ swallowed \subseteq Counted
          /\ acc \in [Events -> Nat]
      BY DEF TypeOK
    <3>6. QED
      BY <1>1, <3>1, <3>2, <3>3, <3>4, <3>5
  <2>3. QED
    BY <2>1, <2>2 DEF Read
<1>5. idle' \subseteq Partitions
  BY DEF Read, TypeOK
<1>6. /\ log' = log /\ mark' = mark /\ winMark' = winMark /\ agg' = agg
      /\ saved' = saved /\ published' = published /\ forgets' = forgets /\ faults' = faults
  BY DEF Read
<1>7. QED
  BY <1>2, <1>3, <1>4, <1>5, <1>6 DEF TypeOK

LEMMA AdvanceType ==
  ASSUME TypeOK, NEW t \in Marks, AdvanceWatermark(t)
  PROVE  TypeOK'
<1>1. mark' \in Marks \cup {NoMark} /\ winMark' \in Marks \cup {NoMark}
  BY DEF AdvanceWatermark, Later, TypeOK
<1>2. acc' \in [Events -> Nat] /\ agg' \in [Events -> Nat]
  BY DEF AdvanceWatermark, TypeOK
<1>3. published' \subseteq Counted
  BY DEF AdvanceWatermark, TypeOK
<1>4. /\ log' = log /\ pos' = pos /\ high' = high /\ idle' = idle /\ seen' = seen
      /\ dropped' = dropped /\ saved' = saved /\ swallowed' = swallowed
      /\ forgets' = forgets /\ faults' = faults
  BY DEF AdvanceWatermark
<1>5. QED
  BY <1>1, <1>2, <1>3, <1>4 DEF TypeOK

LEMMA FaultType ==
  ASSUME TypeOK, NEW kind, Fault(kind)
  PROVE  faults' \in 0..MaxFaults
BY RealtimeAssumption DEF Fault, TypeOK

LEMMA RecoverType ==
  ASSUME TypeOK, Recover
  PROVE  TypeOK'
<1>1. /\ saved \in Snapshot
      /\ \A p \in Partitions : saved.pos[p] <= Len(log[p])
  BY DEF TypeOK
<1>2. /\ pos' \in [Partitions -> Nat] /\ seen' \subseteq Counted
      /\ acc' \in [Events -> Nat] /\ winMark' \in Marks \cup {NoMark}
      /\ \A p \in Partitions : pos'[p] <= Len(log[p])
  BY <1>1 DEF Recover, Snapshot
<1>3. dropped' \subseteq Counted
  BY <1>1 DEF Recover, Snapshot, TypeOK
<1>4. agg' \in [Events -> Nat]
  <2>1. saved.agg \in [Events -> Nat] /\ agg \in [Events -> Nat]
    BY <1>1 DEF Snapshot, TypeOK
  <2>2. PICK lost \in SUBSET {WindowEnd(e) : e \in Events} :
          agg' = [e \in Events |-> IF WindowEnd(e) \in lost THEN saved.agg[e] ELSE agg[e]]
    BY DEF Recover
  <2>3. QED
    BY <2>1, <2>2
<1>5. /\ high' \in [Partitions -> Nat \cup {NoMark}]
      /\ idle' = {} /\ mark' = NoMark
  BY DEF Recover
<1>6. faults' \in 0..MaxFaults
  BY FaultType DEF Recover
<1>7. /\ log' = log /\ saved' = saved /\ published' = published
      /\ swallowed' = swallowed /\ forgets' = forgets
  BY DEF Recover
<1>8. QED
  BY <1>1, <1>2, <1>3, <1>4, <1>5, <1>6, <1>7 DEF TypeOK

LEMMA NextType == TypeOK /\ [Next]_vars => TypeOK'
<1> SUFFICES ASSUME TypeOK, [Next]_vars PROVE TypeOK'
  OBVIOUS
<1>1. ASSUME NEW e \in Events, Produce(e) PROVE TypeOK'
  BY <1>1, ProduceType
<1>2. ASSUME NEW e \in Events, ForgetId(e) PROVE TypeOK'
  <2>1. seen' \subseteq Counted /\ forgets' \in [Events -> Nat]
    BY <1>2 DEF ForgetId, TypeOK
  <2>2. faults' \in 0..MaxFaults
    BY <1>2, FaultType DEF ForgetId
  <2>3. QED
    BY <1>2, <2>1, <2>2 DEF ForgetId, TypeOK, sourceVars, sinkVars
<1>3. ASSUME NEW p \in Partitions, Read(p) PROVE TypeOK'
  BY <1>3, ReadType
<1>4. ASSUME NEW p \in Partitions, GoIdle(p) PROVE TypeOK'
  BY <1>4 DEF GoIdle, TypeOK, stateVars, sinkVars, histVars
<1>5. ASSUME NEW t \in Marks, AdvanceWatermark(t) PROVE TypeOK'
  BY <1>5, AdvanceType
<1>6. CASE Checkpoint
  <2>1. saved' = Now
    BY <1>6 DEF Checkpoint
  <2>2. saved' \in Snapshot /\ \A p \in Partitions : saved'.pos[p] <= Len(log[p])
    BY <2>1 DEF Now, Snapshot, TypeOK
  <2>3. QED
    BY <1>6, <2>2 DEF Checkpoint, TypeOK, sourceVars, stateVars, sinkVars, histVars
<1>7. CASE Recover
  BY <1>7, RecoverType
<1>8. CASE UNCHANGED vars
  BY <1>8 DEF TypeOK, vars, sourceVars, stateVars, sinkVars, histVars
<1>9. QED
  BY <1>1, <1>2, <1>3, <1>4, <1>5, <1>6, <1>7, <1>8 DEF Next

\* Every variable of the job keeps its type, and a position never passes the
\* end of its partition.
THEOREM TypeCorrect == Spec => []TypeOK
BY InitType, NextType, PTL DEF Spec

-----------------------------------------------------------------------------
(* Counted once, or late *)

\* As long as nothing fails the filter and the window operator agree.
LEMMA FilterAgrees ==
  ASSUME TypeOK, winMark = mark, NEW e \in Events
  PROVE  IsLate(e) <=> WindowClosed(e)
<1>1. mark \in Nat \/ mark = -1
  BY TimeFacts DEF TypeOK, NoMark
<1>2. WindowEnd(e) \in Nat /\ WindowEnd(e) >= 1
  BY TimeFacts
<1>3. QED
  BY <1>1, <1>2 DEF IsLate, WindowClosed, NoMark

\* A result is never emitted for a window that already has one.
LEMMA NoSecondResult ==
  ASSUME IndInv, faults = 0, NEW e \in Events, agg[e] > 0
  PROVE  ~HasRecords(e)
BY DEF IndInv, Agreeing, HasRecords, SameWindow, WindowClosed

LEMMA InitInd == Init => IndInv
<1> SUFFICES ASSUME Init PROVE IndInv
  OBVIOUS
<1>1. \A e \in Events : acc[e] = 0 /\ agg[e] = 0
  BY DEF Init, NoCount
<1>2. Agreeing /\ CountedOrLate
  BY <1>1, RealtimeAssumption DEF Init, Agreeing, CountedOrLate, Kept
<1>3. QED
  BY <1>2, InitType DEF IndInv

\* A step that leaves the counts and the watermarks alone keeps the invariant.
LEMMA IndFrame ==
  ASSUME IndInv, UNCHANGED <<acc, agg, dropped, seen, mark, winMark>>,
         faults' = 0 => faults = 0
  PROVE  Agreeing' /\ CountedOrLate'
BY DEF IndInv, Agreeing, CountedOrLate, Kept, WindowClosed

LEMMA FirstRowInd ==
  ASSUME IndInv, NEW r \in Events, FirstRow(r),
         UNCHANGED <<agg, mark, winMark, faults>>
  PROVE  Agreeing' /\ CountedOrLate'
<1> SUFFICES ASSUME faults = 0 PROVE Agreeing' /\ CountedOrLate'
  BY DEF Agreeing, CountedOrLate
<1>1. /\ TypeOK /\ winMark = mark
      /\ \A e \in Events : acc[e] > 0 => ~WindowClosed(e)
      /\ \A e \in Events : agg[e] > 0 => WindowClosed(e)
      /\ \A e \in Counted : Kept(e) = IF e \in seen THEN 1 ELSE 0
  BY DEF IndInv, Agreeing, CountedOrLate
<1>2. IsLate(r) <=> WindowClosed(r)
  BY <1>1, FilterAgrees
<1>3. /\ r \in Counted /\ r \notin seen /\ seen' = seen \cup {r}
      /\ acc \in [Events -> Nat] /\ agg \in [Events -> Nat]
  BY <1>1 DEF FirstRow, TypeOK
<1>4. acc[r] = 0 /\ agg[r] = 0 /\ r \notin dropped
  BY <1>1, <1>3 DEF Kept
<1>5. CASE WindowClosed(r)
  <2>1. acc' = acc /\ dropped' = dropped \cup {r}
    BY <1>2, <1>5 DEF FirstRow
  <2>2. QED
    BY <1>1, <1>3, <1>4, <2>1, RealtimeAssumption
       DEF Agreeing, CountedOrLate, Kept, WindowClosed
<1>6. CASE ~WindowClosed(r)
  <2>1. acc' = [acc EXCEPT ![r] = 1] /\ dropped' = dropped
    BY <1>2, <1>3, <1>4, <1>6 DEF FirstRow
  <2>2. \A e \in Events : acc'[e] > 0 => ~WindowClosed(e)'
    BY <1>1, <1>3, <1>6, <2>1 DEF WindowClosed
  <2>3. QED
    BY <1>1, <1>3, <1>4, <2>1, <2>2, RealtimeAssumption
       DEF Agreeing, CountedOrLate, Kept, WindowClosed
<1>7. QED
  BY <1>5, <1>6

LEMMA AdvanceInd ==
  ASSUME IndInv, NEW t \in Marks, AdvanceWatermark(t)
  PROVE  Agreeing' /\ CountedOrLate'
<1>0. faults' = faults
  BY DEF AdvanceWatermark
<1> SUFFICES ASSUME faults = 0 PROVE Agreeing' /\ CountedOrLate'
  BY <1>0 DEF Agreeing, CountedOrLate
<1>1. /\ TypeOK /\ winMark = mark
      /\ \A e \in Events : acc[e] > 0 => ~WindowClosed(e)
      /\ \A e \in Events : agg[e] > 0 => WindowClosed(e)
      /\ \A e \in Counted : Kept(e) = IF e \in seen THEN 1 ELSE 0
  BY DEF IndInv, Agreeing, CountedOrLate
<1>2. t \in Nat /\ mark \in Int /\ t > mark /\ \A e \in Events : WindowEnd(e) \in Nat
  BY <1>1, TimeFacts DEF AdvanceWatermark, TypeOK, NoMark
<1>3. mark' = t /\ winMark' = t
  BY <1>1, <1>2, LaterFacts DEF AdvanceWatermark
<1>4. /\ acc \in [Events -> Nat] /\ agg \in [Events -> Nat]
      /\ seen' = seen /\ dropped' = dropped
  BY <1>1 DEF AdvanceWatermark, TypeOK
<1>5. \A e \in Events :
        /\ acc'[e] = IF Fires(e, t) THEN 0 ELSE acc[e]
        /\ agg'[e] = IF Fires(e, t) /\ HasRecords(e) THEN acc[e] ELSE agg[e]
  BY DEF AdvanceWatermark
<1>6. \A e \in Events : Fires(e, t) <=> WindowClosed(e)'
  BY <1>2, <1>3 DEF Fires, WindowClosed
<1>7. \A e \in Events : WindowClosed(e) => Fires(e, t)
  BY <1>1, <1>2 DEF Fires, WindowClosed
<1>8. \A e \in Events : acc[e] > 0 => HasRecords(e)
  BY DEF HasRecords, SameWindow
<1>9. \A e \in Events : agg[e] > 0 => ~HasRecords(e)
  BY NoSecondResult
<1>10. Agreeing'
  <2>1. \A e \in Events : acc'[e] > 0 => ~WindowClosed(e)'
    BY <1>5, <1>6
  <2>2. \A e \in Events : agg'[e] > 0 => WindowClosed(e)'
    BY <1>1, <1>5, <1>6, <1>7
  <2>3. QED
    BY <1>3, <2>1, <2>2 DEF Agreeing
<1>11. \A e \in Events : acc'[e] + agg'[e] = acc[e] + agg[e]
  <2> TAKE e \in Events
  <2>1. acc[e] \in Nat /\ agg[e] \in Nat
    BY <1>4
  <2>2. CASE ~Fires(e, t)
    BY <1>5, <2>2
  <2>3. CASE Fires(e, t) /\ HasRecords(e)
    BY <1>5, <1>9, <2>1, <2>3
  <2>4. CASE Fires(e, t) /\ ~HasRecords(e)
    BY <1>5, <1>8, <2>1, <2>4
  <2>5. QED
    BY <2>2, <2>3, <2>4
<1>12. CountedOrLate'
  BY <1>1, <1>4, <1>11, RealtimeAssumption DEF CountedOrLate, Kept
<1>13. QED
  BY <1>10, <1>12

LEMMA NextInd == IndInv /\ [Next]_vars => IndInv'
<1> SUFFICES ASSUME IndInv, [Next]_vars PROVE IndInv'
  OBVIOUS
<1> SUFFICES Agreeing' /\ CountedOrLate'
  BY NextType DEF IndInv
<1>1. ASSUME NEW p \in Partitions, Read(p) PROVE Agreeing' /\ CountedOrLate'
  <2> DEFINE r == log[p][pos[p] + 1]
  <2>1. UNCHANGED <<agg, mark, winMark, faults>>
    BY <1>1 DEF Read
  <2>2. CASE FilterOut(r)
    BY <2>1, <2>2, IndFrame DEF FilterOut
  <2>3. CASE FirstRow(r)
    <3>1. r \in Events
      BY <2>3, RealtimeAssumption DEF FirstRow
    <3>2. QED
      BY <2>1, <2>3, <3>1, FirstRowInd
  <2>4. QED
    BY <1>1, <2>2, <2>3 DEF Read
<1>2. ASSUME NEW t \in Marks, AdvanceWatermark(t) PROVE Agreeing' /\ CountedOrLate'
  BY <1>2, AdvanceInd
<1>3. ASSUME NEW e \in Events, Produce(e) PROVE Agreeing' /\ CountedOrLate'
  BY <1>3, IndFrame DEF Produce, sourceVars, stateVars, sinkVars, histVars
<1>4. ASSUME NEW p \in Partitions, GoIdle(p) PROVE Agreeing' /\ CountedOrLate'
  BY <1>4, IndFrame DEF GoIdle, stateVars, sinkVars, histVars
<1>5. CASE Checkpoint
  BY <1>5, IndFrame DEF Checkpoint, sourceVars, stateVars, sinkVars, histVars
<1>6. ASSUME NEW kind, Fault(kind) PROVE Agreeing' /\ CountedOrLate'
  BY <1>6 DEF Fault, IndInv, TypeOK, Agreeing, CountedOrLate
<1>7. CASE UNCHANGED vars
  BY <1>7, IndFrame DEF vars, sourceVars, stateVars, sinkVars, histVars
<1>8. QED
  BY <1>1, <1>2, <1>3, <1>4, <1>5, <1>6, <1>7 DEF Next, ForgetId, Recover

\* The inductive invariant holds in every reachable state.
THEOREM IndInvCorrect == Spec => []IndInv
BY InitInd, NextInd, PTL DEF Spec

\* As long as nothing fails, every event read is counted once or recorded as
\* late: the lateness filter rebuilds exactly what the window operator drops
\* (pipeline.sql:315-353).
THEOREM CountedOnceOrLate == Spec => []CountedOrLate
<1>1. IndInv => CountedOrLate
  BY DEF IndInv
<1>2. QED
  BY <1>1, IndInvCorrect, PTL

\* As long as nothing fails, the result of a window never changes.
THEOREM ResultsAreFinal == Spec => WindowFinal
<1>1. IndInv /\ [Next]_vars =>
        [faults' = 0 => \A e, f \in Counted :
            SameWindow(e, f) /\ agg[f] > 0 => agg'[e] = agg[e]]_vars
  <2> SUFFICES ASSUME IndInv, [Next]_vars, faults' = 0,
                      NEW e \in Counted, NEW f \in Counted,
                      SameWindow(e, f), agg[f] > 0
               PROVE  agg'[e] = agg[e]
    OBVIOUS
  <2>1. ASSUME NEW t \in Marks, AdvanceWatermark(t) PROVE agg'[e] = agg[e]
    <3>1. faults = 0 /\ e \in Events /\ f \in Events
      BY <2>1, RealtimeAssumption DEF AdvanceWatermark
    <3>2. ~HasRecords(f)
      BY <3>1, NoSecondResult
    <3>3. ~HasRecords(e)
      BY <3>2 DEF HasRecords, SameWindow
    <3>4. QED
      BY <2>1, <3>1, <3>3 DEF AdvanceWatermark
  <2>2. ASSUME NEW kind, Fault(kind) PROVE FALSE
    BY <2>2 DEF Fault, IndInv, TypeOK
  <2>3. CASE ~\E t \in Marks : AdvanceWatermark(t)
    BY <2>2, <2>3 DEF Next, Produce, ForgetId, Read, GoIdle, Checkpoint, Recover,
                      vars, sinkVars
  <2>4. QED
    BY <2>1, <2>3
<1>2. QED
  BY <1>1, IndInvCorrect, PTL DEF Spec, WindowFinal
-----------------------------------------------------------------------------
(* After a recovery: how often an event is counted *)

\* An event is counted at most once for each time its id was new: once, and
\* once more for each time it was forgotten.  The same is true of what a
\* recovery would restore.
Lives(ids, e) == forgets[e] + (IF e \in ids THEN 1 ELSE 0)

LifeInv ==
  /\ TypeOK
  /\ \A e \in Counted : acc[e] <= Lives(seen, e) /\ agg[e] <= 1 + forgets[e]
  /\ \A e \in Counted : saved.acc[e] <= Lives(saved.seen, e) /\ saved.agg[e] <= 1 + forgets[e]

LEMMA CountsAreNumbers ==
  ASSUME TypeOK, NEW e \in Counted
  PROVE  /\ e \in Events
         /\ acc[e] \in Nat /\ agg[e] \in Nat /\ forgets[e] \in Nat
         /\ saved.acc[e] \in Nat /\ saved.agg[e] \in Nat
BY RealtimeAssumption DEF TypeOK, Snapshot

\* A step that adds no count and forgets nothing keeps it.
LEMMA LifeFrame ==
  ASSUME LifeInv, TypeOK', UNCHANGED <<acc, agg, seen, saved, forgets>>
  PROVE  LifeInv'
BY DEF LifeInv, Lives

LEMMA LifeRead ==
  ASSUME LifeInv, TypeOK', NEW p \in Partitions, Read(p)
  PROVE  LifeInv'
<1> DEFINE r == log[p][pos[p] + 1]
<1>1. UNCHANGED <<agg, saved, forgets>>
  BY DEF Read
<1>2. CASE FilterOut(r)
  BY <1>1, <1>2, LifeFrame DEF FilterOut
<1>3. CASE FirstRow(r)
  <2>1. r \in Counted /\ r \notin seen /\ seen' = seen \cup {r}
    BY <1>3 DEF FirstRow
  <2>2. acc' = acc \/ acc' = [acc EXCEPT ![r] = @ + 1]
    BY <1>3 DEF FirstRow
  <2>3. ASSUME NEW e \in Counted PROVE acc'[e] <= Lives(seen, e)'
    <3>1. acc[e] \in Nat /\ forgets[e] \in Nat /\ acc \in [Events -> Nat] /\ r \in Events /\ e \in Events
      BY <2>1, CountsAreNumbers, RealtimeAssumption DEF LifeInv, TypeOK
    <3>2. acc[e] <= Lives(seen, e)
      BY DEF LifeInv
    <3>3. CASE e = r
      BY <1>1, <2>1, <2>2, <3>1, <3>2, <3>3 DEF Lives
    <3>4. CASE e # r
      BY <1>1, <2>1, <2>2, <3>1, <3>2, <3>4 DEF Lives
    <3> QED BY <3>3, <3>4
  <2> QED BY <1>1, <2>3 DEF LifeInv, Lives
<1> QED BY <1>2, <1>3 DEF Read

LEMMA LifeAdvance ==
  ASSUME LifeInv, TypeOK', NEW t \in Marks, AdvanceWatermark(t)
  PROVE  LifeInv'
<1>1. UNCHANGED <<seen, saved, forgets>>
  BY DEF AdvanceWatermark
<1>2. ASSUME NEW e \in Counted
      PROVE  acc'[e] <= Lives(seen, e) /\ agg'[e] <= 1 + forgets[e]
  <2>1. e \in Events /\ acc[e] \in Nat /\ agg[e] \in Nat /\ forgets[e] \in Nat
    BY CountsAreNumbers DEF LifeInv
  <2>2. acc[e] <= Lives(seen, e) /\ agg[e] <= 1 + forgets[e]
    BY DEF LifeInv
  <2>3. acc'[e] \in {0, acc[e]} /\ agg'[e] \in {acc[e], agg[e]}
    BY <2>1 DEF AdvanceWatermark
  <2> QED BY <2>1, <2>2, <2>3 DEF Lives
<1> QED BY <1>1, <1>2 DEF LifeInv, Lives

LEMMA LifeForget ==
  ASSUME LifeInv, TypeOK', NEW f \in Events, ForgetId(f)
  PROVE  LifeInv'
<1>1. /\ UNCHANGED <<acc, agg, saved>>
      /\ f \in seen /\ seen' = seen \ {f} /\ forgets' = [forgets EXCEPT ![f] = @ + 1]
  BY DEF ForgetId, sinkVars
<1>2. ASSUME NEW e \in Counted
      PROVE  /\ forgets[e] <= forgets'[e] /\ forgets'[e] \in Nat
             /\ Lives(seen, e) <= Lives(seen, e)'
  <2>1. e \in Events /\ forgets[e] \in Nat /\ forgets \in [Events -> Nat]
    BY CountsAreNumbers DEF LifeInv, TypeOK
  <2>2. CASE e = f
    BY <1>1, <2>1, <2>2 DEF Lives
  <2>3. CASE e # f
    BY <1>1, <2>1, <2>3 DEF Lives
  <2> QED BY <2>2, <2>3
<1>3. ASSUME NEW e \in Counted
      PROVE  /\ acc'[e] <= Lives(seen, e)' /\ agg'[e] <= 1 + forgets'[e]
             /\ saved'.acc[e] <= Lives(saved.seen, e)' /\ saved'.agg[e] <= 1 + forgets'[e]
  <2>1. /\ acc[e] \in Nat /\ agg[e] \in Nat /\ saved.acc[e] \in Nat /\ saved.agg[e] \in Nat
        /\ forgets[e] \in Nat
    BY CountsAreNumbers DEF LifeInv
  <2>2. /\ acc[e] <= Lives(seen, e) /\ agg[e] <= 1 + forgets[e]
        /\ saved.acc[e] <= Lives(saved.seen, e) /\ saved.agg[e] <= 1 + forgets[e]
    BY DEF LifeInv
  <2> QED BY <1>1, <1>2, <2>1, <2>2 DEF Lives
<1> QED BY <1>3 DEF LifeInv

LEMMA LifeRecover ==
  ASSUME LifeInv, TypeOK', Recover
  PROVE  LifeInv'
<1>1. acc' = saved.acc /\ seen' = saved.seen /\ saved' = saved /\ forgets' = forgets
  BY DEF Recover
<1>2. PICK lost \in SUBSET {WindowEnd(e) : e \in Events} :
        agg' = [e \in Events |-> IF WindowEnd(e) \in lost THEN saved.agg[e] ELSE agg[e]]
  BY DEF Recover
<1>3. \A e \in Counted : agg'[e] \in {saved.agg[e], agg[e]}
  BY <1>2, RealtimeAssumption
<1> QED BY <1>1, <1>3 DEF LifeInv, Lives

\* Every step keeps it: only ForgetId lets an id be new again.
LEMMA NextLife == LifeInv /\ [Next]_vars => LifeInv'
<1> SUFFICES ASSUME LifeInv, [Next]_vars PROVE LifeInv'
  OBVIOUS
<1>0. TypeOK'
  BY NextType DEF LifeInv
<1>1. ASSUME NEW e \in Events, Produce(e) PROVE LifeInv'
  BY <1>0, <1>1, LifeFrame DEF Produce, sourceVars, stateVars, sinkVars, histVars
<1>2. ASSUME NEW e \in Events, ForgetId(e) PROVE LifeInv'
  BY <1>0, <1>2, LifeForget
<1>3. ASSUME NEW p \in Partitions, Read(p) PROVE LifeInv'
  BY <1>0, <1>3, LifeRead
<1>4. ASSUME NEW p \in Partitions, GoIdle(p) PROVE LifeInv'
  BY <1>0, <1>4, LifeFrame DEF GoIdle, stateVars, sinkVars, histVars
<1>5. ASSUME NEW t \in Marks, AdvanceWatermark(t) PROVE LifeInv'
  BY <1>0, <1>5, LifeAdvance
<1>6. CASE Checkpoint
  <2>1. saved' = Now /\ UNCHANGED <<acc, agg, seen, forgets>>
    BY <1>6 DEF Checkpoint, stateVars, sinkVars, histVars
  <2> QED BY <1>0, <2>1 DEF LifeInv, Lives, Now
<1>7. CASE Recover
  BY <1>0, <1>7, LifeRecover
<1>8. CASE UNCHANGED vars
  BY <1>0, <1>8, LifeFrame DEF vars, sourceVars, stateVars, sinkVars, histVars
<1> QED BY <1>1, <1>2, <1>3, <1>4, <1>5, <1>6, <1>7, <1>8 DEF Next

\* Nothing is counted at the start.
LEMMA InitLife == Init => LifeInv
<1> SUFFICES ASSUME Init PROVE LifeInv
  OBVIOUS
<1>1. TypeOK
  BY InitType
<1>2. \A e \in Counted : /\ acc[e] = 0 /\ agg[e] = 0 /\ forgets[e] = 0
                        /\ saved.acc[e] = 0 /\ saved.agg[e] = 0
  BY RealtimeAssumption DEF Init, Now, NoCount
<1> QED BY <1>1, <1>2 DEF LifeInv, Lives

\* However often the job dies, an event counts once for each time its id was
\* new, in the open window and in the stored result alike: offsets, ids and
\* windows go back together.
THEOREM RecoveryNeverDoubles == Spec => []CountedPerLife
<1>1. Init => LifeInv
  BY InitLife
<1>2. LifeInv => CountedPerLife
  <2> SUFFICES ASSUME LifeInv, NEW e \in Counted
               PROVE  acc[e] <= 1 + forgets[e] /\ agg[e] <= 1 + forgets[e]
    BY DEF CountedPerLife
  <2>1. acc[e] \in Nat /\ agg[e] \in Nat /\ forgets[e] \in Nat
    BY CountsAreNumbers DEF LifeInv
  <2> QED BY <2>1 DEF LifeInv, Lives
<1> QED BY <1>1, <1>2, NextLife, PTL DEF Spec

-----------------------------------------------------------------------------
(* After a recovery: nothing published is lost *)

\* Where an event stands in a state of the job, the current one or the saved
\* one: counted in its open window, in the last result of a closed one, or late.
ClosedIn(s, e) == s.winMark >= WindowEnd(e) - 1

Handled(s, e) == s.acc[e] > 0 \/ e \in s.dropped \/ (s.agg[e] > 0 /\ ClosedIn(s, e))

Held(s, e) == Handled(s, e) \/ ToRead(s.pos, e)

StateInv(s) ==
  /\ \A e \in Events : s.acc[e] > 0 => ~ClosedIn(s, e)
  /\ \A e \in Counted : s.agg[e] > 0 => e \in published
  /\ \A e \in s.seen \ swallowed : Handled(s, e)
  /\ \A e \in published \ swallowed : Held(s, e)

\* What a recovery relies on: the checkpoint is behind the job, it holds or will
\* read again whatever has been counted since, and the windows closed by then
\* have the same result.
SavedBehind ==
  /\ \A p \in Partitions : saved.pos[p] <= pos[p]
  /\ saved.winMark <= winMark
  /\ \A e \in Counted : acc[e] > 0 => Held(saved, e)
  /\ \A e \in Events : ClosedIn(saved, e) => agg[e] = saved.agg[e]

\* A record is in the partition of its key.
KeyedLog == \A p \in Partitions : \A i \in DOMAIN log[p] : PartOf[log[p][i]] = p

KeptInv == TypeOK /\ KeyedLog /\ StateInv(Now) /\ StateInv(saved) /\ SavedBehind

LEMMA NowFields ==
  /\ Now.pos = pos /\ Now.seen = seen /\ Now.acc = acc
  /\ Now.winMark = winMark /\ Now.agg = agg /\ Now.dropped = dropped
  /\ Now'.pos = pos' /\ Now'.seen = seen' /\ Now'.acc = acc'
  /\ Now'.winMark = winMark' /\ Now'.agg = agg' /\ Now'.dropped = dropped'
BY DEF Now

LEMMA StateTypes ==
  ASSUME TypeOK
  PROVE  /\ acc \in [Events -> Nat] /\ agg \in [Events -> Nat] /\ winMark \in Int
         /\ saved.acc \in [Events -> Nat] /\ saved.agg \in [Events -> Nat] /\ saved.winMark \in Int
         /\ pos \in [Partitions -> Nat] /\ saved.pos \in [Partitions -> Nat]
         /\ seen \subseteq Counted /\ saved.seen \subseteq Counted
         /\ published \subseteq Counted /\ Counted \subseteq Events
         /\ \A e \in Events : PartOf[e] \in Partitions /\ WindowEnd(e) \in Nat
         /\ Marks \subseteq Nat
<1>1. Marks \subseteq Nat /\ \A e \in Events : WindowEnd(e) \in Nat
  BY TimeFacts
<1>2. /\ acc \in [Events -> Nat] /\ agg \in [Events -> Nat]
      /\ winMark \in Marks \cup {NoMark}
      /\ saved.acc \in [Events -> Nat] /\ saved.agg \in [Events -> Nat]
      /\ saved.winMark \in Marks \cup {NoMark}
      /\ pos \in [Partitions -> Nat] /\ saved.pos \in [Partitions -> Nat]
      /\ seen \subseteq Counted /\ saved.seen \subseteq Counted /\ published \subseteq Counted
  BY DEF TypeOK, Snapshot
<1>3. winMark \in Int /\ saved.winMark \in Int
  <2>1. NoMark \in Int
    BY DEF NoMark
  <2>2. ASSUME NEW t \in Marks \cup {NoMark} PROVE t \in Int
    BY <1>1, <2>1
  <2> QED BY <1>2, <2>2
<1>4. Counted \subseteq Events /\ \A e \in Events : PartOf[e] \in Partitions
  BY RealtimeAssumption
<1> QED BY <1>1, <1>2, <1>3, <1>4

\* A step that leaves the operators, the offsets and the checkpoint alone, and
\* takes nothing from the partitions or from what was published.
LEMMA KeptFrame ==
  ASSUME KeptInv, TypeOK', KeyedLog',
         UNCHANGED <<pos, acc, agg, winMark, dropped, saved, published, swallowed>>,
         seen' \subseteq seen,
         \A e \in Events : ToRead(pos, e) => ToRead(pos, e)',
         \A e \in Events : ToRead(saved.pos, e) => ToRead(saved.pos, e)'
  PROVE  KeptInv'
<1>1. published \subseteq Events /\ seen \subseteq Events /\ Counted \subseteq Events
      /\ saved.seen \subseteq Events
  BY StateTypes DEF KeptInv
<1>2. ASSUME NEW e \in Events PROVE Handled(Now, e) => Handled(Now, e)'
  BY NowFields DEF Handled, ClosedIn
<1>3. ASSUME NEW e \in Events PROVE Handled(saved, e) => Handled(saved, e)'
  BY DEF Handled, ClosedIn
<1>4. ASSUME NEW e \in Events PROVE ClosedIn(Now, e)' <=> ClosedIn(Now, e)
  BY NowFields DEF ClosedIn
<1>5. ASSUME NEW e \in Events PROVE ClosedIn(saved, e)' <=> ClosedIn(saved, e)
  BY DEF ClosedIn
<1>6. ASSUME NEW e \in Events PROVE Held(Now, e) => Held(Now, e)'
  <2>1. Held(Now, e) <=> Handled(Now, e) \/ ToRead(pos, e)
    BY NowFields DEF Held
  <2>2. Held(Now, e)' <=> Handled(Now, e)' \/ ToRead(pos, e)'
    BY NowFields DEF Held, ToRead
  <2> QED BY <1>2, <2>1, <2>2
<1>7. ASSUME NEW e \in Events PROVE Held(saved, e) => Held(saved, e)'
  BY <1>3 DEF Held
<1>8. StateInv(Now)'
  BY <1>1, <1>2, <1>4, <1>6, NowFields DEF KeptInv, StateInv
<1>9. StateInv(saved)'
  BY <1>1, <1>3, <1>5, <1>7 DEF KeptInv, StateInv
<1>10. SavedBehind'
  BY <1>1, <1>5, <1>7 DEF KeptInv, SavedBehind
<1> QED BY <1>8, <1>9, <1>10 DEF KeptInv

\* What is to be read stays to be read when a record is appended.
LEMMA KeptProduce ==
  ASSUME KeptInv, TypeOK', NEW f \in Events, Produce(f)
  PROVE  KeptInv'
<1>1. /\ log' = [log EXCEPT ![PartOf[f]] = Append(@, f)]
      /\ log \in [Partitions -> Seq(Events)] /\ PartOf[f] \in Partitions
  BY RealtimeAssumption DEF Produce, KeptInv, TypeOK
<1>2. ASSUME NEW p \in Partitions
      PROVE  /\ DOMAIN log[p] \subseteq DOMAIN log'[p]
             /\ \A i \in DOMAIN log[p] : log'[p][i] = log[p][i]
             /\ \A i \in DOMAIN log'[p] \ DOMAIN log[p] : log'[p][i] = f /\ p = PartOf[f]
  <2>1. log[p] \in Seq(Events)
    BY <1>1
  <2>2. CASE p = PartOf[f]
    BY <1>1, <2>1, <2>2
  <2>3. CASE p # PartOf[f]
    BY <1>1, <2>3
  <2> QED BY <2>2, <2>3
<1>3. KeyedLog'
  BY <1>2 DEF KeptInv, KeyedLog
<1>4. ASSUME NEW e \in Events, NEW from, ToRead(from, e)
      PROVE  \E i \in DOMAIN log'[PartOf[e]] : i > from[PartOf[e]] /\ log'[PartOf[e]][i] = e
  <2>1. PartOf[e] \in Partitions
    BY RealtimeAssumption
  <2> QED BY <1>2, <1>4, <2>1 DEF ToRead
<1>5. UNCHANGED <<pos, acc, agg, winMark, dropped, seen, saved, published, swallowed>>
  BY DEF Produce, sourceVars, stateVars, sinkVars, histVars
<1>6. ASSUME NEW e \in Events PROVE ToRead(pos, e) => ToRead(pos, e)'
  BY <1>4, <1>5 DEF ToRead
<1>7. ASSUME NEW e \in Events PROVE ToRead(saved.pos, e) => ToRead(saved.pos, e)'
  BY <1>4, <1>5 DEF ToRead
<1> QED BY <1>3, <1>5, <1>6, <1>7, KeptFrame

\* The record read is the next one of its partition.
LEMMA NextRecord ==
  ASSUME KeptInv, NEW p \in Partitions, Read(p)
  PROVE  LET r == log[p][pos[p] + 1]
         IN  /\ r \in Events /\ PartOf[r] = p
             /\ ToRead(saved.pos, r)
             /\ \A e \in Events : ToRead(pos, e) => e = r \/ ToRead(pos, e)'
<1> DEFINE r == log[p][pos[p] + 1]
<1>1. /\ log[p] \in Seq(Events) /\ pos \in [Partitions -> Nat] /\ pos[p] < Len(log[p])
      /\ saved.pos \in [Partitions -> Nat] /\ saved.pos[p] <= pos[p]
      /\ pos' = [pos EXCEPT ![p] = @ + 1] /\ log' = log
  BY StateTypes DEF KeptInv, SavedBehind, TypeOK, Read, Unread
<1>2. pos[p] + 1 \in DOMAIN log[p] /\ pos[p] + 1 > saved.pos[p]
  BY <1>1
<1>3. r \in Events /\ PartOf[r] = p
  BY <1>1, <1>2 DEF KeptInv, KeyedLog
<1>4. ToRead(saved.pos, r)
  BY <1>2, <1>3 DEF ToRead
<1>5. ASSUME NEW e \in Events, ToRead(pos, e), e # r PROVE ToRead(pos, e)'
  <2>1. PICK i \in DOMAIN log[PartOf[e]] : i > pos[PartOf[e]] /\ log[PartOf[e]][i] = e
    BY <1>5 DEF ToRead
  <2>2. PartOf[e] \in Partitions /\ log[PartOf[e]] \in Seq(Events)
    BY RealtimeAssumption DEF KeptInv, TypeOK
  <2>3. i \in Nat /\ pos[PartOf[e]] \in Nat
    BY <1>1, <2>1, <2>2
  <2>4. i > pos'[PartOf[e]]
    <3>1. CASE PartOf[e] = p
      <4>1. i # pos[p] + 1
        BY <1>5, <2>1, <3>1
      <4> QED BY <1>1, <2>1, <2>3, <3>1, <4>1
    <3>2. CASE PartOf[e] # p
      BY <1>1, <2>1, <2>2, <3>2
    <3> QED BY <3>1, <3>2
  <2> QED BY <1>1, <2>1, <2>4 DEF ToRead
<1> QED BY <1>3, <1>4, <1>5

\* Only the partitions and the checkpoint say what a recovery would find.
LEMMA SavedStays ==
  ASSUME UNCHANGED <<log, saved>>
  PROVE  /\ \A e \in Events : Handled(saved, e) => Handled(saved, e)'
         /\ \A e \in Events : ToRead(saved.pos, e) => ToRead(saved.pos, e)'
         /\ \A e \in Events : Held(saved, e) => Held(saved, e)'
         /\ \A e \in Events : ClosedIn(saved, e)' => ClosedIn(saved, e)
<1>1. ASSUME NEW e \in Events PROVE Handled(saved, e) => Handled(saved, e)'
  BY DEF Handled, ClosedIn
<1>2. ASSUME NEW e \in Events PROVE ToRead(saved.pos, e) => ToRead(saved.pos, e)'
  BY DEF ToRead
<1>3. ASSUME NEW e \in Events PROVE Held(saved, e) => Held(saved, e)'
  BY <1>1, <1>2 DEF Held
<1>4. ASSUME NEW e \in Events PROVE ClosedIn(saved, e)' => ClosedIn(saved, e)
  BY DEF ClosedIn
<1> QED BY <1>1, <1>2, <1>3, <1>4

LEMMA SavedStateStays ==
  ASSUME KeptInv, UNCHANGED <<log, saved>>,
         swallowed \subseteq swallowed', published \subseteq published',
         \A e \in published' \ published : e \in Events /\ Held(saved, e)
  PROVE  StateInv(saved)'
<1>1. published \subseteq Events /\ saved.seen \subseteq Events /\ Counted \subseteq Events
  BY StateTypes DEF KeptInv
<1>2. ASSUME NEW e \in Events, saved'.acc[e] > 0 PROVE ~ClosedIn(saved, e)'
  BY <1>2, SavedStays DEF KeptInv, StateInv
<1>3. ASSUME NEW e \in Counted, saved'.agg[e] > 0 PROVE e \in published'
  BY <1>3 DEF KeptInv, StateInv
<1>4. ASSUME NEW e \in saved'.seen \ swallowed' PROVE Handled(saved, e)'
  BY <1>1, <1>4, SavedStays DEF KeptInv, StateInv
<1>5. ASSUME NEW e \in published' \ swallowed' PROVE Held(saved, e)'
  BY <1>1, <1>5, SavedStays DEF KeptInv, StateInv
<1> QED BY <1>2, <1>3, <1>4, <1>5 DEF StateInv

\* What one record does: it is filtered, counted, recorded as late, or swallowed.
LEMMA RecordGoesSomewhere ==
  ASSUME KeptInv, NEW r \in Events, FilterOut(r) \/ FirstRow(r),
         UNCHANGED <<winMark, agg>>
  PROVE  /\ swallowed \subseteq swallowed' /\ seen' \subseteq seen \cup {r}
         /\ \A e \in Events : acc'[e] > 0 => acc[e] > 0 \/ (e = r /\ ~ClosedIn(Now, e))
         /\ \A e \in Events : Handled(Now, e) => Handled(Now, e)'
         /\ r \in Counted => Handled(Now, r)' \/ r \in swallowed'
<1>1. acc \in [Events -> Nat]
  BY DEF KeptInv, TypeOK
<1>2. CASE FilterOut(r)
  <2>1. UNCHANGED <<seen, acc, dropped, swallowed>> /\ (r \in Counted => r \in seen)
    BY <1>2 DEF FilterOut
  <2>2. ASSUME NEW e \in Events PROVE Handled(Now, e) => Handled(Now, e)'
    BY <2>1, NowFields DEF Handled, ClosedIn
  <2>3. r \in seen => Handled(Now, r) \/ r \in swallowed
    BY NowFields DEF KeptInv, StateInv
  <2> QED BY <2>1, <2>2, <2>3
<1>3. CASE FirstRow(r)
  <2>1. /\ seen' = seen \cup {r}
        /\ acc' = IF WindowClosed(r) THEN acc ELSE [acc EXCEPT ![r] = @ + 1]
        /\ dropped' = IF IsLate(r) THEN dropped \cup {r} ELSE dropped
        /\ swallowed' = IF WindowClosed(r) /\ ~IsLate(r) THEN swallowed \cup {r} ELSE swallowed
    BY <1>3 DEF FirstRow
  <2>2. WindowClosed(r) <=> ClosedIn(Now, r)
    BY NowFields DEF WindowClosed, ClosedIn
  <2>3. ASSUME NEW e \in Events
        PROVE  /\ acc'[e] >= acc[e]
               /\ acc'[e] > 0 => acc[e] > 0 \/ (e = r /\ ~ClosedIn(Now, e))
    BY <1>1, <2>1, <2>2
  <2>4. ASSUME NEW e \in Events PROVE Handled(Now, e) => Handled(Now, e)'
    <3>1. acc[e] \in Nat /\ acc'[e] \in Nat
      BY <1>1, <2>1
    <3>2. dropped \subseteq dropped'
      BY <2>1
    <3> QED BY <2>3, <3>1, <3>2, NowFields DEF Handled, ClosedIn
  <2>5. Handled(Now, r)' \/ r \in swallowed'
    <3>1. CASE ~WindowClosed(r)
      <4>1. acc'[r] > 0
        BY <1>1, <2>1, <3>1
      <4> QED BY <4>1, NowFields DEF Handled
    <3>2. CASE WindowClosed(r) /\ IsLate(r)
      BY <2>1, <3>2, NowFields DEF Handled
    <3>3. CASE WindowClosed(r) /\ ~IsLate(r)
      BY <2>1, <3>3
    <3> QED BY <3>1, <3>2, <3>3
  <2>6. swallowed \subseteq swallowed'
    BY <2>1
  <2>7. \A e \in Events : acc'[e] > 0 => acc[e] > 0 \/ (e = r /\ ~ClosedIn(Now, e))
    BY <2>3
  <2>8. \A e \in Events : Handled(Now, e) => Handled(Now, e)'
    BY <2>4
  <2> QED BY <2>1, <2>5, <2>6, <2>7, <2>8
<1> QED BY <1>2, <1>3

LEMMA KeptRead ==
  ASSUME KeptInv, TypeOK', NEW p \in Partitions, Read(p)
  PROVE  KeptInv'
<1>1. PICK r \in Events : /\ FilterOut(r) \/ FirstRow(r)
                        /\ ToRead(saved.pos, r)
                        /\ \A e \in Events : ToRead(pos, e) => e = r \/ ToRead(pos, e)'
  BY NextRecord DEF Read
<1>2. UNCHANGED <<log, winMark, agg, saved, published>> /\ pos' = [pos EXCEPT ![p] = @ + 1]
  BY DEF Read
<1>3. /\ swallowed \subseteq swallowed' /\ seen' \subseteq seen \cup {r}
      /\ \A e \in Events : acc'[e] > 0 => acc[e] > 0 \/ (e = r /\ ~ClosedIn(Now, e))
      /\ \A e \in Events : Handled(Now, e) => Handled(Now, e)'
      /\ r \in Counted => Handled(Now, r)' \/ r \in swallowed'
  BY <1>1, <1>2, RecordGoesSomewhere
<1>4. /\ published \subseteq Counted /\ seen' \subseteq Counted /\ Counted \subseteq Events
      /\ pos \in [Partitions -> Nat] /\ saved.pos \in [Partitions -> Nat]
  BY StateTypes DEF KeptInv, TypeOK
<1>5. KeyedLog' /\ StateInv(saved)'
  BY <1>2, <1>3, SavedStateStays DEF KeptInv, KeyedLog
<1>6. StateInv(Now)'
  <2>1. ASSUME NEW e \in Events, acc'[e] > 0 PROVE ~ClosedIn(Now, e)'
    <3>1. ~ClosedIn(Now, e)
      BY <1>3, <2>1, NowFields DEF KeptInv, StateInv
    <3> QED BY <1>2, <3>1, NowFields DEF ClosedIn
  <2>2. ASSUME NEW e \in Counted, agg'[e] > 0 PROVE e \in published'
    BY <1>2, <2>2, NowFields DEF KeptInv, StateInv
  <2>3. ASSUME NEW e \in seen' \ swallowed' PROVE Handled(Now, e)'
    <3>1. CASE e = r
      BY <1>3, <1>4, <2>3, <3>1
    <3>2. CASE e \in seen \ swallowed
      BY <1>3, <1>4, <3>2, NowFields DEF KeptInv, StateInv
    <3> QED BY <1>3, <2>3, <3>1, <3>2
  <2>4. ASSUME NEW e \in published' \ swallowed' PROVE Held(Now, e)'
    <3>1. e \in published \ swallowed /\ e \in Counted /\ e \in Events
      BY <1>2, <1>3, <1>4, <2>4
    <3>2. Handled(Now, e) \/ ToRead(pos, e)
      BY <3>1, NowFields DEF KeptInv, StateInv, Held
    <3>3. Handled(Now, e)' \/ ToRead(pos, e)'
      BY <1>1, <1>3, <2>4, <3>1, <3>2
    <3> QED BY <3>3, NowFields DEF Held, ToRead
  <2> QED BY <2>1, <2>2, <2>3, <2>4, NowFields DEF StateInv
<1>7. SavedBehind'
  <2>1. ASSUME NEW q \in Partitions PROVE saved'.pos[q] <= pos'[q]
    BY <1>2, <1>4 DEF KeptInv, SavedBehind
  <2>2. saved'.winMark <= winMark'
    BY <1>2 DEF KeptInv, SavedBehind
  <2>3. ASSUME NEW e \in Counted, acc'[e] > 0 PROVE Held(saved, e)'
    <3>1. Held(saved, e)
      BY <1>1, <1>3, <1>4, <2>3 DEF KeptInv, SavedBehind, Held
    <3> QED BY <1>2, <1>4, <3>1, SavedStays
  <2>4. ASSUME NEW e \in Events, ClosedIn(saved, e)' PROVE agg'[e] = saved'.agg[e]
    BY <1>2, <2>4, SavedStays DEF KeptInv, SavedBehind
  <2> QED BY <2>1, <2>2, <2>3, <2>4 DEF SavedBehind
<1> QED BY <1>5, <1>6, <1>7 DEF KeptInv

\* A window that is closed has no records left, so its result stays; the others
\* turn what they count into their result, or wait.
LEMMA WindowsFire ==
  ASSUME KeptInv, NEW t \in Marks, AdvanceWatermark(t), NEW e \in Events
  PROVE  /\ ClosedIn(Now, e) => agg'[e] = agg[e]
         /\ ClosedIn(Now, e) => ClosedIn(Now, e)'
         /\ acc'[e] > 0 => acc[e] > 0 /\ ~ClosedIn(Now, e)'
         /\ acc[e] > 0 => acc'[e] > 0 \/ (agg'[e] > 0 /\ ClosedIn(Now, e)')
         /\ agg'[e] > 0 => agg[e] > 0 \/ acc[e] > 0
<1>1. /\ acc'[e] = IF Fires(e, t) THEN 0 ELSE acc[e]
      /\ agg'[e] = IF Fires(e, t) /\ HasRecords(e) THEN acc[e] ELSE agg[e]
      /\ winMark' = Later(winMark, t)
  BY DEF AdvanceWatermark
<1>2. /\ t \in Int /\ winMark \in Int /\ winMark' \in {winMark, t} /\ winMark' >= winMark /\ winMark' >= t
      /\ WindowEnd(e) \in Nat /\ acc[e] \in Nat /\ agg[e] \in Nat
  BY <1>1, StateTypes, LaterFacts DEF KeptInv
<1>3. ClosedIn(Now, e) <=> winMark >= WindowEnd(e) - 1
  BY NowFields DEF ClosedIn
<1>4. ClosedIn(Now, e)' <=> winMark' >= WindowEnd(e) - 1
  BY NowFields DEF ClosedIn
<1>5. ClosedIn(Now, e) => ~HasRecords(e)
  BY <1>3, NowFields DEF KeptInv, StateInv, ClosedIn, HasRecords, SameWindow
<1>6. acc[e] > 0 => HasRecords(e) /\ ~ClosedIn(Now, e)
  BY NowFields DEF KeptInv, StateInv, HasRecords, SameWindow
<1>7. ClosedIn(Now, e)' <=> ClosedIn(Now, e) \/ Fires(e, t)
  BY <1>2, <1>3, <1>4 DEF Fires
<1> QED BY <1>1, <1>2, <1>5, <1>6, <1>7

LEMMA KeptAdvance ==
  ASSUME KeptInv, TypeOK', NEW t \in Marks, AdvanceWatermark(t)
  PROVE  KeptInv'
<1>1. /\ UNCHANGED <<log, pos, seen, dropped, saved, swallowed>>
      /\ published' = published \cup {e \in Counted : agg'[e] > 0}
  BY DEF AdvanceWatermark
<1>2. /\ published \subseteq Counted /\ seen \subseteq Counted /\ Counted \subseteq Events
      /\ winMark \in Int /\ t \in Int
  BY StateTypes DEF KeptInv
<1>3. ASSUME NEW e \in published' \ published PROVE e \in Counted /\ acc[e] > 0
  <2>1. e \in Counted /\ agg'[e] > 0 /\ ~(agg[e] > 0)
    BY <1>1, <1>3, NowFields DEF KeptInv, StateInv
  <2> QED BY <1>2, <2>1, WindowsFire
<1>4. ASSUME NEW e \in Events PROVE Handled(Now, e) => Handled(Now, e)'
  BY <1>1, WindowsFire, NowFields DEF Handled
<1>5. KeyedLog'
  BY <1>1 DEF KeptInv, KeyedLog
<1>6. StateInv(saved)'
  <2>1. ASSUME NEW e \in published' \ published PROVE e \in Events /\ Held(saved, e)
    BY <1>2, <1>3 DEF KeptInv, SavedBehind
  <2> QED BY <1>1, <2>1, SavedStateStays
<1>7. StateInv(Now)'
  <2>1. ASSUME NEW e \in Events, acc'[e] > 0 PROVE ~ClosedIn(Now, e)'
    BY <2>1, WindowsFire
  <2>2. ASSUME NEW e \in Counted, agg'[e] > 0 PROVE e \in published'
    BY <1>1, <2>2
  <2>3. ASSUME NEW e \in seen' \ swallowed' PROVE Handled(Now, e)'
    BY <1>1, <1>2, <1>4, <2>3, NowFields DEF KeptInv, StateInv
  <2>4. ASSUME NEW e \in published' \ swallowed' PROVE Held(Now, e)'
    <3>1. e \in Events /\ (Handled(Now, e) \/ ToRead(pos, e))
      <4>1. CASE e \in published
        BY <1>1, <1>2, <2>4, <4>1, NowFields DEF KeptInv, StateInv, Held
      <4>2. CASE e \notin published
        BY <1>2, <1>3, <2>4, <4>2, NowFields DEF Handled
      <4> QED BY <4>1, <4>2
    <3>2. Handled(Now, e)' \/ ToRead(pos, e)'
      BY <1>1, <1>4, <3>1 DEF ToRead
    <3> QED BY <3>2, NowFields DEF Held, ToRead
  <2> QED BY <2>1, <2>2, <2>3, <2>4, NowFields DEF StateInv
<1>8. SavedBehind'
  <2>1. ASSUME NEW q \in Partitions PROVE saved'.pos[q] <= pos'[q]
    BY <1>1 DEF KeptInv, SavedBehind
  <2>2. saved'.winMark <= winMark'
    <3>1. winMark' >= winMark
      BY <1>2, LaterFacts DEF AdvanceWatermark
    <3>2. winMark' \in Int /\ saved.winMark \in Int
      BY <1>2, StateTypes DEF KeptInv, AdvanceWatermark, Later
    <3> QED BY <1>1, <1>2, <3>1, <3>2 DEF KeptInv, SavedBehind
  <2>3. ASSUME NEW e \in Counted, acc'[e] > 0 PROVE Held(saved, e)'
    <3>1. Held(saved, e)
      BY <1>2, <2>3, WindowsFire DEF KeptInv, SavedBehind
    <3> QED BY <1>1, <1>2, <3>1, SavedStays
  <2>4. ASSUME NEW e \in Events, ClosedIn(saved, e)' PROVE agg'[e] = saved'.agg[e]
    <3>1. ClosedIn(saved, e)
      BY <1>1, <2>4, SavedStays
    <3>2. ClosedIn(Now, e)
      <4>1. saved.winMark \in Int /\ WindowEnd(e) \in Nat /\ saved.winMark <= winMark
        BY StateTypes DEF KeptInv, SavedBehind
      <4> QED BY <1>2, <3>1, <4>1, NowFields DEF ClosedIn
    <3> QED BY <1>1, <3>1, <3>2, WindowsFire DEF KeptInv, SavedBehind
  <2> QED BY <2>1, <2>2, <2>3, <2>4 DEF SavedBehind
<1> QED BY <1>5, <1>6, <1>7, <1>8 DEF KeptInv

LEMMA KeptCheckpoint ==
  ASSUME KeptInv, TypeOK', Checkpoint
  PROVE  KeptInv'
<1>1. /\ UNCHANGED <<log, pos, seen, acc, winMark, agg, dropped, published, swallowed>>
      /\ saved' = Now
  BY DEF Checkpoint, sourceVars, stateVars, sinkVars, histVars
<1>2. /\ published \subseteq Events /\ seen \subseteq Events /\ Counted \subseteq Events
      /\ winMark \in Int /\ pos \in [Partitions -> Nat]
  BY StateTypes DEF KeptInv
<1>3. Now' = Now
  BY <1>1 DEF Now
<1>4. ASSUME NEW e \in Events
      PROVE  /\ Handled(Now, e) => Handled(saved, e)' /\ Handled(Now, e)'
             /\ ClosedIn(Now, e) <=> ClosedIn(saved, e)'
             /\ ClosedIn(Now, e) <=> ClosedIn(Now, e)'
  BY <1>1, <1>3 DEF Handled, ClosedIn
<1>5. ASSUME NEW e \in Events
      PROVE  Held(Now, e) => Held(saved, e)' /\ Held(Now, e)'
  BY <1>1, <1>3, <1>4 DEF Held, ToRead
<1>6. StateInv(Now)'
  BY <1>1, <1>2, <1>3, <1>4, <1>5 DEF KeptInv, StateInv
<1>7. StateInv(saved)'
  BY <1>1, <1>2, <1>4, <1>5 DEF KeptInv, StateInv
<1>8. SavedBehind'
  <2>1. /\ \A q \in Partitions : saved'.pos[q] <= pos'[q]
        /\ saved'.winMark <= winMark'
        /\ saved'.agg = agg'
    BY <1>1, <1>2, NowFields
  <2>2. ASSUME NEW e \in Counted, acc'[e] > 0 PROVE Held(saved, e)'
    <3>1. Handled(Now, e)
      BY <1>1, <2>2, NowFields DEF Handled
    <3> QED BY <1>2, <1>5, <3>1 DEF Held
  <2> QED BY <2>1, <2>2 DEF SavedBehind
<1>9. KeyedLog'
  BY <1>1 DEF KeptInv, KeyedLog
<1> QED BY <1>6, <1>7, <1>8, <1>9 DEF KeptInv

LEMMA KeptRecover ==
  ASSUME KeptInv, TypeOK', Recover
  PROVE  KeptInv'
<1>1. /\ UNCHANGED <<log, saved, published, swallowed>>
      /\ pos' = saved.pos /\ seen' = saved.seen /\ acc' = saved.acc /\ winMark' = saved.winMark
      /\ saved.dropped \subseteq dropped'
  BY DEF Recover
<1>2. \A e \in Events : agg'[e] = saved.agg[e] \/ agg'[e] = agg[e]
  BY DEF Recover
<1>3. /\ published \subseteq Events /\ saved.seen \subseteq Events /\ Counted \subseteq Events
      /\ saved.winMark \in Int /\ saved.pos \in [Partitions -> Nat]
  BY StateTypes DEF KeptInv
<1>4. ASSUME NEW e \in Events, ClosedIn(saved, e) PROVE agg'[e] = saved.agg[e]
  BY <1>2, <1>4 DEF KeptInv, SavedBehind
<1>5. ASSUME NEW e \in Events PROVE ClosedIn(Now, e)' <=> ClosedIn(saved, e)
  BY <1>1, NowFields DEF ClosedIn
<1>6. ASSUME NEW e \in Events PROVE Handled(saved, e) => Handled(Now, e)'
  <2>1. saved.agg[e] > 0 /\ ClosedIn(saved, e) => agg'[e] > 0 /\ ClosedIn(Now, e)'
    BY <1>4, <1>5
  <2> QED BY <1>1, <2>1, NowFields DEF Handled
<1>7. ASSUME NEW e \in Events PROVE Held(saved, e) => Held(Now, e)'
  BY <1>1, <1>6, NowFields DEF Held, ToRead
<1>8. StateInv(Now)'
  <2>1. ASSUME NEW e \in Events, acc'[e] > 0 PROVE ~ClosedIn(Now, e)'
    BY <1>1, <1>5, <2>1 DEF KeptInv, StateInv
  <2>2. ASSUME NEW e \in Counted, agg'[e] > 0 PROVE e \in published'
    BY <1>1, <1>2, <1>3, <2>2, NowFields DEF KeptInv, StateInv
  <2>3. ASSUME NEW e \in seen' \ swallowed' PROVE Handled(Now, e)'
    BY <1>1, <1>3, <1>6, <2>3 DEF KeptInv, StateInv
  <2>4. ASSUME NEW e \in published' \ swallowed' PROVE Held(Now, e)'
    BY <1>1, <1>3, <1>7, <2>4 DEF KeptInv, StateInv
  <2> QED BY <2>1, <2>2, <2>3, <2>4, NowFields DEF StateInv
<1>9. StateInv(saved)' /\ KeyedLog'
  BY <1>1, SavedStateStays DEF KeptInv, KeyedLog
<1>10. SavedBehind'
  <2>1. (\A q \in Partitions : saved'.pos[q] <= pos'[q]) /\ saved'.winMark <= winMark'
    BY <1>1, <1>3
  <2>2. ASSUME NEW e \in Counted, acc'[e] > 0 PROVE Held(saved, e)'
    <3>1. Held(saved, e)
      BY <1>1, <2>2 DEF Held, Handled
    <3> QED BY <1>1, <1>3, <3>1, SavedStays
  <2>3. ASSUME NEW e \in Events, ClosedIn(saved, e)' PROVE agg'[e] = saved'.agg[e]
    BY <1>1, <1>4, <2>3, SavedStays
  <2> QED BY <2>1, <2>2, <2>3 DEF SavedBehind
<1> QED BY <1>8, <1>9, <1>10 DEF KeptInv

\* Every step keeps it, whatever fails and however often.
LEMMA NextKept == KeptInv /\ [Next]_vars => KeptInv'
<1> SUFFICES ASSUME KeptInv, [Next]_vars PROVE KeptInv'
  OBVIOUS
<1>0. TypeOK'
  BY NextType DEF KeptInv
<1>1. ASSUME UNCHANGED <<log, pos, acc, agg, winMark, dropped, saved, published, swallowed>>,
             seen' \subseteq seen
      PROVE  KeptInv'
  <2>1. KeyedLog'
    BY <1>1 DEF KeptInv, KeyedLog
  <2>2. ASSUME NEW e \in Events PROVE ToRead(pos, e) => ToRead(pos, e)'
    BY <1>1 DEF ToRead
  <2>3. ASSUME NEW e \in Events PROVE ToRead(saved.pos, e) => ToRead(saved.pos, e)'
    BY <1>1, SavedStays
  <2> QED BY <1>0, <1>1, <2>1, <2>2, <2>3, KeptFrame
<1>2. ASSUME NEW e \in Events, Produce(e) PROVE KeptInv'
  BY <1>0, <1>2, KeptProduce
<1>3. ASSUME NEW e \in Events, ForgetId(e) PROVE KeptInv'
  BY <1>1, <1>3 DEF ForgetId, sourceVars, sinkVars
<1>4. ASSUME NEW p \in Partitions, Read(p) PROVE KeptInv'
  BY <1>0, <1>4, KeptRead
<1>5. ASSUME NEW p \in Partitions, GoIdle(p) PROVE KeptInv'
  BY <1>1, <1>5 DEF GoIdle, stateVars, sinkVars, histVars
<1>6. ASSUME NEW t \in Marks, AdvanceWatermark(t) PROVE KeptInv'
  BY <1>0, <1>6, KeptAdvance
<1>7. CASE Checkpoint
  BY <1>0, <1>7, KeptCheckpoint
<1>8. CASE Recover
  BY <1>0, <1>8, KeptRecover
<1>9. CASE UNCHANGED vars
  BY <1>1, <1>9 DEF vars, sourceVars, stateVars, sinkVars, histVars
<1> QED BY <1>2, <1>3, <1>4, <1>5, <1>6, <1>7, <1>8, <1>9 DEF Next

\* Nothing is published at the start.
LEMMA InitKept == Init => KeptInv
<1> SUFFICES ASSUME Init PROVE KeptInv
  OBVIOUS
<1>1. TypeOK
  BY InitType
<1>2. /\ saved = Now /\ published = {} /\ seen = {}
      /\ \A e \in Events : acc[e] = 0 /\ agg[e] = 0
      /\ \A p \in Partitions : log[p] = <<>>
  BY DEF Init, NoCount
<1>3. StateInv(Now) /\ StateInv(saved)
  BY <1>2, NowFields, RealtimeAssumption DEF StateInv
<1>4. KeyedLog
  BY <1>2 DEF KeyedLog
<1>5. SavedBehind
  <2>1. Counted \subseteq Events /\ winMark \in Int /\ pos \in [Partitions -> Nat]
    BY <1>1, StateTypes
  <2> QED BY <1>2, <2>1, NowFields DEF SavedBehind
<1> QED BY <1>1, <1>3, <1>4, <1>5 DEF KeptInv

\* Recovery leaves no hole in what was published, however often the job dies and
\* whatever the sinks had not flushed, apart from the events it swallows.
THEOREM NothingPublishedIsLost == Spec => []PublishedKept
<1>1. Init => KeptInv
  BY InitKept
<1>2. KeptInv => PublishedKept
  BY NowFields DEF KeptInv, StateInv, Held, Handled, PublishedKept
<1> QED BY <1>1, <1>2, NextKept, PTL DEF Spec

-----------------------------------------------------------------------------
(* Reconciliation: the batch reads a prefix of what the job reads *)

\* The records a batch settles are records of the log.
SettledOK ==
  /\ settled \in [Partitions -> Nat]
  /\ \A p \in Partitions : settled[p] <= Len(log[p])

RecInv == TypeOK /\ SettledOK

\* No step takes a record away.
LEMMA LogGrows ==
  ASSUME TypeOK, [Next]_vars, NEW p \in Partitions
  PROVE  Len(log[p]) \in Nat /\ Len(log'[p]) \in Nat /\ Len(log[p]) <= Len(log'[p])
<1>1. log[p] \in Seq(Events)
  BY DEF TypeOK
<1>2. ASSUME NEW e \in Events, Produce(e) PROVE Len(log'[p]) \in {Len(log[p]), Len(log[p]) + 1}
  <2>1. log' = [log EXCEPT ![PartOf[e]] = Append(@, e)] /\ log \in [Partitions -> Seq(Events)]
    BY <1>2 DEF Produce, TypeOK
  <2>2. CASE p = PartOf[e]
    BY <1>1, <2>1, <2>2
  <2>3. CASE p # PartOf[e]
    BY <2>1, <2>3
  <2> QED BY <2>2, <2>3
<1>3. CASE ~\E e \in Events : Produce(e)
  <2>1. log' = log
    BY <1>3 DEF Next, ForgetId, Read, GoIdle, AdvanceWatermark, Checkpoint, Recover, vars
  <2> QED BY <1>1, <2>1
<1> QED BY <1>1, <1>2, <1>3

LEMMA RecIsInvariant == RSpec => []RecInv
<1>1. RInit => RecInv
  <2> SUFFICES ASSUME RInit PROVE RecInv
    OBVIOUS
  <2>1. TypeOK
    BY InitType DEF RInit
  <2>2. settled = [p \in Partitions |-> 0] /\ \A p \in Partitions : log[p] \in Seq(Events)
    BY <2>1 DEF RInit, TypeOK
  <2> QED BY <2>1, <2>2 DEF RecInv, SettledOK
<1>2. RecInv /\ [RNext]_<<vars, settled>> => RecInv'
  <2> SUFFICES ASSUME RecInv, [RNext]_<<vars, settled>> PROVE RecInv'
    OBVIOUS
  <2>1. CASE Batch
    <3>1. PICK cut \in [Partitions -> 0..MaxRecords] :
            (\A p \in Partitions : cut[p] \in settled[p]..Len(log[p])) /\ settled' = cut
      BY <2>1 DEF Batch
    <3>2. [Next]_vars
      BY <2>1 DEF Batch
    <3>3. TypeOK' /\ \A p \in Partitions : Len(log[p]) <= Len(log'[p]) /\ Len(log'[p]) \in Nat
                                           /\ Len(log[p]) \in Nat
      BY <3>2, NextType, LogGrows DEF RecInv
    <3>4. \A p \in Partitions : settled'[p] \in Nat /\ settled'[p] <= Len(log[p])
      BY <3>1, <3>3, RealtimeAssumption DEF RecInv, SettledOK
    <3>5. settled' \in [Partitions -> Nat]
      BY <3>1, <3>4
    <3> QED BY <3>3, <3>4, <3>5 DEF RecInv, SettledOK
  <2>2. CASE [Next]_vars /\ UNCHANGED settled
    <3>1. TypeOK' /\ \A p \in Partitions : Len(log[p]) <= Len(log'[p]) /\ Len(log'[p]) \in Nat
                                           /\ Len(log[p]) \in Nat
      BY <2>2, NextType, LogGrows DEF RecInv
    <3> QED BY <2>2, <3>1 DEF RecInv, SettledOK
  <2> QED BY <2>1, <2>2 DEF RNext, Report
<1> QED BY <1>1, <1>2, PTL DEF RSpec

\* Running the batch does not disturb the realtime job.
LEMMA RecRunsRealtime == RSpec => Spec
<1>1. RInit => Init
  BY DEF RInit
<1>2. [RNext]_<<vars, settled>> => [Next]_vars
  BY DEF RNext, Batch, Report
<1> QED BY <1>1, <1>2, PTL DEF RSpec, Spec

\* What the batch reads are events, finitely many.
LEMMA SettledAreEvents ==
  ASSUME RecInv
  PROVE  Deduped \subseteq Events /\ AllImpressions \subseteq Events /\ IsFiniteSet(AllImpressions)
<1>1. ASSUME NEW p \in Partitions PROVE ToSet(SubSeq(log[p], 1, settled[p])) \subseteq Events
  <2>1. log[p] \in Seq(Events) /\ settled[p] \in Nat /\ settled[p] <= Len(log[p])
    BY DEF RecInv, SettledOK, TypeOK
  <2>2. SubSeq(log[p], 1, settled[p]) \in Seq(Events)
    BY <2>1
  <2> QED BY <2>2 DEF ToSet
<1>2. Deduped \subseteq Events
  BY <1>1 DEF Deduped
<1>3. AllImpressions \subseteq Events
  BY <1>2 DEF AllImpressions
<1> QED BY <1>2, <1>3, FS_Subset, RealtimeAssumption

-----------------------------------------------------------------------------
(* Each ad request is billed once *)

LEMMA SourceRankIsNat == ASSUME NEW e PROVE SourceRank(e) \in Nat
<1>1. Len(Priority) = 2 /\ DOMAIN Priority = 1..2
  BY DEF Priority
<1>2. ToSet(Priority) = {Priority[i] : i \in DOMAIN Priority}
  BY DEF ToSet
<1>3. CASE SourceOf[e] \in ToSet(Priority)
  <2>1. \E i \in DOMAIN Priority : Priority[i] = SourceOf[e]
    BY <1>2, <1>3
  <2>2. PICK k : k = CHOOSE i \in DOMAIN Priority : Priority[i] = SourceOf[e]
    OBVIOUS
  <2>3. k \in DOMAIN Priority
    BY <2>1, <2>2
  <2>4. SourceRank(e) = k
    BY <1>3, <2>2, Zenon DEF SourceRank
  <2> QED BY <1>1, <2>3, <2>4
<1>4. CASE SourceOf[e] \notin ToSet(Priority)
  BY <1>1, <1>4 DEF SourceRank
<1> QED BY <1>3, <1>4

\* The rows of a request are ranked by a strict total order.
LEMMA BeforeIsTotal ==
  ASSUME NEW e \in Events, NEW f \in Events
  PROVE  e # f => (Before(e, f) <=> ~Before(f, e))
<1>1. /\ SourceRank(e) \in Nat /\ SourceRank(f) \in Nat
      /\ TimeOf[e] \in Nat /\ TimeOf[f] \in Nat
  BY SourceRankIsNat, RealtimeAssumption
<1>2. IdOrder[e] \in Nat /\ IdOrder[f] \in Nat /\ (IdOrder[e] = IdOrder[f] => e = f)
  BY ReconciliationAssumption
<1> QED BY <1>1, <1>2 DEF Before

LEMMA BeforeIsTransitive ==
  ASSUME NEW e \in Events, NEW f \in Events, NEW g \in Events, Before(e, f), Before(f, g)
  PROVE  Before(e, g)
<1>1. /\ SourceRank(e) \in Nat /\ SourceRank(f) \in Nat /\ SourceRank(g) \in Nat
      /\ TimeOf[e] \in Nat /\ TimeOf[f] \in Nat /\ TimeOf[g] \in Nat
  BY SourceRankIsNat, RealtimeAssumption
<1>2. IdOrder[e] \in Nat /\ IdOrder[f] \in Nat /\ IdOrder[g] \in Nat
  BY ReconciliationAssumption
<1> QED BY <1>1, <1>2 DEF Before

\* So a set of events that is not empty has a first one.
LEMMA FirstRanked ==
  ASSUME NEW S, S \subseteq Events, S # {}
  PROVE  \E e \in S : \A f \in S \ {e} : Before(e, f)
<1> DEFINE Lower(e) == {f \in S : Before(f, e)}
           Bad == {Lower(e) : e \in S}
<1>1. IsFiniteSet(S)
  BY FS_Subset, RealtimeAssumption
<1>2. Bad \subseteq SUBSET S /\ Bad # {}
  OBVIOUS
<1>3. PICK T \in Bad : \A U \in Bad : U \subseteq T => U = T
  <2> HIDE DEF Bad
  <2> QED BY <1>1, <1>2, SmallestSubset
<1>4. PICK e \in S : T = Lower(e)
  OBVIOUS
<1>5. ASSUME NEW f \in S \ {e}, ~Before(e, f) PROVE FALSE
  <2>1. Before(f, e)
    BY <1>5, BeforeIsTotal
  <2>2. Lower(f) \subseteq Lower(e)
    BY <2>1, BeforeIsTransitive
  <2>3. Lower(f) = Lower(e)
    BY <1>3, <1>4, <2>2
  <2>4. Before(f, f)
    BY <2>1, <2>3
  <2>5. Before(f, f) => FALSE
    <3>1. SourceRank(f) \in Nat /\ TimeOf[f] \in Nat /\ IdOrder[f] \in Nat
      BY SourceRankIsNat, RealtimeAssumption, ReconciliationAssumption
    <3> QED BY <3>1 DEF Before
  <2> QED BY <2>4, <2>5
<1> QED BY <1>5

\* Whatever was archived when the batch ran, every ad request with an impression
\* in it is billed by exactly one of them.
THEOREM RequestsBilledOnce == RSpec => []BilledOnce
<1>1. RecInv => BilledOnce
  <2> SUFFICES ASSUME RecInv PROVE BilledOnce
    OBVIOUS
  <2> DEFINE Req == {RequestOf[e] : e \in AllImpressions}
             Of(r) == {e \in AllImpressions : RequestOf[e] = r}
  <2>1. AllImpressions \subseteq Events /\ IsFiniteSet(AllImpressions)
    BY SettledAreEvents
  <2>2. Impressions \subseteq AllImpressions /\ IsFiniteSet(Impressions)
    <3>1. Impressions \subseteq AllImpressions
      BY DEF Impressions
    <3> QED BY <2>1, <3>1, FS_Subset
  <2>3. PICK bill : bill = [e \in Impressions |-> RequestOf[e]]
    OBVIOUS
  <2>4. \A e, f \in Impressions : bill[e] = bill[f] => e = f
    <3> SUFFICES ASSUME NEW e \in Impressions, NEW f \in Impressions, bill[e] = bill[f], e # f
                 PROVE  FALSE
      OBVIOUS
    <3>1. Before(e, f) /\ Before(f, e)
      BY <2>2, <2>3 DEF Impressions
    <3> QED BY <2>1, <2>2, <3>1, BeforeIsTotal
  <2>5. \A r \in Req : \E e \in Impressions : bill[e] = r
    <3> SUFFICES ASSUME NEW r \in Req PROVE \E e \in Impressions : bill[e] = r
      OBVIOUS
    <3>1. Of(r) # {} /\ Of(r) \subseteq Events
      BY <2>1
    <3>2. PICK e \in Of(r) : \A f \in Of(r) \ {e} : Before(e, f)
      <4> HIDE DEF Of
      <4> QED BY ONLY <3>1, FirstRanked
    <3>3. e \in Impressions
      BY <3>2 DEF Impressions
    <3> QED BY <2>3, <3>2, <3>3
  <2>6. bill \in Bijection(Impressions, Req)
    BY <2>2, <2>3, <2>4, <2>5 DEF Bijection, Injection, Surjection, IsInjective
  <2> QED BY <2>2, <2>6, FS_Bijection DEF ExistsBijection, BilledOnce
<1> QED BY <1>1, RecIsInvariant, PTL

-----------------------------------------------------------------------------
(* The report explains the difference *)

\* A minute begins before an event in it and ends after it.
LEMMA MinuteFacts ==
  ASSUME NEW t \in Nat
  PROVE  /\ t \div Minute \in Nat /\ ToMinute(t) \in Nat
         /\ ToMinute(t) <= t /\ t < ToMinute(t) + Minute
<1>1. Minute \in Nat \ {0}
  BY RealtimeAssumption
<1>2. /\ t \div Minute \in Nat /\ t % Minute \in 0..(Minute - 1)
      /\ t = Minute * (t \div Minute) + (t % Minute)
  BY <1>1
<1>3. PICK q, k : q = t \div Minute /\ k = t % Minute
  OBVIOUS
<1>4. q \in Nat /\ k \in Nat /\ k < Minute /\ t = Minute * q + k
  BY <1>1, <1>2, <1>3
<1>5. q * Minute = Minute * q /\ q * Minute \in Nat
  BY <1>1, <1>4
<1>6. ToMinute(t) = q * Minute
  BY <1>3 DEF ToMinute
<1> QED BY <1>1, <1>2, <1>4, <1>5, <1>6

\* Times in one range of minutes are not told apart within a minute.
LEMMA RangeOfMinute ==
  ASSUME NEW t \in Nat, NEW b \in Nat
  PROVE  ToMinute(b) <= t <=> ToMinute(b) <= ToMinute(t)
<1>1. /\ ToMinute(t) \in Nat /\ ToMinute(b) \in Nat
      /\ ToMinute(t) <= t /\ t < ToMinute(t) + Minute /\ Minute \in Nat \ {0}
  BY MinuteFacts, RealtimeAssumption
<1>2. PICK k, l : k = t \div Minute /\ l = b \div Minute
  OBVIOUS
<1>3. k \in Nat /\ l \in Nat /\ ToMinute(t) = k * Minute /\ ToMinute(b) = l * Minute
  BY <1>2, MinuteFacts DEF ToMinute
<1>4. ASSUME NEW m \in Nat \ {0}, NEW x \in Nat, NEW y \in Nat, x > y
      PROVE  x * m >= y * m + m
  <2>1. PICK z : z = x - y - 1
    OBVIOUS
  <2>2. z \in Nat /\ x = y + 1 + z
    BY <1>4, <2>1
  <2>3. x * m = y * m + m + z * m /\ z * m \in Nat /\ y * m \in Nat /\ x * m \in Nat
    BY <2>2
  <2> QED BY <2>3
<1>5. CASE l <= k
  <2>1. ToMinute(b) <= ToMinute(t)
    <3>1. CASE l = k
      BY <1>1, <1>3, <3>1
    <3>2. CASE l # k
      <4>1. k > l
        BY <1>3, <1>5, <3>2
      <4>2. k * Minute >= l * Minute + Minute
        BY <1>1, <1>3, <1>4, <4>1
      <4> QED BY <1>1, <1>3, <4>2
    <3> QED BY <3>1, <3>2
  <2> QED BY <1>1, <2>1
<1>6. CASE ~(l <= k)
  <2>1. l > k
    BY <1>3, <1>6
  <2>2. l * Minute >= k * Minute + Minute
    BY <1>1, <1>3, <1>4, <2>1
  <2> QED BY <1>1, <1>3, <2>2
<1> QED BY <1>5, <1>6

\* The three counts of a report look at the same events.
LEMMA SameRange ==
  ASSUME NEW e \in Events
  PROVE  /\ InRange(TimeOf[e]) <=> InRange(ToMinute(TimeOf[e]))
         /\ WindowEnd(e) - Minute = ToMinute(TimeOf[e])
<1>1. TimeOf[e] \in Nat /\ Minute \in Nat \ {0} /\ From \in Nat /\ To \in Nat
  BY RealtimeAssumption, ReconciliationAssumption
<1>2. PICK k : k = TimeOf[e] \div Minute
  OBVIOUS
<1>3. k \in Nat /\ ToMinute(TimeOf[e]) = k * Minute /\ WindowEnd(e) = (k + 1) * Minute
  BY <1>1, <1>2, MinuteFacts DEF ToMinute, WindowEnd
<1>4. (k + 1) * Minute - Minute = k * Minute
  BY <1>1, <1>3
<1>5. /\ ToMinute(From) <= TimeOf[e] <=> ToMinute(From) <= ToMinute(TimeOf[e])
      /\ ToMinute(To) <= TimeOf[e] <=> ToMinute(To) <= ToMinute(TimeOf[e])
  BY <1>1, RangeOfMinute
<1>6. ToMinute(From) \in Nat /\ ToMinute(To) \in Nat /\ ToMinute(TimeOf[e]) \in Nat
  BY <1>1, MinuteFacts
<1>7. InRange(TimeOf[e]) <=> InRange(ToMinute(TimeOf[e]))
  BY <1>1, <1>5, <1>6 DEF InRange
<1> QED BY <1>3, <1>4, <1>7

\* The residual, with the impressions the batch bills away: what the batch found
\* of a campaign, less what the realtime stored and recorded as late.
LEMMA ResidualIs ==
  ASSUME RecInv, LifeInv, NEW c
  PROVE  LET S == {e \in AllImpressions : CampaignOf[e] = c /\ InRange(TimeOf[e])}
             R == {e \in Counted : e \in Compared(c)}
             D == {e \in dropped : e \in Compared(c)}
         IN  /\ IsFiniteSet(S) /\ IsFiniteSet(R) /\ IsFiniteSet(D)
             /\ S \subseteq Compared(c)
             /\ Residual(c) = Cardinality(S) - SumFunctionOnSet(agg, R) - Cardinality(D)
<1>1. PICK S, R, D : /\ S = {e \in AllImpressions : CampaignOf[e] = c /\ InRange(TimeOf[e])}
                     /\ R = {e \in Counted : e \in Compared(c)}
                     /\ D = {e \in dropped : e \in Compared(c)}
  OBVIOUS
<1>2. AllImpressions \subseteq Events /\ IsFiniteSet(AllImpressions)
  BY SettledAreEvents
<1>3. Counted \subseteq Events /\ IsFiniteSet(Events) /\ dropped \subseteq Events /\ agg \in [Events -> Nat]
  BY RealtimeAssumption DEF RecInv, TypeOK
<1>4. S \subseteq AllImpressions /\ R \subseteq Events /\ D \subseteq Events
  BY <1>1, <1>3
<1>5. IsFiniteSet(S) /\ IsFiniteSet(R) /\ IsFiniteSet(D)
  BY <1>2, <1>3, <1>4, FS_Subset
<1>6. S \subseteq Compared(c)
  BY <1>1, <1>2 DEF Compared, AllImpressions, OnImpressionTopic
<1>7. Settled(AllImpressions, c) = Cardinality(S)
  <2>1. {e \in AllImpressions : CampaignOf[e] = c /\ InRange(ToMinute(TimeOf[e]))} = S
    BY <1>1, <1>2, SameRange
  <2> QED BY <2>1, Zenon DEF Settled
<1>8. Late(c) = Cardinality(D)
  <2>1. {e \in dropped : OnImpressionTopic(e) /\ CampaignOf[e] = c /\ InRange(TimeOf[e])} = D
    BY <1>1, <1>3 DEF Compared
  <2> QED BY <2>1, Zenon DEF Late
<1>9. Realtime(c) = SumFunctionOnSet(agg, R)
  <2>1. ASSUME NEW e \in Counted
        PROVE  InRange(WindowEnd(e) - Minute) <=> InRange(TimeOf[e])
    <3>1. e \in Events
      BY <1>3
    <3>2. WindowEnd(e) - Minute = ToMinute(TimeOf[e])
      BY <3>1, SameRange
    <3>3. InRange(ToMinute(TimeOf[e])) <=> InRange(TimeOf[e])
      BY <3>1, SameRange
    <3> QED BY <3>2, <3>3 DEF InRange
  <2>2. {e \in Counted : OnImpressionTopic(e) /\ CampaignOf[e] = c /\ InRange(WindowEnd(e) - Minute)} = R
    BY <1>1, <1>3, <2>1 DEF Compared
  <2> QED BY <2>2, Zenon DEF Realtime
<1>10. /\ Cardinality(S) \in Nat /\ Cardinality(D) \in Nat
       /\ SumFunctionOnSet(agg, R) \in Int /\ Settled(Impressions, c) \in Nat
  <2>1. SumFunctionOnSet(agg, R) \in Int
    BY <1>3, <1>4, <1>5, SumsAreIntegers
  <2>2. PICK B : B = {e \in Impressions : CampaignOf[e] = c /\ InRange(ToMinute(TimeOf[e]))}
    OBVIOUS
  <2>3. IsFiniteSet(B)
    <3>1. B \subseteq AllImpressions
      BY <2>2 DEF Impressions
    <3> QED BY <1>2, <3>1, FS_Subset
  <2>4. Settled(Impressions, c) = Cardinality(B)
    BY <2>2, Zenon DEF Settled
  <2> QED BY <1>5, <2>1, <2>3, <2>4, FS_CardinalityType
<1>11. Residual(c) = Cardinality(S) - SumFunctionOnSet(agg, R) - Cardinality(D)
  BY <1>7, <1>8, <1>9, <1>10 DEF Residual, Diff, Ssai
<1> QED BY <1>1, <1>5, <1>6, <1>11

\* Where the realtime handled every impression the batch found, it holds as many.
LEMMA PositiveExplained ==
  ASSUME RecInv, LifeInv, KeptInv, NEW c,
         \A e \in Compared(c) : ~NotYetRealtime(e)
  PROVE  ~(Residual(c) > 0)
<1>1. PICK S, R, D : /\ S = {e \in AllImpressions : CampaignOf[e] = c /\ InRange(TimeOf[e])}
                     /\ R = {e \in Counted : e \in Compared(c)}
                     /\ D = {e \in dropped : e \in Compared(c)}
  OBVIOUS
<1>2. /\ IsFiniteSet(S) /\ IsFiniteSet(R) /\ IsFiniteSet(D) /\ S \subseteq Compared(c)
      /\ Residual(c) = Cardinality(S) - SumFunctionOnSet(agg, R) - Cardinality(D)
  BY <1>1, ResidualIs
<1>3. PICK A : A = {e \in R : agg[e] > 0}
  OBVIOUS
<1>4. /\ \A e \in R : agg[e] \in Nat
      /\ seen \subseteq Counted /\ Counted \subseteq Events /\ acc \in [Events -> Nat]
  BY <1>1, StateTypes DEF RecInv
<1>5. IsFiniteSet(A) /\ Cardinality(A) <= SumFunctionOnSet(agg, R)
  BY <1>2, <1>3, <1>4, SumCoversPositive, FS_Subset
<1>6. S \subseteq A \cup D
  <2> SUFFICES ASSUME NEW e \in S PROVE e \in A \cup D
    OBVIOUS
  <2>1. e \in seen /\ ~(acc[e] > 0) /\ e \notin swallowed /\ e \in Compared(c)
    BY <1>1, <1>2 DEF NotYetRealtime
  <2>2. Handled(Now, e)
    BY <2>1, NowFields DEF KeptInv, StateInv
  <2>3. agg[e] > 0 \/ e \in dropped
    BY <2>1, <2>2, NowFields DEF Handled
  <2> QED BY <1>1, <1>3, <1>4, <2>1, <2>3
<1>7. IsFiniteSet(A \cup D) /\ Cardinality(A \cup D) <= Cardinality(A) + Cardinality(D)
  <2>1. /\ IsFiniteSet(A \cup D)
        /\ Cardinality(A \cup D) = Cardinality(A) + Cardinality(D) - Cardinality(A \cap D)
    BY <1>2, <1>5, FS_Union
  <2>2. Cardinality(A) \in Nat /\ Cardinality(D) \in Nat /\ Cardinality(A \cap D) \in Nat
    BY <1>2, <1>5, FS_Intersection, FS_CardinalityType
  <2> QED BY <2>1, <2>2
<1>8. Cardinality(S) <= Cardinality(A \cup D)
  BY <1>6, <1>7, FS_Subset
<1>9. /\ Cardinality(S) \in Nat /\ Cardinality(A) \in Nat /\ Cardinality(D) \in Nat
      /\ Cardinality(A \cup D) \in Nat /\ SumFunctionOnSet(agg, R) \in Int
  <2>1. /\ Cardinality(S) \in Nat /\ Cardinality(A) \in Nat /\ Cardinality(D) \in Nat
        /\ Cardinality(A \cup D) \in Nat
    BY <1>2, <1>5, <1>7, FS_CardinalityType
  <2>2. \A e \in R : agg[e] \in Int
    BY <1>4
  <2>3. IsFiniteSet(R)
    BY <1>2
  <2>4. SumFunctionOnSet(agg, R) \in Int
    BY ONLY <2>2, <2>3, SumType
  <2> QED BY <2>1, <2>4
<1> QED BY <1>2, <1>5, <1>7, <1>8, <1>9

\* Where the batch found everything the realtime holds, once, it has as many.
LEMMA NegativeExplained ==
  ASSUME RecInv, LifeInv, NEW c,
         \A e \in Compared(c) : RealtimeHolds(e) => ~NotInBatch(e) /\ ~HeldTwice(e)
  PROVE  ~(Residual(c) < 0)
<1>1. PICK S, R, D : /\ S = {e \in AllImpressions : CampaignOf[e] = c /\ InRange(TimeOf[e])}
                     /\ R = {e \in Counted : e \in Compared(c)}
                     /\ D = {e \in dropped : e \in Compared(c)}
  OBVIOUS
<1>2. /\ IsFiniteSet(S) /\ IsFiniteSet(R) /\ IsFiniteSet(D) /\ S \subseteq Compared(c)
      /\ Residual(c) = Cardinality(S) - SumFunctionOnSet(agg, R) - Cardinality(D)
  BY <1>1, ResidualIs
<1>3. PICK A : A = {e \in R : agg[e] > 0}
  OBVIOUS
<1>4. \A e \in R : agg[e] \in Nat /\ agg[e] <= 1
  <2> TAKE e \in R
  <2>1. e \in Counted /\ e \in Compared(c) /\ agg[e] \in Nat /\ forgets[e] \in Nat
    BY <1>1, CountsAreNumbers DEF RecInv
  <2>2. agg[e] > 0 => ~(forgets[e] > 0)
    BY <2>1 DEF RealtimeHolds, HeldTwice
  <2>3. agg[e] <= 1 + forgets[e]
    BY <2>1 DEF LifeInv
  <2> QED BY <2>1, <2>2, <2>3
<1>5. IsFiniteSet(A) /\ Cardinality(A) = SumFunctionOnSet(agg, R)
  BY <1>2, <1>3, <1>4, SumOfOnes, FS_Subset
<1>6. A \cap D = {}
  BY <1>1, <1>3 DEF RealtimeHolds, HeldTwice
<1>7. A \cup D \subseteq S
  <2> SUFFICES ASSUME NEW e \in A \cup D PROVE e \in S
    OBVIOUS
  <2>1. e \in Compared(c) /\ RealtimeHolds(e)
    BY <1>1, <1>3 DEF RealtimeHolds
  <2>2. e \in Deduped /\ TypeOf[e] = "impression" /\ CampaignOf[e] \notin NonCampaign
    BY <2>1 DEF NotInBatch
  <2> QED BY <1>1, <2>1, <2>2 DEF AllImpressions, Compared
<1>8. Cardinality(A \cup D) = Cardinality(A) + Cardinality(D)
  BY <1>2, <1>5, <1>6, CountUnion
<1>9. Cardinality(A \cup D) <= Cardinality(S)
  BY <1>2, <1>7, FS_Subset
<1>10. /\ Cardinality(S) \in Nat /\ Cardinality(A) \in Nat /\ Cardinality(D) \in Nat
       /\ SumFunctionOnSet(agg, R) \in Int
  BY <1>2, <1>5, FS_CardinalityType
<1> QED BY <1>2, <1>5, <1>8, <1>9, <1>10

\* Every report explains its difference, whatever was archived by then, however
\* often the job died and whichever ids had expired: a residual above zero means
\* an impression the realtime does not have, one below zero an impression the
\* batch does not have or the realtime has twice (reconcile.py:25-31).
THEOREM ReportsAreExplained == RSpec => []ResidualExplained
<1>1. RecInv /\ LifeInv /\ KeptInv => ResidualExplained
  <2> SUFFICES ASSUME RecInv, LifeInv, KeptInv, NEW c \in Campaigns
               PROVE  /\ Residual(c) > 0 => \E e \in Compared(c) : NotYetRealtime(e)
                      /\ Residual(c) < 0 =>
                           \E e \in Compared(c) : RealtimeHolds(e) /\ (NotInBatch(e) \/ HeldTwice(e))
    BY DEF ResidualExplained
  <2>1. Residual(c) > 0 => \E e \in Compared(c) : NotYetRealtime(e)
    BY PositiveExplained
  <2>2. Residual(c) < 0 =>
          \E e \in Compared(c) : RealtimeHolds(e) /\ (NotInBatch(e) \/ HeldTwice(e))
    BY NegativeExplained
  <2> QED BY <2>1, <2>2
<1>2. Spec => [](LifeInv /\ KeptInv)
  BY InitLife, NextLife, InitKept, NextKept, PTL DEF Spec
<1> QED BY <1>1, <1>2, RecIsInvariant, RecRunsRealtime, PTL
=============================================================================
