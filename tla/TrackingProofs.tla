---------------------------- MODULE TrackingProofs ----------------------------
(***************************************************************************)
(* Theorems about Tracking for every set of tracks and partitions, every   *)
(* number of remembered tracks and every combination of faults.            *)
(***************************************************************************)
EXTENDS Tracking, TLAPS, FiniteSetTheorems, SequenceTheorems

Record == (Tracks \X Nat) \cup {Nudge}

-----------------------------------------------------------------------------
(* Logs *)

\* Some records were appended, and the old ones are where they were.
Extends ==
  \A p \in Partitions :
    /\ Len(log[p]) <= Len(log'[p])
    /\ \A i \in 1..Len(log[p]) : log'[p][i] = log[p][i]

LogType == log \in [Partitions -> Seq(Record)]

LEMMA LogLen == LogType => \A p \in Partitions : Len(log[p]) \in Nat
BY DEF LogType

\* What appending one record does.
LEMMA AppendFacts ==
  ASSUME LogType, NEW p \in Partitions, NEW rec \in Record,
         log' = [log EXCEPT ![p] = Append(@, rec)]
  PROVE  /\ LogType'
         /\ Extends
         /\ \A q \in Partitions : \A i \in 1..Len(log'[q]) :
              i \in 1..Len(log[q]) \/ (i = Len(log[q]) + 1 /\ log'[q][i] = rec)
<1> USE DEF LogType
<1>1. log[p] \in Seq(Record)
  OBVIOUS
<1>2. log'[p] = Append(log[p], rec) /\ \A q \in Partitions : q # p => log'[q] = log[q]
  OBVIOUS
<1>3. Append(log[p], rec) \in Seq(Record) /\ Len(Append(log[p], rec)) = Len(log[p]) + 1
  BY <1>1
<1>4. \A i \in 1..Len(log[p]) : Append(log[p], rec)[i] = log[p][i]
  BY <1>1
<1>5. Append(log[p], rec)[Len(log[p]) + 1] = rec
  BY <1>1
<1>6. \A q \in Partitions : log[q] \in Seq(Record) /\ Len(log[q]) \in Nat
  OBVIOUS
<1>7. LogType'
  BY <1>2, <1>3
<1>8. Extends
  BY <1>2, <1>3, <1>4, <1>6 DEF Extends
<1>9. ASSUME NEW q \in Partitions, NEW i \in 1..Len(log'[q])
      PROVE  i \in 1..Len(log[q]) \/ (i = Len(log[q]) + 1 /\ log'[q][i] = rec)
  <2>1. CASE q = p
    BY <1>2, <1>3, <1>5, <1>6, <1>9, <2>1
  <2>2. CASE q # p
    BY <1>2, <1>9, <2>2
  <2> QED BY <2>1, <2>2
<1> QED BY <1>7, <1>8, <1>9

-----------------------------------------------------------------------------
(* Type correctness *)

LEMMA ConstantFacts ==
  /\ \A t \in Tracks : ServerOf(t) \in Server
  /\ \A t \in Tracks : Sent[t] \in Seq(Partitions)
  /\ \A t \in Plays : Answer[t] \in Partitions
  /\ \A t \in Traces : t \in Tracks /\ t \notin Plays
  /\ \A t \in Plays : t \in Tracks
  /\ NoOffsets \in Offsets
BY TrackingAssumption DEF Tracks, ServerOf, Server, NoOffsets, Offsets

LEMMA ReadingType ==
  ASSUME TypeOK, NEW ends \in Readings
  PROVE  /\ ends \in Offsets
         /\ \A p \in Partitions : ends[p] \in Int /\ ends[p] <= Len(log[p])
<1>1. LogType
  BY DEF TypeOK, LogType, Record
<1>2. \A p \in Partitions : Len(log[p]) \in Nat
  BY <1>1, LogLen
<1>3. PICK failed \in SUBSET Partitions :
        ends = [p \in Partitions |-> IF p \in failed THEN NoOffset ELSE Len(log[p])]
  BY DEF Readings
<1> QED BY <1>2, <1>3 DEF Offsets, NoOffset

LEMMA FaultType == ASSUME TypeOK, NEW kind, Fault(kind) PROVE faults' \in 0..MaxFaults
BY TrackingAssumption DEF TypeOK, Fault

\* Remembering a track ends others, and never one that is not remembered yet.
LEMMA RememberFacts ==
  ASSUME TypeOK, NEW t \in Tracks, Remember(t)
  PROVE  /\ kept' \in [Server -> Seq(Tracks)]
         /\ state' \in [Tracks -> States]
         /\ state'[t] \in {"kept", "gone"}
         /\ \A u \in Tracks : state'[u] \in {"kept", "gone"} \/ state'[u] = state[u]
<1> DEFINE s     == ServerOf(t)
           all   == Append(kept[s], t)
           extra == IF Len(all) > Keep[s] THEN Len(all) - Keep[s] ELSE 0
           old   == {all[i] : i \in 1..extra}
<1>1. s \in Server
  BY ConstantFacts
<1>2. all \in Seq(Tracks)
  BY <1>1 DEF TypeOK
<1>3. extra \in Nat /\ Len(all) \in Nat
  <2>1. Keep[s] \in Nat
    BY <1>1, TrackingAssumption
  <2> HIDE DEF all, s
  <2> QED BY <1>2, <2>1
<1>4. SubSeq(all, extra + 1, Len(all)) \in Seq(Tracks)
  <2> HIDE DEF all, extra
  <2>1. \A i \in extra + 1..Len(all) : i \in 1..Len(all)
    BY <1>3
  <2> QED BY <1>2, <1>3, <2>1, SubSeqProperties
<1>5. kept' = [kept EXCEPT ![s] = SubSeq(all, extra + 1, Len(all))]
  BY DEF Remember
<1>6. state' = [u \in Tracks |-> IF u \in old THEN "gone" ELSE IF u = t THEN "kept" ELSE state[u]]
  BY DEF Remember
<1> HIDE DEF s, all, extra, old
<1>7. kept' \in [Server -> Seq(Tracks)]
  BY <1>1, <1>4, <1>5 DEF TypeOK
<1> QED BY <1>6, <1>7 DEF TypeOK, States

LEMMA SetOffsetsType ==
  ASSUME TypeOK, NEW t \in Tracks, NEW ends \in Offsets, SetOffsets(t, ends)
  PROVE  offsets' \in [Tracks -> Offsets] /\ start' \in [Tracks -> Offsets]
BY DEF TypeOK, SetOffsets

\* A server has at most one scan, of a track that is or was remembered.
LEMMA ScanRecordType ==
  ASSUME TypeOK, NEW s \in Server, NEW p \in Partitions, ScanRecord(s, p)
  PROVE  /\ cursor[s][p] + 1 \in Nat \ {0}
         /\ holder[s] \in Tracks
         /\ cursor' \in [Server -> Offsets] /\ offsets' \in [Tracks -> Offsets]
         /\ found' \in [Tracks -> Seq(Partitions \X Nat)]
<1> DEFINE u == holder[s]
           at == cursor[s][p] + 1
<1>1. u \in Tracks
  BY DEF TypeOK, ScanRecord
<1>2. cursor[s] \in Offsets /\ offsets[u] \in Offsets
  BY <1>1 DEF TypeOK
<1>3. at \in Nat \ {0}
  BY <1>2 DEF Offsets, ScanRecord, NoOffset
<1>4. cursor' = [cursor EXCEPT ![s][p] = at] /\ offsets' = [offsets EXCEPT ![u][p] = at]
      /\ (found' = found \/ found' = [found EXCEPT ![u] = Sighted(u, <<p, at>>)])
  BY DEF ScanRecord, OffsetAfter
<1> HIDE DEF u, at
<1>5. [cursor[s] EXCEPT ![p] = at] \in Offsets /\ [offsets[u] EXCEPT ![p] = at] \in Offsets
  BY <1>2, <1>3 DEF Offsets
<1>6. cursor' \in [Server -> Offsets] /\ offsets' \in [Tracks -> Offsets]
  BY <1>1, <1>4, <1>5 DEF TypeOK
<1>7. Sighted(u, <<p, at>>) \in Seq(Partitions \X Nat)
  <2>1. found[u] \in Seq(Partitions \X Nat) /\ <<p, at>> \in Partitions \X Nat
    BY <1>1, <1>3 DEF TypeOK
  <2> QED BY <2>1 DEF Sighted
<1>8. found' \in [Tracks -> Seq(Partitions \X Nat)]
  BY <1>1, <1>4, <1>7 DEF TypeOK
<1> QED BY <1>1, <1>3, <1>6, <1>8 DEF u, at

LEMMA InitType == Init => TypeOK
<1> SUFFICES ASSUME Init PROVE TypeOK
  OBVIOUS
<1>1. state \in [Tracks -> States]
  BY DEF Init, States
<1>2. faults \in 0..MaxFaults
  BY TrackingAssumption DEF Init
<1>3. log \in [Partitions -> Seq((Tracks \X Nat) \cup {Nudge})] /\ found \in [Tracks -> Seq(Partitions \X Nat)]
      /\ kept \in [Server -> Seq(Tracks)]
  BY DEF Init
<1>4. offsets \in [Tracks -> Offsets] /\ start \in [Tracks -> Offsets] /\ snapshot \in Offsets
      /\ cursor \in [Server -> Offsets]
  BY ConstantFacts DEF Init
<1> QED BY <1>1, <1>2, <1>3, <1>4 DEF Init, TypeOK

\* A record somebody posts, or a nudge.
LEMMA PostedRecord ==
  ASSUME TypeOK, NEW t \in Tracks, Post(t)
  PROVE  /\ Sent[t][posted[t] + 1] \in Partitions
         /\ <<t, posted[t] + 1>> \in Record
         /\ log' = [log EXCEPT ![Sent[t][posted[t] + 1]] = Append(@, <<t, posted[t] + 1>>)]
<1>1. Sent[t] \in Seq(Partitions) /\ posted[t] \in Nat /\ posted[t] < Len(Sent[t])
  BY ConstantFacts DEF TypeOK, Post
<1>2. posted[t] + 1 \in 1..Len(Sent[t]) /\ posted[t] + 1 \in Nat
  BY ONLY <1>1
<1>3. Sent[t][posted[t] + 1] \in Partitions
  BY ONLY <1>1, <1>2
<1> QED BY <1>2, <1>3 DEF Post, Record

LEMMA NextType == TypeOK /\ [Next]_vars => TypeOK'
<1> SUFFICES ASSUME TypeOK, [Next]_vars PROVE TypeOK'
  OBVIOUS
<1> USE DEF vars, sendVars, trackVars, scanVars
<1>l. LogType /\ Record = (Tracks \X Nat) \cup {Nudge}
  BY DEF TypeOK, LogType, Record
<1>1. CASE Refresh
  <2>1. PICK ends \in Readings : ReadEnds(ends) /\ snapshot' = IF ends = NoOffsets THEN snapshot ELSE ends
    BY <1>1 DEF Refresh
  <2>2. faults' \in 0..MaxFaults
    BY <2>1, FaultType DEF ReadEnds, TypeOK
  <2>3. snapshot' \in Offsets
    BY <2>1, ReadingType DEF TypeOK
  <2> QED BY <1>1, <2>2, <2>3 DEF Refresh, TypeOK
<1>2. ASSUME NEW t \in Traces, AskTrace(t) PROVE TypeOK'
  <2>1. PICK ends \in Readings : ReadEnds(ends) /\ SetOffsets(t, ends)
    BY <1>2 DEF AskTrace
  <2>2. faults' \in 0..MaxFaults
    BY <2>1, FaultType DEF ReadEnds, TypeOK
  <2>3. offsets' \in [Tracks -> Offsets] /\ start' \in [Tracks -> Offsets]
    BY <2>1, ReadingType, SetOffsetsType, ConstantFacts
  <2>4. state' \in [Tracks -> States]
    BY <1>2 DEF AskTrace, TypeOK, States
  <2> QED BY <1>2, <2>2, <2>3, <2>4 DEF AskTrace, TypeOK
<1>3. ASSUME NEW t \in Traces, KeepTrace(t) PROVE TypeOK'
  BY <1>3, RememberFacts, ConstantFacts DEF KeepTrace, TypeOK
<1>4. ASSUME NEW t \in Plays, AskPlay(t) PROVE TypeOK'
  <2>1. state' \in [Tracks -> States]
    BY <1>4 DEF AskPlay, TypeOK, States
  <2> QED BY <1>4, <2>1 DEF AskPlay, TypeOK
<1>5. ASSUME NEW t \in Plays, KeepPlay(t) PROVE TypeOK'
  <2>1. offsets' \in [Tracks -> Offsets] /\ start' \in [Tracks -> Offsets]
    BY <1>5, SetOffsetsType, ConstantFacts DEF KeepPlay, TypeOK
  <2>2. kept' \in [Server -> Seq(Tracks)] /\ state' \in [Tracks -> States]
    BY <1>5, RememberFacts, ConstantFacts DEF KeepPlay
  <2> QED BY <1>5, <2>1, <2>2 DEF KeepPlay, TypeOK
<1>6. ASSUME NEW t \in Plays, FailPlay(t) PROVE TypeOK'
  <2>1. state' \in [Tracks -> States]
    BY <1>6 DEF FailPlay, TypeOK, States
  <2>2. faults' \in 0..MaxFaults
    BY <1>6, FaultType DEF FailPlay
  <2> QED BY <1>6, <2>1, <2>2 DEF FailPlay, TypeOK
<1>7. ASSUME NEW t \in Plays, PublishAnswer(t) PROVE TypeOK'
  <2>1. Answer[t] \in Partitions /\ <<t, Response>> \in Record
    BY ConstantFacts DEF Record, Response
  <2>2. LogType'
    BY <1>7, <1>l, <2>1, AppendFacts DEF PublishAnswer
  <2>3. log' \in [Partitions -> Seq((Tracks \X Nat) \cup {Nudge})]
    BY <1>l, <2>2 DEF LogType
  <2> QED BY <1>7, <2>3 DEF PublishAnswer, TypeOK
<1>8. ASSUME NEW t \in Tracks, Post(t) PROVE TypeOK'
  <2>1. LogType'
    BY <1>8, <1>l, PostedRecord, AppendFacts
  <2>2. log' \in [Partitions -> Seq((Tracks \X Nat) \cup {Nudge})]
    BY <1>l, <2>1 DEF LogType
  <2>3. posted' \in [Tracks -> Nat]
    <3>1. posted' = [posted EXCEPT ![t] = @ + 1] /\ posted \in [Tracks -> Nat]
      BY <1>8 DEF Post, TypeOK
    <3> QED BY ONLY <3>1
  <2> QED BY <1>8, <2>2, <2>3 DEF Post, TypeOK
<1>9. ASSUME NEW t \in Tracks, ScanStart(t) PROVE TypeOK'
  <2>1. holder' \in [Server -> Tracks \cup {Free}] /\ cursor' \in [Server -> Offsets]
    BY <1>9, ConstantFacts DEF ScanStart, TypeOK
  <2> QED BY <1>9, <2>1 DEF ScanStart, TypeOK
<1>10. ASSUME NEW t \in Traces, NEW p \in Partitions, NudgeWatermark(t, p) PROVE TypeOK'
  <2>1. LogType'
    BY <1>10, <1>l, AppendFacts DEF NudgeWatermark
  <2>2. log' \in [Partitions -> Seq((Tracks \X Nat) \cup {Nudge})]
    BY <1>l, <2>1 DEF LogType
  <2>3. nudged' \in [Traces -> Nat]
    BY <1>10 DEF NudgeWatermark, TypeOK
  <2> QED BY <1>10, <2>2, <2>3 DEF NudgeWatermark, TypeOK
<1>11. ASSUME NEW s \in Server, ScanEnd(s) PROVE TypeOK'
  <2>1. faults' \in 0..MaxFaults
    BY <1>11, FaultType DEF ScanEnd, TypeOK
  <2>2. holder' \in [Server -> Tracks \cup {Free}] /\ cursor' \in [Server -> Offsets]
    BY <1>11, ConstantFacts DEF ScanEnd, TypeOK
  <2> QED BY <1>11, <2>1, <2>2 DEF ScanEnd, TypeOK
<1>12. ASSUME NEW s \in Server, NEW p \in Partitions, ScanRecord(s, p) PROVE TypeOK'
  <2>1. UNCHANGED <<log, sendVars, nudged, state, start, kept, holder, snapshot, faults>>
    BY <1>12 DEF ScanRecord
  <2> QED BY <1>12, <2>1, ScanRecordType DEF TypeOK
<1>13. CASE UNCHANGED vars
  BY <1>13 DEF TypeOK
<1> QED BY <1>1, <1>2, <1>3, <1>4, <1>5, <1>6, <1>7, <1>8, <1>9, <1>10, <1>11, <1>12, <1>13 DEF Next

\* Every variable keeps its type.
THEOREM TypeCorrect == Spec => []TypeOK
BY InitType, NextType, PTL DEF Spec
-----------------------------------------------------------------------------
(* The inductive invariant *)

Unseen == {"unused", "new", "asked", "failed"}

\* Whether record i of partition p is one of track t.
IsOf(t, p, i) == log[p][i] # Nudge /\ log[p][i][1] = t

Early(p, i) == log[p][i][2] \in {Response, 1}

Bounds ==
  /\ \A p \in Partitions : snapshot[p] <= Len(log[p])
  /\ \A t \in Tracks, p \in Partitions :
       /\ start[t][p] <= offsets[t][p] /\ offsets[t][p] <= Len(log[p])
       /\ start[t][p] = NoOffset <=> offsets[t][p] = NoOffset

\* A scan goes on where its track stands, and its track has been remembered.
Scans ==
  \A s \in Server : holder[s] # Free =>
    /\ ServerOf(holder[s]) = s
    /\ state[holder[s]] \notin Unseen
    /\ cursor[s] = offsets[holder[s]]

Fresh == \A t \in Tracks : state[t] \in Unseen => found[t] = <<>>

\* A track has records only once it has begun; those of a play that waits for
\* its decision, and those in front of where a track started, are early ones.
EarlyRecords ==
  \A t \in Tracks, p \in Partitions : \A i \in 1..Len(log[p]) : IsOf(t, p, i) =>
    /\ Begun(t)
    /\ t \in Plays /\ state[t] \in {"asked", "failed"} => Early(p, i)
    /\ i <= start[t][p] => t \in Plays /\ Early(p, i)

\* The places a track should have shown, and those it has.
Due(t) ==
  UNION {Places(t, p, start[t][p], offsets[t][p]) : p \in {q \in Partitions : start[t][q] # NoOffset}}
Shown(t) == {found[t][i] : i \in 1..Len(found[t])}

SightedOnce ==
  \A t \in Tracks :
    /\ IsFiniteSet(Shown(t)) /\ Len(found[t]) = Cardinality(Shown(t))
    /\ Shown(t) = Due(t)

TrackInv == TypeOK /\ Bounds /\ Scans /\ Fresh /\ EarlyRecords /\ SightedOnce

LEMMA TypeFacts ==
  ASSUME TypeOK
  PROVE  /\ LogType
         /\ \A p \in Partitions : Len(log[p]) \in Nat /\ snapshot[p] \in Nat \cup {NoOffset}
         /\ \A t \in Tracks, p \in Partitions :
              start[t][p] \in Nat \cup {NoOffset} /\ offsets[t][p] \in Nat \cup {NoOffset}
         /\ \A t \in Tracks : posted[t] \in Nat /\ state[t] \in States
                              /\ found[t] \in Seq(Partitions \X Nat)
<1>1. LogType
  BY DEF TypeOK, LogType, Record
<1> QED BY <1>1, LogLen DEF TypeOK, Offsets

\* Which places are due.
LEMMA DueFacts ==
  ASSUME NEW t \in Tracks, NEW x
  PROVE  x \in Due(t) <=>
           \E p \in Partitions : start[t][p] # NoOffset /\
             \E i \in start[t][p] + 1..offsets[t][p] : IsOf(t, p, i) /\ x = <<p, i>>
BY DEF Due, Places, IsOf

\* Appending does not change what is due.
LEMMA DueExtends ==
  ASSUME TypeOK, Bounds, Extends, UNCHANGED <<start, offsets>>, NEW t \in Tracks
  PROVE  Due(t)' = Due(t)
<1>1. ASSUME NEW p \in Partitions, start[t][p] # NoOffset
      PROVE  Places(t, p, start[t][p], offsets[t][p])' = Places(t, p, start[t][p], offsets[t][p])
  <2>1. \A i \in start[t][p] + 1..offsets[t][p] : i \in 1..Len(log[p])
    BY <1>1, TypeFacts DEF Bounds, NoOffset
  <2>2. \A i \in start[t][p] + 1..offsets[t][p] : log'[p][i] = log[p][i]
    BY <2>1 DEF Extends
  <2> QED BY <2>2 DEF Places
<1> QED BY <1>1 DEF Due

\* The steps that append a record: rec is a nudge, or one of a track that has
\* begun, an early one if the track waits for its decision.
LEMMA AppendInd ==
  ASSUME TrackInv, UNCHANGED <<state, offsets, found, snapshot, holder, cursor, start>>,
         NEW p \in Partitions, NEW rec \in Record,
         log' = [log EXCEPT ![p] = Append(@, rec)],
         rec # Nudge =>
           /\ rec[1] \in Tracks => Begun(rec[1])
           /\ rec[1] \in Plays /\ state[rec[1]] \in {"asked", "failed"} => rec[2] \in {Response, 1}
  PROVE  Bounds' /\ Scans' /\ Fresh' /\ EarlyRecords' /\ SightedOnce'
<1>n. TypeOK /\ Bounds /\ LogType
  BY TypeFacts DEF TrackInv
<1>1. LogType' /\ Extends
  BY <1>n, AppendFacts
<1>2. \A q \in Partitions : Len(log'[q]) \in Nat
  BY <1>1 DEF LogType
<1>3. Bounds'
  BY <1>1, <1>2, <1>n, TypeFacts DEF Bounds, Extends, NoOffset
<1>4. Scans' /\ Fresh'
  BY DEF TrackInv, Scans, Fresh
<1>5. EarlyRecords'
  <2> SUFFICES ASSUME NEW t \in Tracks, NEW q \in Partitions, NEW i \in 1..Len(log'[q]), IsOf(t, q, i)'
               PROVE  /\ Begun(t)
                      /\ t \in Plays /\ state[t] \in {"asked", "failed"} => Early(q, i)'
                      /\ i <= start[t][q] => t \in Plays /\ Early(q, i)'
    BY DEF EarlyRecords, Begun
  <2>1. CASE i \in 1..Len(log[q])
    <3>1. log'[q][i] = log[q][i]
      BY <1>1, <2>1 DEF Extends
    <3>2. IsOf(t, q, i) /\ (Early(q, i)' <=> Early(q, i))
      BY <3>1 DEF IsOf, Early
    <3> QED BY <2>1, <3>2 DEF TrackInv, EarlyRecords
  <2>2. CASE i = Len(log[q]) + 1 /\ log'[q][i] = rec
    <3>1. rec # Nudge /\ rec[1] = t
      BY <2>2 DEF IsOf
    <3>2. ~(i <= start[t][q])
      BY <1>n, <2>2, TypeFacts DEF Bounds, NoOffset
    <3> QED BY <2>2, <3>1, <3>2 DEF Early
  <2> QED BY <1>n, <2>1, <2>2, AppendFacts
<1>6. SightedOnce'
  <2>1. \A t \in Tracks : Due(t)' = Due(t) /\ Shown(t)' = Shown(t)
    BY <1>1, <1>n, DueExtends DEF Shown
  <2> QED BY <2>1 DEF TrackInv, SightedOnce
<1> QED BY <1>3, <1>4, <1>5, <1>6

\* The steps that change neither the log nor an offset nor what was found.
LEMMA StateInd ==
  ASSUME TrackInv, UNCHANGED <<log, offsets, start, found>>,
         \A p \in Partitions : snapshot'[p] <= Len(log[p]),
         \A u \in Tracks : /\ state'[u] \in Unseen => state[u] \in Unseen
                           /\ Begun(u) => Begun(u)'
                           /\ u \in Plays /\ state'[u] \in {"asked", "failed"} =>
                                ~Begun(u) \/ state[u] \in {"asked", "failed"},
         Scans'
  PROVE  Bounds' /\ Fresh' /\ EarlyRecords' /\ SightedOnce'
<1>1. Bounds'
  BY DEF TrackInv, Bounds
<1>2. Fresh'
  BY DEF TrackInv, Fresh
<1>3. EarlyRecords'
  <2> SUFFICES ASSUME NEW t \in Tracks, NEW q \in Partitions, NEW i \in 1..Len(log[q]), IsOf(t, q, i)
               PROVE  /\ Begun(t)'
                      /\ t \in Plays /\ state'[t] \in {"asked", "failed"} => Early(q, i)
                      /\ i <= start[t][q] => t \in Plays /\ Early(q, i)
    BY DEF EarlyRecords, IsOf, Early
  <2> QED BY DEF TrackInv, EarlyRecords
<1>4. SightedOnce'
  <2>1. \A t \in Tracks : Due(t)' = Due(t) /\ Shown(t)' = Shown(t)
    BY DEF Due, Places, Shown
  <2> QED BY <2>1 DEF TrackInv, SightedOnce
<1> QED BY <1>1, <1>2, <1>3, <1>4

\* A track that is not remembered yet takes the offsets ends: nothing is due,
\* and what is in front of them is early, or nothing at all for a trace.
LEMMA SetInd ==
  ASSUME TrackInv, NEW t \in Tracks, state[t] \in Unseen, NEW ends \in Offsets,
         SetOffsets(t, ends), UNCHANGED <<log, found, holder, cursor, snapshot>>,
         \A p \in Partitions : ends[p] <= Len(log[p]),
         t \in Traces => ~Begun(t),
         t \in Plays => state[t] = "asked",
         \A u \in Tracks : u # t => state'[u] \in {"kept", "gone"} \/ state'[u] = state[u],
         state'[t] \in {"kept", "gone"} \/ (t \in Traces /\ state'[t] = "asked")
  PROVE  Bounds' /\ Scans' /\ Fresh' /\ EarlyRecords' /\ SightedOnce'
<1>n. TypeOK /\ Bounds
  BY DEF TrackInv
<1>1. /\ offsets'[t] = ends /\ start'[t] = ends
      /\ \A u \in Tracks : u # t => offsets'[u] = offsets[u] /\ start'[u] = start[u]
  BY <1>n DEF SetOffsets, TypeOK
<1>2. Bounds'
  BY <1>1, <1>n DEF Bounds, Offsets, NoOffset
<1>3. \A s \in Server : holder[s] # Free => holder[s] \in Tracks /\ holder[s] # t
  BY <1>n DEF TrackInv, Scans, TypeOK
<1>4. Scans'
  BY <1>1, <1>3 DEF TrackInv, Scans, Unseen
<1>5. Fresh'
  BY DEF TrackInv, Fresh, Unseen
<1>6. EarlyRecords'
  <2> SUFFICES ASSUME NEW u \in Tracks, NEW q \in Partitions, NEW i \in 1..Len(log[q]), IsOf(u, q, i)
               PROVE  /\ Begun(u)'
                      /\ u \in Plays /\ state'[u] \in {"asked", "failed"} => Early(q, i)
                      /\ i <= start'[u][q] => u \in Plays /\ Early(q, i)
    BY DEF EarlyRecords, IsOf, Early
  <2>1. /\ Begun(u)
        /\ u \in Plays /\ state[u] \in {"asked", "failed"} => Early(q, i)
        /\ i <= start[u][q] => u \in Plays /\ Early(q, i)
    BY DEF TrackInv, EarlyRecords
  <2>2. Begun(u)'
    BY <2>1 DEF Begun
  <2>3. CASE u = t
    BY <2>1, <2>2, <2>3, ConstantFacts DEF Tracks
  <2>4. CASE u # t
    BY <1>1, <2>1, <2>2, <2>4
  <2> QED BY <2>3, <2>4
<1>7. SightedOnce'
  <2>1. ASSUME NEW u \in Tracks, u # t PROVE Due(u)' = Due(u)
    BY <1>1, <2>1 DEF Due, Places
  <2>2. Due(t)' = {}
    <3>1. \A p \in Partitions : ends[p] # NoOffset => ends[p] + 1..ends[p] = {}
      BY DEF Offsets, NoOffset
    <3> QED BY <1>1, <3>1 DEF Due, Places
  <2>3. Due(t) = {}
    <3>1. found[t] = <<>>
      BY DEF TrackInv, Fresh
    <3>2. Shown(t) = {}
      BY <3>1 DEF Shown
    <3> QED BY <3>2 DEF TrackInv, SightedOnce
  <2>4. \A u \in Tracks : Due(u)' = Due(u) /\ Shown(u)' = Shown(u)
    BY <2>1, <2>2, <2>3 DEF Shown
  <2> QED BY <2>4 DEF TrackInv, SightedOnce
<1> QED BY <1>2, <1>4, <1>5, <1>6, <1>7

\* A record is read: the track goes past it, and shows it if it is its own.
LEMMA ScanRecordInd ==
  ASSUME TrackInv, NEW s \in Server, NEW p \in Partitions, ScanRecord(s, p)
  PROVE  Bounds' /\ Scans' /\ Fresh' /\ EarlyRecords' /\ SightedOnce'
<1>d. PICK t, at : t = holder[s] /\ at = cursor[s][p] + 1
  OBVIOUS
<1>n. TypeOK /\ Bounds /\ Scans
  BY DEF TrackInv
<1>0. t \in Tracks /\ at \in Nat \ {0} /\ ServerOf(t) = s /\ state[t] \notin Unseen
      /\ cursor[s] = offsets[t] /\ at <= Len(log[p]) /\ offsets[t][p] # NoOffset
  BY <1>d, <1>n, ScanRecordType DEF ScanRecord, Scans
<1>1. /\ UNCHANGED <<log, state, start, holder, snapshot>>
      /\ cursor' = [cursor EXCEPT ![s][p] = at] /\ offsets' = [offsets EXCEPT ![t][p] = at]
      /\ found' = IF IsOf(t, p, at) THEN [found EXCEPT ![t] = Sighted(t, <<p, at>>)] ELSE found
  BY <1>d DEF ScanRecord, OffsetAfter, IsOf
<1>a. at = offsets[t][p] + 1
  BY <1>0, <1>d
<1>2. /\ offsets'[t][p] = at
      /\ \A q \in Partitions : q # p => offsets'[t][q] = offsets[t][q]
      /\ \A u \in Tracks : u # t => offsets'[u] = offsets[u]
      /\ cursor'[s] = offsets'[t]
      /\ \A r \in Server : r # s => cursor'[r] = cursor[r]
  BY <1>0, <1>1, <1>n DEF TypeOK, Offsets
<1>3. Bounds'
  <2>1. ASSUME NEW u \in Tracks, NEW q \in Partitions
        PROVE  /\ start[u][q] <= offsets'[u][q] /\ offsets'[u][q] <= Len(log[q])
               /\ start[u][q] = NoOffset <=> offsets'[u][q] = NoOffset
    <3>1. CASE u = t /\ q = p
      BY <1>0, <1>2, <1>a, <1>n, <3>1, TypeFacts DEF Bounds, NoOffset
    <3>2. CASE ~(u = t /\ q = p)
      BY <1>2, <1>n, <3>2 DEF Bounds
    <3> QED BY <3>1, <3>2
  <2> QED BY <1>1, <1>n, <2>1 DEF Bounds
<1>4. Scans'
  <2> SUFFICES ASSUME NEW r \in Server, holder[r] # Free
               PROVE  /\ ServerOf(holder[r]) = r /\ state[holder[r]] \notin Unseen
                      /\ cursor'[r] = offsets'[holder[r]]
    BY <1>1 DEF Scans
  <2>1. ServerOf(holder[r]) = r /\ state[holder[r]] \notin Unseen /\ cursor[r] = offsets[holder[r]]
        /\ holder[r] \in Tracks
    BY <1>n DEF Scans, TypeOK
  <2>2. CASE r = s
    BY <1>2, <1>d, <2>1, <2>2
  <2>3. CASE r # s
    BY <1>0, <1>2, <1>d, <2>1, <2>3
  <2> QED BY <2>2, <2>3
<1>5. Fresh'
  BY <1>0, <1>1 DEF TrackInv, Fresh
<1>6. EarlyRecords'
  BY <1>1 DEF TrackInv, EarlyRecords, IsOf, Early, Begun
<1>7. SightedOnce'
  <2>1. ASSUME NEW u \in Tracks, u # t PROVE Due(u)' = Due(u) /\ found'[u] = found[u]
    BY <1>1, <1>2, <1>n, <2>1 DEF Due, Places, TypeOK
  <2>2. start[t][p] # NoOffset /\ start[t][p] \in Nat /\ start[t][p] < at
    BY <1>0, <1>a, <1>n, TypeFacts DEF Bounds, NoOffset
  <2>3. <<p, at>> \notin Due(t)
    <3> SUFFICES ASSUME <<p, at>> \in Due(t) PROVE FALSE
      OBVIOUS
    <3>1. PICK q \in Partitions : \E i \in start[t][q] + 1..offsets[t][q] : <<p, at>> = <<q, i>>
      BY <1>0, DueFacts
    <3>2. at \in start[t][p] + 1..offsets[t][p]
      BY <3>1
    <3> QED BY <1>0, <1>a, <1>n, <3>2, TypeFacts
  <2>4. Due(t)' = IF IsOf(t, p, at) THEN Due(t) \cup {<<p, at>>} ELSE Due(t)
    <3>1. \A x : x \in Due(t)' <=>
            \E q \in Partitions : start[t][q] # NoOffset /\
              \E i \in start[t][q] + 1..offsets'[t][q] : IsOf(t, q, i) /\ x = <<q, i>>
      BY <1>1 DEF Due, Places, IsOf
    <3>2. \A x : x \in Due(t) <=>
            \E q \in Partitions : start[t][q] # NoOffset /\
              \E i \in start[t][q] + 1..offsets[t][q] : IsOf(t, q, i) /\ x = <<q, i>>
      BY <1>0, DueFacts
    <3>3. \A i : i \in start[t][p] + 1..at <=> i \in start[t][p] + 1..offsets[t][p] \/ i = at
      BY <1>0, <1>a, <1>n, <2>2, TypeFacts
    <3>4. ASSUME NEW x, x \in Due(t)' PROVE x \in Due(t) \/ (IsOf(t, p, at) /\ x = <<p, at>>)
      <4>1. PICK q \in Partitions : start[t][q] # NoOffset /\
              \E i \in start[t][q] + 1..offsets'[t][q] : IsOf(t, q, i) /\ x = <<q, i>>
        BY <3>1, <3>4
      <4>2. CASE q = p
        BY <1>2, <3>2, <3>3, <4>1, <4>2
      <4>3. CASE q # p
        BY <1>2, <3>2, <4>1, <4>3
      <4> QED BY <4>2, <4>3
    <3>5. ASSUME NEW x, x \in Due(t) PROVE x \in Due(t)'
      <4>1. PICK q \in Partitions : start[t][q] # NoOffset /\
              \E i \in start[t][q] + 1..offsets[t][q] : IsOf(t, q, i) /\ x = <<q, i>>
        BY <3>2, <3>5
      <4>2. CASE q = p
        BY <1>2, <3>1, <3>3, <4>1, <4>2
      <4>3. CASE q # p
        BY <1>2, <3>1, <4>1, <4>3
      <4> QED BY <4>2, <4>3
    <3>6. IsOf(t, p, at) => <<p, at>> \in Due(t)'
      BY <1>2, <2>2, <3>1, <3>3
    <3> QED BY <3>4, <3>5, <3>6
  <2>5. CASE ~IsOf(t, p, at)
    <3>1. \A u \in Tracks : Due(u)' = Due(u) /\ Shown(u)' = Shown(u)
      BY <1>1, <2>1, <2>4, <2>5 DEF Shown
    <3> QED BY <1>1, <2>5, <3>1 DEF TrackInv, SightedOnce
  <2>6. CASE IsOf(t, p, at)
    <3>1. IsFiniteSet(Shown(t)) /\ Len(found[t]) = Cardinality(Shown(t)) /\ Shown(t) = Due(t)
      BY <1>0 DEF TrackInv, SightedOnce
    <3>2. Sighted(t, <<p, at>>) = Append(found[t], <<p, at>>)
      BY <2>3, <3>1 DEF Sighted, Shown
    <3>3. found'[t] = Append(found[t], <<p, at>>)
      BY <1>0, <1>1, <1>n, <2>6, <3>2 DEF TypeOK
    <3>4. /\ found[t] \in Seq(Partitions \X Nat) /\ Len(found'[t]) = Len(found[t]) + 1
          /\ \A i \in 1..Len(found[t]) : found'[t][i] = found[t][i]
          /\ found'[t][Len(found[t]) + 1] = <<p, at>>
      BY <1>0, <1>n, <3>3, TypeFacts
    <3>5. Shown(t)' = Shown(t) \cup {<<p, at>>}
      <4>1. 1..Len(found'[t]) = (1..Len(found[t])) \cup {Len(found[t]) + 1}
        BY <3>4
      <4>2. Shown(t)' = {found'[t][i] : i \in 1..Len(found'[t])}
        BY DEF Shown
      <4>3. Shown(t)' = {found'[t][i] : i \in 1..Len(found[t])} \cup {found'[t][Len(found[t]) + 1]}
        BY <4>1, <4>2
      <4>4. {found'[t][i] : i \in 1..Len(found[t])} = Shown(t)
        BY <3>4 DEF Shown
      <4> QED BY <3>4, <4>3, <4>4
    <3>6. IsFiniteSet(Shown(t) \cup {<<p, at>>})
          /\ Cardinality(Shown(t) \cup {<<p, at>>}) = Cardinality(Shown(t)) + 1
      BY <2>3, <3>1, FS_AddElement
    <3>7. IsFiniteSet(Shown(t)') /\ Len(found'[t]) = Cardinality(Shown(t)') /\ Shown(t)' = Due(t)'
      BY <2>4, <2>6, <3>1, <3>4, <3>5, <3>6
    <3>8. \A u \in Tracks : u # t => Shown(u)' = Shown(u)
      BY <2>1 DEF Shown
    <3> QED BY <2>1, <3>7, <3>8, <1>1 DEF TrackInv, SightedOnce
  <2> QED BY <2>5, <2>6
<1> QED BY <1>3, <1>4, <1>5, <1>6, <1>7

LEMMA InitTrack == Init => TrackInv
<1> SUFFICES ASSUME Init PROVE TrackInv
  OBVIOUS
<1>1. TypeOK
  BY InitType
<1>2. \A p \in Partitions : Len(log[p]) = 0
  BY DEF Init
<1>3. Bounds
  BY <1>2 DEF Init, Bounds, NoOffsets, NoOffset
<1>4. Scans
  BY DEF Init, Scans
<1>5. Fresh
  BY DEF Init, Fresh
<1>6. EarlyRecords
  BY <1>2 DEF EarlyRecords
<1>7. SightedOnce
  <2>1. ASSUME NEW t \in Tracks PROVE Due(t) = {} /\ Shown(t) = {} /\ Len(found[t]) = 0
    BY DEF Init, Due, Shown, NoOffsets
  <2> QED BY <2>1, FS_EmptySet DEF SightedOnce
<1> QED BY <1>1, <1>3, <1>4, <1>5, <1>6, <1>7 DEF TrackInv

LEMMA NextTrack == TrackInv /\ [Next]_vars => TrackInv'
<1> SUFFICES ASSUME TrackInv, [Next]_vars PROVE TrackInv'
  OBVIOUS
<1> DEFINE Rest == Bounds /\ Scans /\ Fresh /\ EarlyRecords /\ SightedOnce
<1>n. TypeOK /\ Bounds /\ Scans
  BY DEF TrackInv
<1>t. TypeOK'
  BY <1>n, NextType
<1>1. ASSUME Refresh PROVE Rest'
  <2>1. PICK ends \in Readings : snapshot' = IF ends = NoOffsets THEN snapshot ELSE ends
    BY <1>1 DEF Refresh
  <2>2. \A p \in Partitions : snapshot'[p] <= Len(log[p])
    BY <1>n, <2>1, ReadingType DEF Bounds
  <2>3. UNCHANGED <<log, state, offsets, start, found, holder, cursor>>
    BY <1>1 DEF Refresh, trackVars, scanVars
  <2>4. Scans'
    BY <1>n, <2>3 DEF Scans
  <2>5. \A u \in Tracks : Begun(u)' = Begun(u)
    BY <2>3 DEF Begun
  <2> QED BY <2>2, <2>3, <2>4, <2>5, StateInd
<1>2. ASSUME NEW t \in Traces, AskTrace(t) PROVE Rest'
  <2>1. PICK ends \in Readings : SetOffsets(t, ends)
    BY <1>2 DEF AskTrace
  <2>2. ends \in Offsets /\ \A p \in Partitions : ends[p] <= Len(log[p])
    BY <1>n, ReadingType
  <2>3. t \in Tracks /\ t \notin Plays /\ state[t] = "new" /\ state' = [state EXCEPT ![t] = "asked"]
        /\ UNCHANGED <<log, found, holder, cursor, snapshot>>
    BY <1>2, ConstantFacts DEF AskTrace, scanVars
  <2>4. state'[t] = "asked" /\ \A u \in Tracks : u # t => state'[u] = state[u]
    BY <1>n, <2>3 DEF TypeOK
  <2> QED BY <2>1, <2>2, <2>3, <2>4, SetInd DEF Unseen, Begun
<1>3. ASSUME NEW t \in Traces, KeepTrace(t) PROVE Rest'
  <2>1. t \in Tracks /\ UNCHANGED <<log, offsets, start, found, snapshot, holder, cursor>>
    BY <1>3, ConstantFacts DEF KeepTrace, scanVars
  <2>2. \A u \in Tracks : state'[u] \in {"kept", "gone"} \/ state'[u] = state[u]
    BY <1>3, <1>n, <2>1, RememberFacts DEF KeepTrace
  <2>3. Scans'
    BY <1>n, <2>1, <2>2 DEF Scans, Unseen, TypeOK
  <2>4. \A u \in Tracks : /\ state'[u] \in Unseen => state[u] \in Unseen
                          /\ Begun(u) => Begun(u)'
                          /\ u \in Plays /\ state'[u] \in {"asked", "failed"} => state[u] \in {"asked", "failed"}
    BY <2>2 DEF Unseen, Begun
  <2>5. \A p \in Partitions : snapshot'[p] <= Len(log[p])
    BY <1>n, <2>1 DEF Bounds
  <2> QED BY <2>1, <2>3, <2>4, <2>5, StateInd
<1>4. ASSUME NEW t \in Plays, AskPlay(t) \/ FailPlay(t) PROVE Rest'
  <2>1. PICK to \in {"asked", "failed"} : state' = [state EXCEPT ![t] = to]
    BY <1>4 DEF AskPlay, FailPlay
  <2>2. t \in Tracks /\ UNCHANGED <<log, offsets, start, found, snapshot, holder, cursor>>
        /\ state[t] \in {"new", "asked"}
    BY <1>4, ConstantFacts DEF AskPlay, FailPlay, scanVars
  <2>3. state'[t] = to /\ \A u \in Tracks : u # t => state'[u] = state[u]
    BY <1>n, <2>1, <2>2 DEF TypeOK
  <2>4. Scans'
    BY <1>n, <2>2, <2>3 DEF Scans, Unseen, TypeOK
  <2>5. \A u \in Tracks : /\ state'[u] \in Unseen => state[u] \in Unseen
                          /\ Begun(u) => Begun(u)'
                          /\ u \in Plays /\ state'[u] \in {"asked", "failed"} =>
                               ~Begun(u) \/ state[u] \in {"asked", "failed"}
    BY <2>2, <2>3 DEF Unseen, Begun
  <2>6. \A p \in Partitions : snapshot'[p] <= Len(log[p])
    BY <1>n, <2>2 DEF Bounds
  <2> QED BY <2>2, <2>4, <2>5, <2>6, StateInd
<1>5. ASSUME NEW t \in Plays, KeepPlay(t) PROVE Rest'
  <2>1. t \in Tracks /\ t \notin Traces /\ state[t] = "asked" /\ SetOffsets(t, snapshot)
        /\ UNCHANGED <<log, found, holder, cursor, snapshot>>
    BY <1>5, ConstantFacts DEF KeepPlay, scanVars
  <2>2. snapshot \in Offsets /\ \A p \in Partitions : snapshot[p] <= Len(log[p])
    BY <1>n DEF Bounds, TypeOK
  <2>3. /\ state'[t] \in {"kept", "gone"}
        /\ \A u \in Tracks : state'[u] \in {"kept", "gone"} \/ state'[u] = state[u]
    BY <1>5, <1>n, <2>1, RememberFacts DEF KeepPlay
  <2> QED BY <2>1, <2>2, <2>3, SetInd DEF Unseen
<1>6. ASSUME NEW t \in Plays, PublishAnswer(t) PROVE Rest'
  <2>1. /\ t \in Tracks /\ Begun(t) /\ Answer[t] \in Partitions
        /\ <<t, Response>> \in Record
        /\ log' = [log EXCEPT ![Answer[t]] = Append(@, <<t, Response>>)]
        /\ UNCHANGED <<state, offsets, found, snapshot, holder, cursor, start>>
    BY <1>6, ConstantFacts DEF PublishAnswer, trackVars, scanVars, Record, Response
  <2>2. <<t, Response>>[1] = t /\ <<t, Response>>[2] = Response
    OBVIOUS
  <2> QED BY <2>1, <2>2, AppendInd
<1>7. ASSUME NEW t \in Tracks, Post(t) PROVE Rest'
  <2> DEFINE rec == <<t, posted[t] + 1>>
  <2>1. Sent[t][posted[t] + 1] \in Partitions /\ rec \in Record
        /\ log' = [log EXCEPT ![Sent[t][posted[t] + 1]] = Append(@, rec)]
    BY <1>7, <1>n, PostedRecord
  <2>2. Begun(t) /\ UNCHANGED <<state, offsets, found, snapshot, holder, cursor, start>>
    BY <1>7 DEF Post, trackVars, scanVars
  <2>3. t \in Plays /\ state[t] \in {"asked", "failed"} => posted[t] + 1 = 1
    BY <1>7, <1>n DEF Post, Sendable, TypeOK
  <2>4. rec[1] = t /\ rec[2] = posted[t] + 1
    OBVIOUS
  <2> HIDE DEF rec
  <2> QED BY <2>1, <2>2, <2>3, <2>4, AppendInd
<1>8. ASSUME NEW t \in Tracks, ScanStart(t) PROVE Rest'
  <2>1. UNCHANGED <<log, state, offsets, start, found, snapshot>>
        /\ holder' = [holder EXCEPT ![ServerOf(t)] = t]
        /\ cursor' = [cursor EXCEPT ![ServerOf(t)] = offsets[t]]
        /\ state[t] = "kept" /\ ServerOf(t) \in Server
    BY <1>8, ConstantFacts DEF ScanStart, trackVars
  <2>2. Scans'
    BY <1>n, <2>1 DEF Scans, Unseen, TypeOK
  <2>3. \A p \in Partitions : snapshot'[p] <= Len(log[p])
    BY <1>n, <2>1 DEF Bounds
  <2>4. \A u \in Tracks : Begun(u)' = Begun(u)
    BY <2>1 DEF Begun
  <2> QED BY <2>1, <2>2, <2>3, <2>4, StateInd
<1>9. ASSUME NEW t \in Traces, NEW p \in Partitions, NudgeWatermark(t, p) PROVE Rest'
  <2>1. Nudge \in Record /\ log' = [log EXCEPT ![p] = Append(@, Nudge)]
        /\ UNCHANGED <<state, offsets, found, snapshot, holder, cursor, start>>
    BY <1>9 DEF NudgeWatermark, trackVars, scanVars, Record
  <2> QED BY <2>1, AppendInd
<1>10. ASSUME NEW s \in Server, ScanEnd(s) PROVE Rest'
  <2>1. UNCHANGED <<log, state, offsets, start, found, snapshot>>
        /\ holder' = [holder EXCEPT ![s] = Free]
        /\ cursor' = [cursor EXCEPT ![s] = NoOffsets]
    BY <1>10 DEF ScanEnd, trackVars
  <2>2. Scans'
    BY <1>n, <2>1 DEF Scans, TypeOK
  <2>3. \A p \in Partitions : snapshot'[p] <= Len(log[p])
    BY <1>n, <2>1 DEF Bounds
  <2>4. \A u \in Tracks : Begun(u)' = Begun(u)
    BY <2>1 DEF Begun
  <2> QED BY <2>1, <2>2, <2>3, <2>4, StateInd
<1>11. ASSUME NEW s \in Server, NEW p \in Partitions, ScanRecord(s, p) PROVE Rest'
  BY <1>11, ScanRecordInd
<1>12. ASSUME UNCHANGED vars PROVE Rest'
  <2>1. UNCHANGED <<log, state, offsets, start, found, snapshot, holder, cursor>>
    BY <1>12 DEF vars, trackVars, scanVars
  <2>2. Scans'
    BY <1>n, <2>1 DEF Scans
  <2>3. \A p \in Partitions : snapshot'[p] <= Len(log[p])
    BY <1>n, <2>1 DEF Bounds
  <2>4. \A u \in Tracks : Begun(u)' = Begun(u)
    BY <2>1 DEF Begun
  <2> QED BY <2>1, <2>2, <2>3, <2>4, StateInd
<1>13. Rest'
  BY <1>1, <1>2, <1>3, <1>4, <1>5, <1>6, <1>7, <1>8, <1>9, <1>10, <1>11, <1>12 DEF Next
<1> QED BY <1>t, <1>13 DEF TrackInv

LEMMA TrackInvariant == Spec => []TrackInv
BY InitTrack, NextTrack, PTL DEF Spec

-----------------------------------------------------------------------------
(* Theorems *)

\* app.py 312-363 and 381-433: a track shows exactly its records between where
\* it started and where its next scan starts, each once, for any number of
\* tracks, scans and deadlines.
THEOREM SightingsAreExact == Spec => []SightingsExact
<1>1. TrackInv => SightingsExact
  BY DEF TrackInv, SightedOnce, Shown, Due, SightingsExact
<1> QED BY <1>1, TrackInvariant, PTL

\* Nothing of a trace is in front of where it starts; of a play only the
\* ad_request and the ad_response can be.
THEOREM OnlyEarlyAreMissed == Spec => []OnlyEarlyMissed
<1>1. TrackInv => OnlyEarlyMissed
  <2> SUFFICES ASSUME TrackInv, NEW t \in Tracks, NEW p \in Partitions,
                      NEW place \in Places(t, p, 0, start[t][p])
               PROVE  t \in Plays /\ log[p][place[2]][2] \in {Response, 1}
    BY DEF OnlyEarlyMissed
  <2>1. PICK i \in 1..start[t][p] : IsOf(t, p, i) /\ place = <<p, i>>
    BY DEF Places, IsOf
  <2>2. i \in 1..Len(log[p]) /\ i <= start[t][p]
    <3>1. TypeOK /\ Bounds
      BY DEF TrackInv
    <3>2. i \in Nat \ {0} /\ i <= start[t][p] /\ start[t][p] <= offsets[t][p] /\ offsets[t][p] <= Len(log[p])
      BY <3>1, <2>1, TypeFacts DEF Bounds, NoOffset
    <3>3. start[t][p] \in Int /\ offsets[t][p] \in Int /\ Len(log[p]) \in Nat
      BY <3>1, TypeFacts DEF NoOffset
    <3> QED BY <3>2, <3>3
  <2>3. t \in Plays /\ Early(p, i)
    BY <2>1, <2>2 DEF TrackInv, EarlyRecords
  <2> QED BY <2>1, <2>3 DEF Early
<1> QED BY <1>1, TrackInvariant, PTL
=============================================================================
