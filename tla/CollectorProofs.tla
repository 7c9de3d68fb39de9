--------------------------- MODULE CollectorProofs ---------------------------
(***************************************************************************)
(* Theorems about Collector for every set of events and replayers, every   *)
(* number of hours and every combination of faults.                        *)
(***************************************************************************)
EXTENDS Collector, TLAPS, FiniteSetTheorems

LEMMA HoursFacts == 0 \in Hours /\ Hours \subseteq Nat
BY CollectorAssumption DEF Hours

\* Adding a natural number at an index keeps a function into the naturals.
LEMMA AddType ==
  ASSUME NEW S, NEW f \in [S -> Nat], NEW x \in S, NEW k \in Nat
  PROVE  [f EXCEPT ![x] = @ + k] \in [S -> Nat]
OBVIOUS

LEMMA DecrementType ==
  ASSUME NEW S, NEW f \in [S -> Nat], NEW x \in S, f[x] > 0
  PROVE  [f EXCEPT ![x] = @ - 1] \in [S -> Nat]
OBVIOUS

\* What completing a publish does to the variables it may change.
LEMMA CompleteType ==
  ASSUME TypeOK, NEW o \in Op, NEW what \in {"ACCEPTED", "FALLBACK"},
         Complete(o, what)
  PROVE  /\ outcome' \in [Events -> {"none", "ACCEPTED", "FALLBACK", "INVALID"}]
         /\ ok' \in [Replayers -> Nat] /\ failed' \in [Replayers -> Nat]
<1>1. CASE o.by = Ingest
  BY <1>1 DEF Complete, TypeOK, Op
<1>2. CASE o.by # Ingest
  <2>1. o.by \in Replayers
    BY <1>2 DEF Op
  <2>2. CASE what = "ACCEPTED"
    <3>1. ok' = [ok EXCEPT ![o.by] = @ + 1] /\ failed' = failed /\ outcome' = outcome
      BY <1>2, <2>2 DEF Complete
    <3>2. ok' \in [Replayers -> Nat]
      BY <2>1, <3>1, AddType DEF TypeOK
    <3>3. QED
      BY <3>1, <3>2 DEF TypeOK
  <2>3. CASE what # "ACCEPTED"
    <3>1. failed' = [failed EXCEPT ![o.by] = @ + 1] /\ ok' = ok /\ outcome' = outcome
      BY <1>2, <2>3 DEF Complete
    <3>2. failed' \in [Replayers -> Nat]
      BY <2>1, <3>1, AddType DEF TypeOK
    <3>3. QED
      BY <3>1, <3>2 DEF TypeOK
  <2>4. QED
    BY <2>2, <2>3
<1>3. QED
  BY <1>1, <1>2

\* Only finitely many publishes are under way.
LEMMA NextFinite == FiniteOps /\ [Next]_vars => FiniteOps'
<1> SUFFICES ASSUME FiniteOps, [Next]_vars PROVE FiniteOps'
  OBVIOUS
<1> USE DEF FiniteOps
<1>1. ASSUME NEW x, sending' = sending \cup {x} PROVE FiniteOps'
  BY <1>1, FS_AddElement
<1>2. ASSUME sending' \subseteq sending PROVE FiniteOps'
  BY <1>2, FS_Subset
<1>3. ASSUME NEW o, BrokerAppend(o) \/ PublishStep(o) PROVE FiniteOps'
  BY <1>2, <1>3 DEF BrokerAppend, PublishStep, Ack, PublishFails, SpillWrite, SpillLost
<1>4. ASSUME NEW p \in Replayers, ReplayStart(p) \/ ReplayStep(p) PROVE FiniteOps'
  <2>1. ASSUME NEW l, ReplaySend(p, l) PROVE FiniteOps'
    BY <1>1, <2>1 DEF ReplaySend
  <2>2. QED
    BY <1>2, <1>4, <2>1
    DEF ReplayStart, ReplayStep, ReplayRead, ReplayCheck, ReplayRename, ReplayKeep, ReplayError,
        ReplayEnd, NextFile, opVars
<1>5. ASSUME NEW e \in Events, Receive(e) PROVE FiniteOps'
  BY <1>1, <1>5 DEF Receive
<1>6. QED
  BY <1>2, <1>3, <1>4, <1>5 DEF Next, LateAppend, LateExpire, Tick, Crash, vars, opVars

LEMMA OpsTyped ==
  ASSUME TypeOK
  PROVE  /\ sending \subseteq Op /\ appended \subseteq Op /\ Ops \subseteq Op
         /\ \A o \in Op : o.e \in Events /\ (o.by # Ingest => o.by \in Replayers)
BY DEF TypeOK, Op, Ops

LEMMA NextType == TypeOK /\ FiniteOps /\ [Next]_vars => TypeOK'
<1> SUFFICES ASSUME TypeOK, FiniteOps, [Next]_vars PROVE TypeOK'
  OBVIOUS
<1> USE HoursFacts
    DEF TypeOK, ingestVars, opVars, kafkaVars, diskVars, replayVars, histVars, renameVars
<1>1. ASSUME NEW e \in Events, Receive(e) PROVE TypeOK'
  BY <1>1 DEF Receive, Op
<1>2. ASSUME NEW o \in Ops, BrokerAppend(o) PROVE TypeOK'
  <2>1. copies' \in [Events -> Nat]
    <3>1. PICK n \in {1, 2} : copies' = [copies EXCEPT ![o.e] = @ + n]
      BY <1>2 DEF BrokerAppend
    <3>2. o.e \in Events
      BY OpsTyped
    <3>3. QED
      BY <3>1, <3>2, AddType
  <2>2. QED
    BY <1>2, <2>1 DEF BrokerAppend
<1>3. ASSUME NEW o \in Ops, Ack(o) PROVE TypeOK'
  BY <1>3, OpsTyped, CompleteType DEF Ack
<1>4. ASSUME NEW o \in Ops, PublishFails(o) PROVE TypeOK'
  <2>1. late' \in [Events -> Nat]
    BY <1>4, OpsTyped, AddType DEF PublishFails
  <2>2. spilling' \in SUBSET (Op \X Hours)
    BY <1>4, OpsTyped DEF PublishFails
  <2>3. QED
    BY <1>4, <2>1, <2>2 DEF PublishFails
<1>5. ASSUME NEW o \in Ops, NEW h \in Hours, SpillWrite(o, h) PROVE TypeOK'
  <2>1. o \in Op /\ o.e \in Events /\ FallbackOutcome(o) = "FALLBACK"
    BY OpsTyped DEF FallbackOutcome
  <2>2. /\ outcome' \in [Events -> {"none", "ACCEPTED", "FALLBACK", "INVALID"}]
        /\ ok' \in [Replayers -> Nat] /\ failed' \in [Replayers -> Nat]
    BY <1>5, <2>1, CompleteType DEF SpillWrite
  <2>3. spills' \in [Events -> Nat]
    BY <1>5, <2>1, AddType DEF SpillWrite
  <2>4. [e |-> o.e, n |-> spills[o.e] + 1] \in Line
    BY <2>1 DEF Line
  <2>5. file' \in [Hours -> SUBSET Line]
    BY <1>5, <2>4 DEF SpillWrite
  <2>6. QED
    BY <1>5, <2>2, <2>3, <2>5 DEF SpillWrite
<1>6. ASSUME NEW o \in Ops, NEW h \in Hours, SpillLost(o, h) PROVE TypeOK'
  <2>1. o \in Op /\ o.e \in Events /\ FallbackOutcome(o) = "FALLBACK"
    BY OpsTyped DEF FallbackOutcome
  <2>2. /\ outcome' \in [Events -> {"none", "ACCEPTED", "FALLBACK", "INVALID"}]
        /\ ok' \in [Replayers -> Nat] /\ failed' \in [Replayers -> Nat]
    BY <1>6, <2>1, CompleteType DEF SpillLost
  <2>3. QED
    BY <1>6, <2>1, <2>2 DEF SpillLost
<1>7. ASSUME NEW e \in Events, LateAppend(e) PROVE TypeOK'
  BY <1>7, AddType, DecrementType DEF LateAppend
<1>8. ASSUME NEW e \in Events, LateExpire(e) PROVE TypeOK'
  BY <1>8, DecrementType DEF LateExpire
<1>9. CASE Tick
  BY <1>9, CollectorAssumption DEF Tick, Hours
<1>10. ASSUME NEW p \in Replayers, ReplayStart(p) PROVE TypeOK'
  BY <1>10 DEF ReplayStart, PendingHours
<1>11. ASSUME NEW p \in Replayers, ReplayRead(p) PROVE TypeOK'
  BY <1>11 DEF ReplayRead
<1>12. ASSUME NEW p \in Replayers, NEW l \in rest[p], ReplaySend(p, l) PROVE TypeOK'
  <2>1. [by |-> p, e |-> l.e, n |-> l.n] \in Op
    BY DEF Op, Line
  <2>2. QED
    BY <1>12, <2>1 DEF ReplaySend
<1>13. ASSUME NEW p \in Replayers, NextFile(p)
       PROVE  /\ rpc' \in [Replayers -> {"idle", "next", "publish", "rename"}]
              /\ total' \in [Replayers -> Nat] /\ snap' \in [Replayers -> SUBSET Line]
  BY <1>13, AddType DEF NextFile
<1>14. ASSUME NEW p \in Replayers, ReplayRename(p) PROVE TypeOK'
  <2>1. NextFile(p)
    BY <1>14 DEF ReplayRename
  <2>2. file' \in [Hours -> SUBSET Line] /\ done' \in [Hours -> SUBSET Line]
        /\ missed' \in SUBSET Line /\ overwritten' \in SUBSET Line
        /\ overtaken' \in SUBSET Replayers
    BY <1>14 DEF ReplayRename
  <2>3. QED
    BY <1>13, <2>1, <2>2 DEF NextFile
<1>15. ASSUME NEW p \in Replayers, ReplayKeep(p) PROVE TypeOK'
  <2>1. NextFile(p) /\ UNCHANGED <<diskVars, renameVars>>
    BY <1>15 DEF ReplayKeep
  <2>2. QED
    BY <1>13, <2>1 DEF NextFile
<1>16. ASSUME NEW p \in Replayers, ReplayError(p) PROVE TypeOK'
  BY <1>16 DEF ReplayError
<1>17. ASSUME NEW p \in Replayers, ReplayEnd(p) PROVE TypeOK'
  BY <1>17 DEF ReplayEnd
<1>21. ASSUME NEW p \in Replayers, ReplayCheck(p) PROVE TypeOK'
  BY <1>21 DEF ReplayCheck
<1>18. CASE Crash
  <2>1. \A e \in Events : Cardinality({o \in sending : o.e = e}) \in Nat
    BY FS_Subset, FS_CardinalityType DEF FiniteOps
  <2>2. QED
    BY <1>18, <2>1 DEF Crash
<1>19. CASE UNCHANGED vars
  BY <1>19 DEF vars
<1>20. QED
  BY <1>1, <1>2, <1>3, <1>4, <1>5, <1>6, <1>7, <1>8, <1>9, <1>10, <1>11, <1>12,
     <1>14, <1>15, <1>16, <1>17, <1>18, <1>19, <1>21
  DEF Next, PublishStep, ReplayStep

\* Every variable keeps its type through every step of the request threads,
\* the replays and the broker (EventPublisher.kt:35-61, AdminController.kt:56-100).
THEOREM TypeCorrect == Spec => [](TypeOK /\ FiniteOps)
<1>1. Init => TypeOK /\ FiniteOps
  BY HoursFacts, FS_EmptySet DEF Init, TypeOK, FiniteOps
<1>2. QED
  BY <1>1, NextType, NextFinite, PTL DEF Spec

-----------------------------------------------------------------------------
(* What is in Kafka stays there, and an acknowledged publish is there. *)

LEMMA CopiesGrow ==
  ASSUME TypeOK, [Next]_vars, NEW e \in Events
  PROVE  copies'[e] \in Nat /\ copies'[e] >= copies[e]
<1> USE DEF TypeOK
<1>1. CASE UNCHANGED copies
  BY <1>1
<1>2. ASSUME NEW x \in Events, NEW n \in {1, 2}, copies' = [copies EXCEPT ![x] = @ + n]
      PROVE  copies'[e] \in Nat /\ copies'[e] >= copies[e]
  BY <1>2
<1>3. ASSUME NEW o \in Ops, BrokerAppend(o)
      PROVE  copies'[e] \in Nat /\ copies'[e] >= copies[e]
  BY <1>2, <1>3, OpsTyped DEF BrokerAppend
<1>4. ASSUME NEW x \in Events, LateAppend(x)
      PROVE  copies'[e] \in Nat /\ copies'[e] >= copies[e]
  BY <1>2, <1>4 DEF LateAppend
<1>5. ASSUME NEW o, PublishStep(o) PROVE UNCHANGED copies
  BY <1>5 DEF PublishStep, Ack, PublishFails, SpillWrite, SpillLost, kafkaVars
<1>6. ASSUME NEW p, ReplayStart(p) \/ ReplayStep(p) PROVE UNCHANGED copies
  BY <1>6 DEF ReplayStart, ReplayStep, ReplayRead, ReplaySend, ReplayCheck, ReplayRename, ReplayKeep,
     ReplayError, ReplayEnd, NextFile, kafkaVars
<1>7. QED
  BY <1>1, <1>3, <1>4, <1>5, <1>6
  DEF Next, Receive, LateExpire, Tick, Crash, vars, kafkaVars

\* A publish joins appended only with its record in the topic.
LEMMA NextAppended ==
  ASSUME TypeOK, AppendedIsDelivered, [Next]_vars
  PROVE  AppendedIsDelivered'
<1>1. ASSUME NEW o \in appended', o \in appended PROVE copies'[o.e] >= 1
  <2>1. o.e \in Events /\ copies[o.e] \in Nat /\ copies[o.e] >= 1
    BY <1>1, OpsTyped DEF TypeOK, AppendedIsDelivered
  <2>2. QED
    BY <2>1, CopiesGrow
<1>2. ASSUME appended' \subseteq appended PROVE AppendedIsDelivered'
  BY <1>1, <1>2 DEF AppendedIsDelivered
<1>3. ASSUME NEW o \in Ops, BrokerAppend(o) PROVE AppendedIsDelivered'
  <2>1. o.e \in Events /\ copies[o.e] \in Nat
    BY OpsTyped DEF TypeOK
  <2>2. copies'[o.e] >= 1
    BY <1>3, <2>1 DEF BrokerAppend, TypeOK
  <2>3. appended' = appended \cup {o}
    BY <1>3 DEF BrokerAppend
  <2>4. QED
    BY <1>1, <2>2, <2>3 DEF AppendedIsDelivered
<1>4. ASSUME NEW o, PublishStep(o) PROVE appended' \subseteq appended
  BY <1>4 DEF PublishStep, Ack, PublishFails, SpillWrite, SpillLost
<1>5. ASSUME NEW p, ReplayStart(p) \/ ReplayStep(p) PROVE appended' \subseteq appended
  BY <1>5 DEF ReplayStart, ReplayStep, ReplayRead, ReplaySend, ReplayCheck, ReplayRename, ReplayKeep,
     ReplayError, ReplayEnd, NextFile, opVars
<1>6. QED
  BY <1>2, <1>3, <1>4, <1>5
  DEF Next, Receive, LateAppend, LateExpire, Tick, Crash, vars, opVars

-----------------------------------------------------------------------------
(* How an event comes by its answer. *)

\* What a step does to the answers: none, or one event gets one, either
\* ACCEPTED after its append, or another one after the fallback writer ran.
AnswerStep ==
  \/ UNCHANGED outcome
  \/ \E o \in appended :
        /\ copies' = copies
        /\ \E r \in {"ACCEPTED", "INVALID"} : outcome' = [outcome EXCEPT ![o.e] = r]
  \/ \E o \in Op, h \in Hours :
        /\ \/ \E n \in Nat : file' = [file EXCEPT ![h] = @ \cup {[e |-> o.e, n |-> n]}]
           \/ lost' = lost \cup {o.e}
        /\ \E r \in {"FALLBACK", "INVALID"} : outcome' = [outcome EXCEPT ![o.e] = r]

LEMMA NextAnswer == TypeOK /\ [Next]_vars => AnswerStep
<1> SUFFICES ASSUME TypeOK, [Next]_vars PROVE AnswerStep
  OBVIOUS
<1>1. ASSUME NEW o \in Ops, Ack(o) PROVE AnswerStep
  <2>1. o \in appended /\ copies' = copies
    BY <1>1 DEF Ack, kafkaVars
  <2>2. \/ UNCHANGED outcome
        \/ \E r \in {"ACCEPTED", "INVALID"} : outcome' = [outcome EXCEPT ![o.e] = r]
    BY <1>1 DEF Ack, Complete
  <2>3. QED
    BY <2>1, <2>2 DEF AnswerStep
<1>2. ASSUME NEW o \in Op, Complete(o, FallbackOutcome(o))
      PROVE  \/ UNCHANGED outcome
             \/ \E r \in {"FALLBACK", "INVALID"} : outcome' = [outcome EXCEPT ![o.e] = r]
  BY <1>2 DEF Complete, FallbackOutcome
<1>3. ASSUME NEW o \in Ops, NEW h \in Hours, SpillWrite(o, h) PROVE AnswerStep
  <2>1. o \in Op /\ o.e \in Events /\ spills[o.e] + 1 \in Nat
    BY OpsTyped DEF TypeOK
  <2>2. file' = [file EXCEPT ![h] = @ \cup {[e |-> o.e, n |-> spills[o.e] + 1]}]
        /\ Complete(o, FallbackOutcome(o))
    BY <1>3 DEF SpillWrite
  <2>3. \E n \in Nat : file' = [file EXCEPT ![h] = @ \cup {[e |-> o.e, n |-> n]}]
    BY <2>1, <2>2
  <2>4. QED
    BY <1>2, <2>1, <2>2, <2>3 DEF AnswerStep
<1>4. ASSUME NEW o \in Ops, NEW h \in Hours, SpillLost(o, h) PROVE AnswerStep
  <2>1. o \in Op
    BY OpsTyped
  <2>2. lost' = lost \cup {o.e} /\ Complete(o, FallbackOutcome(o))
    BY <1>4 DEF SpillLost
  <2>3. QED
    BY <1>2, <2>1, <2>2 DEF AnswerStep
<1>5. ASSUME NEW o, BrokerAppend(o) \/ PublishFails(o) PROVE UNCHANGED outcome
  BY <1>5 DEF BrokerAppend, PublishFails, ingestVars
<1>6. ASSUME NEW p, ReplayStart(p) \/ ReplayStep(p) PROVE UNCHANGED outcome
  BY <1>6 DEF ReplayStart, ReplayStep, ReplayRead, ReplaySend, ReplayCheck, ReplayRename, ReplayKeep,
     ReplayError, ReplayEnd, NextFile, ingestVars
<1>7. QED
  BY <1>1, <1>3, <1>4, <1>5, <1>6
  DEF Next, PublishStep, Receive, LateAppend, LateExpire, Tick, Crash, vars, ingestVars,
      AnswerStep

LEMMA NextAccepted ==
  ASSUME TypeOK, AppendedIsDelivered, AcceptedIsDelivered, [Next]_vars
  PROVE  AcceptedIsDelivered'
<1> SUFFICES ASSUME NEW e \in Events, outcome'[e] = "ACCEPTED" PROVE copies'[e] >= 1
  BY DEF AcceptedIsDelivered
<1>1. copies[e] \in Nat /\ copies'[e] \in Nat /\ copies'[e] >= copies[e]
  BY CopiesGrow DEF TypeOK
<1>2. CASE outcome[e] = "ACCEPTED"
  BY <1>1, <1>2 DEF AcceptedIsDelivered
<1>3. CASE outcome[e] # "ACCEPTED"
  <2>1. AnswerStep
    BY NextAnswer
  <2>2. \E o \in appended : o.e = e
    BY <1>3, <2>1 DEF AnswerStep, TypeOK
  <2>3. QED
    BY <1>1, <2>2 DEF AppendedIsDelivered
<1>4. QED
  BY <1>2, <1>3

-----------------------------------------------------------------------------
(* A replay that comes to its rename has published what it read. *)

\* The claim of ReplayCovers survives a step that leaves the replay where it
\* is, if every publish of it that ends does so acknowledged.
LEMMA CoversFrame ==
  ASSUME TypeOK, [Next]_vars, NEW p \in Replayers, ReplayCovers(p),
         rpc'[p] = rpc[p], snap'[p] = snap[p], rest'[p] = rest[p],
         failed'[p] = 0 => failed[p] = 0,
         \A o \in Ops : o.by = p =>
            o \in Ops' \/ copies[o.e] >= 1 \/ failed'[p] # 0
  PROVE  ReplayCovers(p)'
<1>1. ASSUME NEW l \in snap[p]
      PROVE  copies[l.e] \in Nat /\ copies'[l.e] \in Nat /\ copies'[l.e] >= copies[l.e]
  <2>1. l.e \in Events
    BY DEF TypeOK, Line
  <2>2. QED
    BY <2>1, CopiesGrow DEF TypeOK
<1>2. ASSUME rpc[p] = "publish", failed'[p] = 0, NEW l \in snap[p] \ rest[p]
      PROVE  copies'[l.e] >= 1 \/ \E o \in Ops' : o.by = p /\ o.e = l.e
  <2>1. copies[l.e] >= 1 \/ \E o \in Ops : o.by = p /\ o.e = l.e
    BY <1>2 DEF ReplayCovers
  <2>2. QED
    BY <1>1, <1>2, <2>1
<1>3. ASSUME rpc[p] = "rename", NEW l \in snap[p] PROVE copies'[l.e] >= 1
  BY <1>1, <1>3 DEF ReplayCovers
<1>4. QED
  BY <1>2, <1>3 DEF ReplayCovers

\* When every line of a file has completed and none failed, all are in Kafka.
LEMMA CheckPublished ==
  ASSUME TypeOK, NEW p \in Replayers, ReplayCovers(p), ReplayCheck(p)
  PROVE  \A l \in snap[p] : copies[l.e] >= 1
<1>1. rpc[p] = "publish" /\ rest[p] = {} /\ OpsOf(p) = {} /\ failed[p] = 0
  BY DEF ReplayCheck, FileDone, AllAccepted
<1>2. ~ \E o \in Ops : o.by = p
  BY <1>1 DEF OpsOf, Ops
<1>3. QED
  BY <1>1, <1>2 DEF ReplayCovers

LEMMA NextCovers ==
  ASSUME TypeOK, AppendedIsDelivered, [Next]_vars, NEW p \in Replayers,
         ReplayCovers(p)
  PROVE  ReplayCovers(p)'
<1> USE DEF TypeOK
<1>1. ASSUME Ops \subseteq Ops', UNCHANGED <<rpc, snap, rest, failed>>
      PROVE  ReplayCovers(p)'
  BY <1>1, CoversFrame
<1>2. ASSUME NEW e \in Events, Receive(e) \/ LateAppend(e) \/ LateExpire(e)
      PROVE  ReplayCovers(p)'
  BY <1>1, <1>2 DEF Receive, LateAppend, LateExpire, Ops, opVars, replayVars
<1>3. CASE Tick
  BY <1>1, <1>3 DEF Tick, Ops, opVars, replayVars
<1>4. CASE Crash
  <2>1. rpc'[p] = "idle"
    BY <1>4 DEF Crash
  <2>2. QED
    BY <2>1 DEF ReplayCovers
<1>5. CASE UNCHANGED vars
  BY <1>1, <1>5 DEF vars, Ops, opVars, replayVars
<1>6. ASSUME NEW o \in Ops, BrokerAppend(o) PROVE ReplayCovers(p)'
  BY <1>1, <1>6 DEF BrokerAppend, Ops, replayVars
<1>7. ASSUME NEW o \in Ops, PublishFails(o) PROVE ReplayCovers(p)'
  <2>1. sending' = sending \ {o} /\ appended' = appended \ {o}
        /\ spilling' = spilling \cup {<<o, hour>>}
        /\ UNCHANGED <<rpc, snap, rest, failed>>
    BY <1>7 DEF PublishFails, replayVars
  <2>2. <<o, hour>>[1] = o
    OBVIOUS
  <2>3. \A x \in spilling : x \in spilling'
    BY <2>1
  <2>4. ASSUME NEW x \in Ops PROVE x \in Ops'
    <3>1. CASE x = o
      <4>1. <<o, hour>> \in spilling'
        BY <2>1
      <4>2. \E s \in spilling' : s[1] = o
        BY <2>2, <4>1
      <4>3. QED
        BY <3>1, <4>2 DEF Ops
    <3>2. CASE x # o
      BY <2>1, <2>3, <3>2 DEF Ops
    <3>3. QED
      BY <3>1, <3>2
  <2>5. QED
    BY <1>1, <2>1, <2>4
<1>8. ASSUME NEW o \in Ops, Ack(o) PROVE ReplayCovers(p)'
  <2>1. failed' = failed
    BY <1>8 DEF Ack, Complete
  <2>2. copies[o.e] >= 1
    BY <1>8 DEF Ack, AppendedIsDelivered
  <2>3. \A x \in Ops : x \in Ops' \/ x = o
    BY <1>8 DEF Ack, Ops
  <2>4. rpc' = rpc /\ snap' = snap /\ rest' = rest
    BY <1>8 DEF Ack
  <2>5. QED
    BY <2>1, <2>2, <2>3, <2>4, CoversFrame
<1>9. ASSUME NEW o \in Ops, NEW h \in Hours,
             Complete(o, FallbackOutcome(o)), spilling' = spilling \ {<<o, h>>},
             UNCHANGED <<sending, appended, rpc, snap, rest>>
      PROVE  ReplayCovers(p)'
  <2>1. \A x \in Ops : x \in Ops' \/ x = o
    <3>1. \A s \in spilling : s[1] = o \/ s \in spilling'
      BY <1>9
    <3>2. QED
      BY <1>9, <3>1 DEF Ops
  <2>2. o \in Op /\ p # Ingest
    BY OpsTyped, CollectorAssumption
  <2>3. CASE o.by = p
    <3>1. failed' = [failed EXCEPT ![p] = @ + 1]
      BY <1>9, <2>2, <2>3 DEF Complete, FallbackOutcome
    <3>2. failed'[p] = failed[p] + 1 /\ failed[p] \in Nat
      BY <3>1
    <3>3. failed'[p] # 0
      BY <3>2
    <3>4. QED
      BY <1>9, <3>3, CoversFrame
  <2>4. CASE o.by # p
    <3>1. failed'[p] = failed[p]
      BY <1>9, <2>4 DEF Complete
    <3>2. \A x \in Ops : x.by = p => x \in Ops'
      BY <2>1, <2>4
    <3>3. QED
      BY <1>9, <3>1, <3>2, CoversFrame
  <2>5. QED
    BY <2>3, <2>4
<1>10. ASSUME NEW o \in Ops, NEW h \in Hours, SpillWrite(o, h) \/ SpillLost(o, h)
       PROVE  ReplayCovers(p)'
  BY <1>9, <1>10 DEF SpillWrite, SpillLost
<1>11. ASSUME NEW q \in Replayers, q # p, ReplayStart(q) \/ ReplayStep(q)
       PROVE  ReplayCovers(p)'
  <2>1. rpc'[p] = rpc[p] /\ snap'[p] = snap[p] /\ rest'[p] = rest[p]
        /\ failed'[p] = failed[p]
    BY <1>11 DEF ReplayStart, ReplayStep, ReplayRead, ReplaySend, ReplayCheck, ReplayRename,
       ReplayKeep, ReplayError, ReplayEnd, NextFile
  <2>2. Ops \subseteq Ops'
    BY <1>11 DEF ReplayStart, ReplayStep, ReplayRead, ReplaySend, ReplayCheck, ReplayRename,
       ReplayKeep, ReplayError, ReplayEnd, NextFile, Ops, opVars
  <2>3. QED
    BY <2>1, <2>2, CoversFrame
<1>12. CASE ReplayRead(p)
  <2>1. snap'[p] = rest'[p] /\ rpc'[p] = "publish"
    BY <1>12 DEF ReplayRead
  <2>2. QED
    BY <2>1 DEF ReplayCovers
<1>13. ASSUME NEW l \in rest[p], ReplaySend(p, l) PROVE ReplayCovers(p)'
  <2> DEFINE op == [by |-> p, e |-> l.e, n |-> l.n]
  <2>1. op.by = p /\ op.e = l.e /\ op \in Ops' /\ Ops \subseteq Ops'
    BY <1>13 DEF ReplaySend, Ops
  <2>2. snap' = snap /\ rest'[p] = rest[p] \ {l} /\ failed' = failed /\ rpc' = rpc
        /\ rpc[p] = "publish" /\ copies' = copies
    BY <1>13 DEF ReplaySend, kafkaVars
  <2>3. QED
    BY <2>1, <2>2 DEF ReplayCovers
<1>14. ASSUME rpc'[p] \notin {"publish", "rename"} PROVE ReplayCovers(p)'
  BY <1>14 DEF ReplayCovers
<1>15. ASSUME ReplayStart(p) \/ ReplayRename(p) \/ ReplayKeep(p) \/ ReplayError(p)
              \/ ReplayEnd(p)
       PROVE  ReplayCovers(p)'
  BY <1>14, <1>15 DEF ReplayStart, ReplayCheck, ReplayRename, ReplayKeep, ReplayError, ReplayEnd,
     NextFile
<1>16. CASE ReplayCheck(p)
  <2>1. rpc'[p] = "rename" /\ snap' = snap /\ copies' = copies
    BY <1>16 DEF ReplayCheck, kafkaVars
  <2>2. \A l \in snap[p] : copies[l.e] >= 1
    BY <1>16, CheckPublished
  <2>3. QED
    BY <2>1, <2>2 DEF ReplayCovers
<1>17. QED
  BY <1>2, <1>3, <1>4, <1>5, <1>6, <1>7, <1>8, <1>10, <1>11, <1>12, <1>13, <1>15, <1>16
  DEF Next, PublishStep, ReplayStep

-----------------------------------------------------------------------------
(* Lines only move by a rename, and only published ones do so unnoticed. *)

LEMMA DiskStep ==
  ASSUME TypeOK, [Next]_vars
  PROVE  /\ missed \subseteq missed' /\ lost \subseteq lost'
         /\ \/ /\ done' = done /\ overwritten' = overwritten
               /\ \A h \in Hours : file[h] \subseteq file'[h]
            \/ \E p \in Replayers : ReplayRename(p)
<1> USE DEF TypeOK, diskVars, histVars, renameVars
<1>1. ASSUME NEW o \in Ops, BrokerAppend(o) \/ PublishStep(o)
      PROVE  /\ missed \subseteq missed' /\ lost \subseteq lost'
             /\ done' = done /\ overwritten' = overwritten
             /\ \A h \in Hours : file[h] \subseteq file'[h]
  <2>1. CASE BrokerAppend(o) \/ Ack(o) \/ PublishFails(o)
    BY <2>1 DEF BrokerAppend, Ack, PublishFails
  <2>2. ASSUME NEW h \in Hours, SpillWrite(o, h)
        PROVE  /\ missed' = missed /\ lost' = lost /\ overwritten' = overwritten
               /\ done' = done /\ \A g \in Hours : file[g] \subseteq file'[g]
    BY <2>2 DEF SpillWrite
  <2>3. ASSUME NEW h \in Hours, SpillLost(o, h)
        PROVE  /\ missed' = missed /\ lost \subseteq lost' /\ overwritten' = overwritten
               /\ done' = done /\ file' = file
    BY <2>3 DEF SpillLost
  <2>4. QED
    BY <1>1, <2>1, <2>2, <2>3 DEF PublishStep
<1>2. ASSUME NEW p \in Replayers, ReplayStart(p) \/ ReplayStep(p), ~ ReplayRename(p)
      PROVE  UNCHANGED <<missed, lost, done, overwritten, file>>
  BY <1>2 DEF ReplayStart, ReplayStep, ReplayRead, ReplaySend, ReplayCheck, ReplayKeep, ReplayError,
     ReplayEnd, NextFile
<1>3. ASSUME NEW p \in Replayers, ReplayRename(p)
      PROVE  missed \subseteq missed' /\ lost \subseteq lost'
  BY <1>3 DEF ReplayRename, NextFile
<1>4. QED
  BY <1>1, <1>2, <1>3
  DEF Next, Receive, LateAppend, LateExpire, Tick, Crash, vars

\* At the rename every line the replay read is in Kafka.
LEMMA RenamePublished ==
  ASSUME TypeOK, NEW p \in Replayers, ReplayCovers(p), ReplayRename(p)
  PROVE  \A l \in snap[p] : l.e \in Events /\ copies[l.e] >= 1
<1>1. snap[p] \subseteq Line
  BY DEF TypeOK
<1>2. QED
  BY <1>1 DEF ReplayRename, ReplayCovers, Line

\* What is renamed later is renamed by a replay, from the file it is at.
LEMMA RenamedStep ==
  ASSUME TypeOK, [Next]_vars
  PROVE  /\ Renamed \subseteq Renamed' /\ Renamed \subseteq Line
         /\ \A l \in Renamed' \ Renamed : \E p \in Replayers :
               ReplayRename(p) /\ l \in file[cur[p]]
<1>1. Renamed \subseteq Line
  BY DEF TypeOK, Renamed
<1>2. CASE done' = done /\ overwritten' = overwritten
  BY <1>1, <1>2 DEF Renamed
<1>3. ASSUME NEW p \in Replayers, ReplayRename(p)
      PROVE  Renamed \subseteq Renamed' /\ \A l \in Renamed' \ Renamed : l \in file[cur[p]]
  <2>1. PICK h \in Hours : h = cur[p]
    BY DEF TypeOK
  <2>2. /\ \A g \in Hours : done'[g] = IF g = h THEN file[h] ELSE done[g]
        /\ overwritten' = overwritten \cup done[h]
    BY <1>3, <2>1 DEF ReplayRename, TypeOK
  <2> QED BY <2>1, <2>2 DEF Renamed
<1> QED BY <1>1, <1>2, <1>3, DiskStep

LEMMA NextDone ==
  ASSUME TypeOK, DoneWasPublished, [Next]_vars, \A p \in Replayers : ReplayCovers(p)
  PROVE  DoneWasPublished'
<1> SUFFICES ASSUME NEW l \in Renamed' \ missed'
             PROVE  copies'[l.e] >= 1
  BY DEF DoneWasPublished
<1>1. ASSUME l.e \in Events, copies[l.e] >= 1 PROVE copies'[l.e] >= 1
  BY <1>1, CopiesGrow DEF TypeOK
<1>2. CASE l \in Renamed
  <2>1. l \in Line /\ l \notin missed
    BY <1>2, DiskStep, RenamedStep
  <2>2. l.e \in Events /\ copies[l.e] >= 1
    BY <1>2, <2>1 DEF DoneWasPublished, Line
  <2>3. QED
    BY <1>1, <2>2
<1>3. CASE l \notin Renamed
  <2>1. PICK p \in Replayers : ReplayRename(p) /\ l \in file[cur[p]]
    BY <1>3, RenamedStep
  <2>2. l \in snap[p]
    BY <2>1 DEF ReplayRename
  <2>3. QED
    BY <1>1, <2>1, <2>2, RenamePublished
<1>4. QED
  BY <1>2, <1>3

LEMMA NextKept ==
  ASSUME TypeOK, AppendedIsDelivered, AnsweredIsKept, [Next]_vars,
         \A p \in Replayers : ReplayCovers(p)
  PROVE  AnsweredIsKept'
<1> SUFFICES ASSUME NEW e \in Events, outcome'[e] # "none"
             PROVE  (copies[e] >= 1 \/ Pending(e) \/ e \in lost \/ LineOf(e, missed))'
  BY DEF AnsweredIsKept
<1>1. copies[e] \in Nat /\ copies'[e] \in Nat /\ copies'[e] >= copies[e]
  BY CopiesGrow DEF TypeOK
<1>2. CASE outcome[e] # "none"
  <2>1. CASE copies[e] >= 1
    BY <1>1, <2>1
  <2>2. CASE e \in lost \/ LineOf(e, missed)
    <3>1. missed \subseteq missed' /\ lost \subseteq lost'
      BY DiskStep
    <3>2. QED
      BY <2>2, <3>1 DEF LineOf
  <2>3. ASSUME NEW h \in Hours, NEW l \in file[h], l.e = e
        PROVE  copies'[e] >= 1 \/ Pending(e)' \/ LineOf(e, missed)'
    <3>1. CASE l \in file'[h]
      BY <2>3, <3>1 DEF Pending, LineOf
    <3>2. CASE l \notin file'[h]
      <4>1. PICK p \in Replayers : ReplayRename(p)
        BY <3>2, DiskStep
      <4>2. l \in file[cur[p]] /\ missed' = missed \cup (file[cur[p]] \ snap[p])
        BY <3>2, <4>1 DEF ReplayRename, TypeOK
      <4>3. CASE l \in snap[p]
        BY <1>1, <2>3, <4>1, <4>3, RenamePublished
      <4>4. CASE l \notin snap[p]
        BY <2>3, <4>2, <4>4 DEF LineOf
      <4>5. QED
        BY <4>3, <4>4
    <3>3. QED
      BY <3>1, <3>2
  <2>4. QED
    BY <1>2, <2>1, <2>2, <2>3 DEF AnsweredIsKept, Pending, LineOf
<1>3. CASE outcome[e] = "none"
  <2>1. AnswerStep
    BY NextAnswer
  <2>2. CASE \E o \in appended : copies' = copies /\ o.e = e
    BY <1>1, <2>2 DEF AppendedIsDelivered
  <2>3. ASSUME NEW o \in Op, NEW h \in Hours, NEW n \in Nat, o.e = e,
               file' = [file EXCEPT ![h] = @ \cup {[e |-> o.e, n |-> n]}]
        PROVE  Pending(e)'
    <3>1. [e |-> o.e, n |-> n] \in file'[h] /\ [e |-> o.e, n |-> n].e = e
      BY <2>3 DEF TypeOK
    <3>2. QED
      BY <3>1 DEF Pending, LineOf
  <2>4. CASE e \in lost'
    BY <2>4
  <2>5. QED
    <3>1. CASE UNCHANGED outcome
      BY <1>3, <3>1
    <3>2. CASE \E o \in appended : /\ copies' = copies
                 /\ \E r \in {"ACCEPTED", "INVALID"} : outcome' = [outcome EXCEPT ![o.e] = r]
      BY <1>3, <2>2, <3>2 DEF TypeOK
    <3>3. CASE \E o \in Op, h \in Hours :
                 /\ \/ \E n \in Nat :
                           file' = [file EXCEPT ![h] = @ \cup {[e |-> o.e, n |-> n]}]
                    \/ lost' = lost \cup {o.e}
                 /\ \E r \in {"FALLBACK", "INVALID"} :
                       outcome' = [outcome EXCEPT ![o.e] = r]
      <4>1. PICK o \in Op, h \in Hours :
                 /\ \/ \E n \in Nat :
                           file' = [file EXCEPT ![h] = @ \cup {[e |-> o.e, n |-> n]}]
                    \/ lost' = lost \cup {o.e}
                 /\ \E r \in {"FALLBACK", "INVALID"} :
                       outcome' = [outcome EXCEPT ![o.e] = r]
        BY <3>3
      <4>2. o.e = e
        BY <1>3, <4>1 DEF TypeOK
      <4>3. QED
        BY <2>3, <2>4, <4>1, <4>2
    <3>4. QED
      BY <2>1, <3>1, <3>2, <3>3 DEF AnswerStep
<1>4. QED
  BY <1>2, <1>3

-----------------------------------------------------------------------------

LEMMA InitInd == Init => IndInv
<1> SUFFICES ASSUME Init PROVE IndInv
  OBVIOUS
<1>1. TypeOK
  BY HoursFacts DEF Init, TypeOK
<1>2. FiniteOps
  BY FS_EmptySet DEF Init, FiniteOps
<1>3. QED
  BY <1>1, <1>2
  DEF Init, IndInv, AppendedIsDelivered, AcceptedIsDelivered, ReplayCovers,
      DoneWasPublished, Renamed, AnsweredIsKept

LEMMA NextInd == IndInv /\ [Next]_vars => IndInv'
BY NextType, NextFinite, NextAppended, NextAccepted, NextCovers, NextDone, NextKept
DEF IndInv

\* The strengthened invariant holds in every reachable state, whatever times
\* out, is replayed or crashes.
THEOREM IndInvCorrect == Spec => []IndInv
BY InitInd, NextInd, PTL DEF Spec

\* An event answered ACCEPTED is in its topic (EventPublisher.kt:39-45).
THEOREM AcceptedDelivered == Spec => []AcceptedIsDelivered
<1>1. IndInv => AcceptedIsDelivered
  BY DEF IndInv
<1>2. QED
  BY <1>1, IndInvCorrect, PTL

\* An answered event is in Kafka, in a pending file, lost to a failed write, or
\* in a line renamed unread: no fifth way (FallbackWriter.kt:64,
\* AdminController.kt:56-100).
THEOREM AnsweredKept == Spec => []AnsweredIsKept
<1>1. IndInv => AnsweredIsKept
  BY DEF IndInv
<1>2. QED
  BY <1>1, IndInvCorrect, PTL

\* A line a replay read is in a .done file only with its event in Kafka
\* (AdminController.kt:94-97).
THEOREM DonePublished == Spec => []DoneWasPublished
<1>1. IndInv => DoneWasPublished
  BY DEF IndInv
<1>2. QED
  BY <1>1, IndInvCorrect, PTL

-----------------------------------------------------------------------------
(* What a rename can destroy. *)

\* Between its two looks at the name, only a rename by another replay can take
\* it, and that replay marks the one it overtakes.
LEMMA NextNameIsFree ==
  ASSUME TypeOK, NameIsFree, [Next]_vars
  PROVE  NameIsFree'
<1> SUFFICES ASSUME NEW p \in Replayers, rpc'[p] = "rename", p \notin overtaken'
             PROVE  done'[cur'[p]] = {}
  BY DEF NameIsFree
<1> USE DEF TypeOK
<1>1. ASSUME done' = done, rpc'[p] = rpc[p], cur'[p] = cur[p], overtaken' = overtaken
      PROVE  done'[cur'[p]] = {}
  BY <1>1 DEF NameIsFree
<1>2. CASE ReplayCheck(p)
  BY <1>2 DEF ReplayCheck, diskVars
<1>3. ASSUME NEW q \in Replayers, q # p, ReplayRename(q) PROVE done'[cur'[p]] = {}
  <2>1. /\ rpc[p] = "rename" /\ cur' = cur
        /\ done' = [done EXCEPT ![cur[q]] = file[cur[q]]]
        /\ p \notin overtaken /\ cur[p] # cur[q]
    BY <1>3 DEF ReplayRename, NextFile
  <2> QED BY <2>1 DEF NameIsFree
<1>4. ASSUME NEW q \in Replayers, q # p, ReplayError(q) PROVE done'[cur'[p]] = {}
  <2>1. /\ rpc'[p] = rpc[p] /\ cur' = cur /\ done' = done
        /\ p \notin overtaken
    BY <1>4 DEF ReplayError, diskVars
  <2> QED BY <2>1 DEF NameIsFree
<1>5. ASSUME NEW q \in Replayers, q # p,
             ReplayStart(q) \/ ReplayStep(q), ~ReplayRename(q), ~ReplayError(q)
      PROVE  done'[cur'[p]] = {}
  BY <1>1, <1>5 DEF ReplayStart, ReplayStep, ReplayRead, ReplaySend, ReplayCheck, ReplayKeep,
     ReplayEnd, NextFile, diskVars, histVars, renameVars
<1>6. ASSUME ReplayStart(p) \/ ReplayStep(p), ~ReplayCheck(p) PROVE FALSE
  BY <1>6 DEF ReplayStart, ReplayStep, ReplayRead, ReplaySend, ReplayRename, ReplayKeep,
     ReplayError, ReplayEnd, NextFile
<1>7. ASSUME NEW o, BrokerAppend(o) \/ PublishStep(o) PROVE done'[cur'[p]] = {}
  BY <1>1, <1>7 DEF BrokerAppend, PublishStep, Ack, PublishFails, SpillWrite, SpillLost,
     diskVars, replayVars, histVars, renameVars
<1>8. ASSUME NEW e, Receive(e) \/ LateAppend(e) \/ LateExpire(e) PROVE done'[cur'[p]] = {}
  BY <1>1, <1>8 DEF Receive, LateAppend, LateExpire, diskVars, replayVars, histVars, renameVars
<1>9. CASE Tick \/ UNCHANGED vars
  BY <1>1, <1>9 DEF Tick, vars, diskVars, replayVars, histVars, renameVars
<1>10. CASE Crash
  BY <1>10 DEF Crash
<1> QED
  BY <1>2, <1>3, <1>4, <1>5, <1>6, <1>7, <1>8, <1>9, <1>10 DEF Next, ReplayStep

THEOREM NameFree == Spec => []NameIsFree
<1>1. Init => NameIsFree
  BY DEF Init, NameIsFree
<1>2. IndInv /\ NameIsFree /\ [Next]_vars => NameIsFree'
  BY NextNameIsFree DEF IndInv
<1> QED BY <1>1, <1>2, IndInvCorrect, PTL DEF Spec

\* The lines of pending files outlive every step of any number of replays, and
\* those of a .done file every step but the rename of an overtaken replay, by
\* which time they are published or were renamed unread (AdminController.kt:96).
THEOREM LinesKept == Spec => LinesDestroyedOnlyWhenOvertaken
<1> DEFINE Destroyed(h) ==
      /\ file[h] \subseteq Kept(h)'
      /\ \A l \in done[h] \ Kept(h)' :
           /\ \E p \in overtaken : cur[p] = h
           /\ copies[l.e] >= 1 \/ l \in missed
<1>1. IndInv /\ NameIsFree /\ [Next]_vars => \A h \in Hours : Destroyed(h)
  <2> SUFFICES ASSUME IndInv, NameIsFree, [Next]_vars, NEW h \in Hours PROVE Destroyed(h)
    OBVIOUS
  <2>1. TypeOK /\ DoneWasPublished
    BY DEF IndInv
  <2>2. ASSUME NEW p \in Replayers, ReplayRename(p), cur[p] # h
        PROVE  file'[h] = file[h] /\ done'[h] = done[h]
    BY <2>1, <2>2 DEF ReplayRename, TypeOK
  <2>3. ASSUME NEW p \in Replayers, ReplayRename(p), cur[p] = h
        PROVE  done'[h] = file[h] /\ (done[h] # {} => p \in overtaken)
    BY <2>1, <2>3 DEF ReplayRename, NameIsFree, TypeOK
  <2>4. \A l \in done[h] : copies[l.e] >= 1 \/ l \in missed
    BY <2>1 DEF DoneWasPublished, Renamed
  <2> QED BY <2>1, <2>2, <2>3, <2>4, DiskStep DEF Kept
<1>2. IndInv /\ NameIsFree /\ [Next]_vars => [\A h \in Hours : Destroyed(h)]_vars
  BY <1>1
<1> QED BY <1>2, IndInvCorrect, NameFree, PTL DEF Spec, LinesDestroyedOnlyWhenOvertaken

\* No two replays run at the same time; and what follows from it.
OneAtATime == \A p, q \in Replayers : rpc[p] # "idle" /\ rpc[q] # "idle" => p = q
NoneOvertaken == overtaken = {}

\* While no two replays run at the same time nobody is overtaken, and no step
\* destroys a line, whatever else goes on (AdminController.kt:49-50).
THEOREM LinesKeptOneAtATime ==
  Spec /\ []OneAtATime => [][\A h \in Hours : Kept(h) \subseteq Kept(h)']_vars
<1>1. Init => NoneOvertaken
  BY DEF Init, NoneOvertaken
<1>2. OneAtATime /\ NoneOvertaken /\ [Next]_vars => NoneOvertaken'
  <2> SUFFICES ASSUME OneAtATime, overtaken = {}, [Next]_vars PROVE overtaken' = {}
    BY DEF NoneOvertaken
  <2>1. ASSUME NEW p \in Replayers, ReplayRename(p) PROVE overtaken' = {}
    BY <2>1 DEF ReplayRename, OneAtATime
  <2>2. ASSUME NEW p \in Replayers, ReplayStart(p) \/ ReplayStep(p), ~ReplayRename(p)
        PROVE  overtaken' = {}
    BY <2>2 DEF ReplayStart, ReplayStep, ReplayRead, ReplaySend, ReplayCheck, ReplayKeep,
       ReplayError, ReplayEnd, NextFile, histVars, renameVars
  <2>3. ASSUME NEW o, BrokerAppend(o) \/ PublishStep(o) PROVE overtaken' = {}
    BY <2>3 DEF BrokerAppend, PublishStep, Ack, PublishFails, SpillWrite, SpillLost, histVars,
       renameVars
  <2>4. ASSUME NEW e, Receive(e) \/ LateAppend(e) \/ LateExpire(e) PROVE overtaken' = {}
    BY <2>4 DEF Receive, LateAppend, LateExpire, histVars, renameVars
  <2>5. CASE Tick \/ Crash \/ UNCHANGED vars
    BY <2>5 DEF Tick, Crash, vars, histVars, renameVars
  <2> QED BY <2>1, <2>2, <2>3, <2>4, <2>5 DEF Next
<1>3. IndInv /\ NameIsFree /\ NoneOvertaken /\ [Next]_vars
        => [\A h \in Hours : Kept(h) \subseteq Kept(h)']_vars
  <2> SUFFICES ASSUME IndInv, NameIsFree, overtaken = {}, [Next]_vars, NEW h \in Hours
               PROVE  Kept(h) \subseteq Kept(h)'
    BY DEF NoneOvertaken
  <2>1. TypeOK
    BY DEF IndInv
  <2>2. ASSUME NEW p \in Replayers, ReplayRename(p) PROVE Kept(h) \subseteq Kept(h)'
    <3>1. done[cur[p]] = {}
      BY <2>2 DEF ReplayRename, NameIsFree
    <3> QED BY <2>1, <2>2, <3>1 DEF ReplayRename, Kept, TypeOK
  <2> QED BY <2>1, <2>2, DiskStep DEF Kept
<1> QED BY <1>1, <1>2, <1>3, IndInvCorrect, NameFree, PTL DEF Spec

-----------------------------------------------------------------------------
(* The collector is an at-least-once hand-over *)

\* Whatever is to be published, or waits for it, is of an event received.
Known ==
  /\ \A o \in Ops : o.e \in received
  /\ \A e \in Events : late[e] > 0 => e \in received
  /\ \A h \in Hours : \A l \in file[h] : l.e \in received
  /\ \A p \in Replayers : \A l \in rest[p] : l.e \in received

\* The publish of a request thread is in one place, and not yet answered.
IngestOnce ==
  /\ \A e \in Events : e \notin received => outcome[e] = "none"
  /\ \A o \in Ops : o.by = Ingest =>
       /\ o.n = 0 /\ outcome[o.e] = "none"
       /\ o \in sending => o \notin appended
       /\ \A h \in Hours : <<o, h>> \in spilling =>
            /\ o \notin sending \cup appended
            /\ \A g \in Hours : <<o, g>> \in spilling => g = h

\* A line is in one file, and in none once its .done file was replaced.
LinesOnce ==
  /\ \A h \in Hours : \A l \in file[h] \cup done[h] : l.n <= spills[l.e]
  /\ \A l \in overwritten : l.n <= spills[l.e]
  /\ \A h \in Hours : file[h] \cap (done[h] \cup overwritten) = {}
  /\ \A h, g \in Hours : h # g => (file[h] \cup done[h]) \cap (file[g] \cup done[g]) = {}

LEMMA InitHandOver == Init => Known /\ IngestOnce /\ LinesOnce
BY DEF Init, Known, IngestOnce, LinesOnce, Ops

\* Publishes come from a request or a replay, and otherwise only move.
LEMMA OpsStep ==
  ASSUME TypeOK, [Next]_vars
  PROVE  \/ \E e \in Events : Receive(e)
         \/ \E p \in Replayers : \E l \in rest[p] : ReplaySend(p, l)
         \/ Ops' \subseteq Ops
<1> USE DEF Ops, opVars
<1>1. ASSUME NEW o \in Ops, BrokerAppend(o) PROVE Ops' \subseteq Ops
  BY <1>1 DEF BrokerAppend
<1>2. ASSUME NEW o \in Ops, PublishFails(o) PROVE Ops' \subseteq Ops
  <2>1. \A s \in spilling' : s \in spilling \/ s[1] = o
    BY <1>2 DEF PublishFails
  <2>2. sending' \subseteq sending /\ appended' \subseteq appended
    BY <1>2 DEF PublishFails
  <2> QED BY <2>1, <2>2
<1>3. ASSUME NEW o \in Ops, Ack(o) PROVE Ops' \subseteq Ops
  BY <1>3 DEF Ack
<1>4. ASSUME NEW o \in Ops, NEW h \in Hours, SpillWrite(o, h) \/ SpillLost(o, h)
      PROVE  Ops' \subseteq Ops
  BY <1>4 DEF SpillWrite, SpillLost
<1>5. ASSUME NEW p \in Replayers, ReplayStart(p) \/ ReplayStep(p),
             ~\E l \in rest[p] : ReplaySend(p, l)
      PROVE  Ops' \subseteq Ops
  BY <1>5 DEF ReplayStart, ReplayStep, ReplayRead, ReplayCheck, ReplayRename, ReplayKeep, ReplayError,
     ReplayEnd, NextFile
<1>6. CASE Tick \/ Crash \/ UNCHANGED vars
  BY <1>6 DEF Tick, Crash, vars
<1>7. ASSUME NEW e \in Events, LateAppend(e) \/ LateExpire(e) PROVE Ops' \subseteq Ops
  BY <1>7 DEF LateAppend, LateExpire
<1> HIDE DEF Ops, opVars
<1> QED BY <1>1, <1>2, <1>3, <1>4, <1>5, <1>6, <1>7 DEF Next, PublishStep

\* Nothing is received again or forgotten.
LEMMA ReceivedGrows ==
  ASSUME [Next]_vars
  PROVE  received' = received \/ \E e \in Events : Receive(e)
<1> USE DEF ingestVars
<1>1. ASSUME NEW o, BrokerAppend(o) \/ PublishStep(o) PROVE received' = received
  BY <1>1 DEF BrokerAppend, PublishStep, Ack, PublishFails, SpillWrite, SpillLost
<1>2. ASSUME NEW p, ReplayStart(p) \/ ReplayStep(p) PROVE received' = received
  BY <1>2 DEF ReplayStart, ReplayStep, ReplayRead, ReplaySend, ReplayCheck, ReplayRename, ReplayKeep,
     ReplayError, ReplayEnd, NextFile
<1> QED BY <1>1, <1>2 DEF Next, LateAppend, LateExpire, Tick, Crash, vars

LEMMA KnownOps ==
  ASSUME TypeOK, Known, [Next]_vars
  PROVE  /\ \A o \in Ops' : o.e \in received'
         /\ received \subseteq received'
<1>1. received \subseteq received'
  BY ReceivedGrows DEF Receive
<1>2. ASSUME NEW e \in Events, Receive(e) PROVE \A o \in Ops' : o.e \in received'
  <2>1. \A o \in Ops' : o \in Ops \/ o = [by |-> Ingest, e |-> e, n |-> 0]
    BY <1>2 DEF Receive, Ops
  <2> QED BY <1>1, <1>2, <2>1 DEF Receive, Known
<1>3. ASSUME NEW p \in Replayers, NEW l \in rest[p], ReplaySend(p, l)
      PROVE  \A o \in Ops' : o.e \in received'
  <2>1. \A o \in Ops' : o \in Ops \/ o = [by |-> p, e |-> l.e, n |-> l.n]
    BY <1>3 DEF ReplaySend, Ops
  <2> QED BY <1>1, <2>1 DEF Known
<1> QED BY <1>1, <1>2, <1>3, OpsStep DEF Known

\* A record that outlives its publish is of that publish.
LEMMA KnownLate ==
  ASSUME TypeOK, Known, [Next]_vars, NEW e \in Events, late'[e] > 0
  PROVE  e \in received'
<1> SUFFICES ASSUME e \notin received' PROVE FALSE
  OBVIOUS
<1>1. e \notin received /\ late[e] = 0 /\ late \in [Events -> Nat]
  BY KnownOps DEF Known, TypeOK
<1>2. late' # late
  BY <1>1
<1>3. ASSUME NEW o \in Ops, PublishFails(o) PROVE FALSE
  <2>1. o.e \in received /\ o.e # e
    BY <1>1 DEF Known
  <2> QED BY <1>1, <1>3, <2>1 DEF PublishFails
<1>4. ASSUME NEW x \in Events, LateAppend(x) \/ LateExpire(x) PROVE FALSE
  <2>1. x # e /\ \E k \in Int : late' = [late EXCEPT ![x] = k]
    BY <1>1, <1>4 DEF LateAppend, LateExpire
  <2> QED BY <1>1, <2>1
<1>5. CASE Crash
  <2>1. {o \in sending : o.e = e} = {}
    BY <1>1 DEF Known, Ops
  <2>2. late'[e] = late[e] + Cardinality({o \in sending : o.e = e})
    BY <1>5 DEF Crash
  <2> QED BY <1>1, <2>1, <2>2, FS_EmptySet
<1>6. ASSUME NEW o, BrokerAppend(o) \/ Ack(o) \/ \E h \in Hours : SpillWrite(o, h) \/ SpillLost(o, h)
      PROVE  FALSE
  BY <1>2, <1>6 DEF BrokerAppend, Ack, SpillWrite, SpillLost, kafkaVars
<1>7. ASSUME NEW p, ReplayStart(p) \/ ReplayStep(p) PROVE FALSE
  BY <1>2, <1>7 DEF ReplayStart, ReplayStep, ReplayRead, ReplaySend, ReplayCheck, ReplayRename, ReplayKeep,
     ReplayError, ReplayEnd, NextFile, kafkaVars
<1>8. ASSUME NEW x, Receive(x) PROVE FALSE
  BY <1>2, <1>8 DEF Receive, kafkaVars
<1>9. CASE Tick \/ UNCHANGED vars
  BY <1>2, <1>9 DEF Tick, vars, kafkaVars
<1> QED BY <1>3, <1>4, <1>5, <1>6, <1>7, <1>8, <1>9 DEF Next, PublishStep

LEMMA NextKnown == TypeOK /\ Known /\ [Next]_vars => Known'
<1> SUFFICES ASSUME TypeOK, Known, [Next]_vars PROVE Known'
  OBVIOUS
<1> DEFINE Files == \A h \in Hours : \A l \in file[h] : l.e \in received
           Rests == \A p \in Replayers : \A l \in rest[p] : l.e \in received
<1>1. Files /\ Rests /\ received \subseteq received'
  BY KnownOps DEF Known
<1>2. Files'
  <2> SUFFICES ASSUME NEW h \in Hours, NEW l \in file'[h], l \notin file[h]
               PROVE  l.e \in received
    BY <1>1
  <2>1. file' # file /\ file \in [Hours -> SUBSET Line]
    BY DEF TypeOK
  <2>2. ASSUME NEW o \in Ops, NEW g \in Hours, SpillWrite(o, g) PROVE l.e \in received
    <3>1. l = [e |-> o.e, n |-> spills[o.e] + 1]
      BY <2>1, <2>2 DEF SpillWrite
    <3> QED BY <3>1 DEF Known
  <2>3. ASSUME NEW p \in Replayers, ReplayRename(p) PROVE FALSE
    BY <2>1, <2>3 DEF ReplayRename
  <2>4. ASSUME NEW p \in Replayers, ReplayStart(p) \/ ReplayStep(p), ~ReplayRename(p)
        PROVE  FALSE
    BY <2>1, <2>4 DEF ReplayStart, ReplayStep, ReplayRead, ReplaySend, ReplayCheck, ReplayKeep,
       ReplayError, ReplayEnd, NextFile, diskVars
  <2>5. ASSUME NEW o, BrokerAppend(o) \/ Ack(o) \/ PublishFails(o)
                      \/ \E g \in Hours : SpillLost(o, g)
        PROVE  FALSE
    BY <2>1, <2>5 DEF BrokerAppend, Ack, PublishFails, SpillLost, diskVars
  <2>6. ASSUME NEW e, Receive(e) \/ LateAppend(e) \/ LateExpire(e) PROVE FALSE
    BY <2>1, <2>6 DEF Receive, LateAppend, LateExpire, diskVars
  <2>7. CASE Tick \/ Crash \/ UNCHANGED vars
    BY <2>1, <2>7 DEF Tick, Crash, vars, diskVars
  <2> QED BY <2>2, <2>3, <2>4, <2>5, <2>6, <2>7 DEF Next, PublishStep
<1>3. Rests'
  <2> SUFFICES ASSUME NEW p \in Replayers, NEW l \in rest'[p], l \notin rest[p]
               PROVE  l.e \in received
    BY <1>1
  <2>1. rest' # rest
    OBVIOUS
  <2>2. ASSUME NEW q \in Replayers, ReplayRead(q) PROVE l.e \in received
    <3>1. PICK h \in Hours : rest' = [rest EXCEPT ![q] = file[h]]
      BY <2>2 DEF ReplayRead, TypeOK
    <3> QED BY <1>1, <3>1 DEF TypeOK
  <2>3. ASSUME NEW q \in Replayers, NEW k, ReplaySend(q, k) PROVE FALSE
    BY <2>3 DEF ReplaySend, TypeOK
  <2>4. ASSUME NEW q \in Replayers,
               ReplayStart(q) \/ ReplayCheck(q) \/ ReplayRename(q) \/ ReplayKeep(q)
                 \/ ReplayError(q) \/ ReplayEnd(q)
        PROVE  FALSE
    BY <2>1, <2>4 DEF ReplayStart, ReplayCheck, ReplayRename, ReplayKeep, ReplayError, ReplayEnd, NextFile
  <2>5. ASSUME NEW o, BrokerAppend(o) \/ PublishStep(o) PROVE FALSE
    BY <2>1, <2>5 DEF BrokerAppend, PublishStep, Ack, PublishFails, SpillWrite, SpillLost,
       replayVars
  <2>6. ASSUME NEW e, Receive(e) \/ LateAppend(e) \/ LateExpire(e) PROVE FALSE
    BY <2>1, <2>6 DEF Receive, LateAppend, LateExpire, replayVars
  <2>7. CASE Tick \/ UNCHANGED vars
    BY <2>1, <2>7 DEF Tick, vars, replayVars
  <2>8. CASE Crash
    BY <2>8 DEF Crash
  <2> QED BY <2>2, <2>3, <2>4, <2>5, <2>6, <2>7, <2>8 DEF Next, ReplayStep
<1>4. (\A o \in Ops : o.e \in received)'
  BY KnownOps
<1>5. (\A e \in Events : late[e] > 0 => e \in received)'
  BY KnownLate
<1> QED BY <1>2, <1>3, <1>4, <1>5 DEF Known

\* What completing a publish answers.
LEMMA CompleteOutcome ==
  ASSUME TypeOK, NEW o \in Op, NEW what, Complete(o, what), NEW e \in Events,
         o.by # Ingest \/ o.e # e
  PROVE  outcome'[e] = outcome[e]
BY DEF Complete, TypeOK

\* A publish that completes answers for its request, and leaves its place.
LEMMA CompleteOnce ==
  ASSUME TypeOK, Known, IngestOnce, NEW o \in Op, NEW what, o \in Ops, Complete(o, what),
         received' = received, o \notin Ops',
         sending' \subseteq sending, appended' \subseteq appended, spilling' \subseteq spilling
  PROVE  IngestOnce'
<1>1. o.e \in received
  BY DEF Known
<1>2. \A e \in Events : e \notin received' => outcome'[e] = "none"
  BY <1>1, CompleteOutcome DEF IngestOnce
<1>3. ASSUME NEW q \in Ops', q.by = Ingest
      PROVE  q \in Ops /\ q.n = 0 /\ outcome'[q.e] = "none"
  <2>1. q \in Ops /\ q # o
    BY <1>3 DEF Ops
  <2>2. q \in Op /\ q.n = 0 /\ outcome[q.e] = "none" /\ q.e \in Events
    BY <1>3, <2>1, OpsTyped DEF IngestOnce
  <2>3. o.by # Ingest \/ o.e # q.e
    <3>1. SUFFICES ASSUME o.by = Ingest, o.e = q.e PROVE FALSE
      OBVIOUS
    <3>2. o.n = 0
      BY <3>1 DEF IngestOnce
    <3> QED BY <1>3, <2>1, <2>2, <3>1, <3>2 DEF Op
  <2> QED BY <2>1, <2>2, <2>3, CompleteOutcome
<1> QED BY <1>2, <1>3 DEF IngestOnce

LEMMA NextIngest ==
  ASSUME TypeOK, Known, IngestOnce, [Next]_vars
  PROVE  IngestOnce'
<1>1. ASSUME NEW e \in Events, Receive(e) PROVE IngestOnce'
  <2> DEFINE new == [by |-> Ingest, e |-> e, n |-> 0]
  <2>1. /\ received' = received \cup {e} /\ e \notin received /\ outcome' = outcome
        /\ sending' = sending \cup {new} /\ appended' = appended /\ spilling' = spilling
    BY <1>1 DEF Receive
  <2>2. new.by = Ingest /\ new.e = e /\ new.n = 0 /\ new \notin Ops
    BY <2>1 DEF Known
  <2>3. new \notin appended /\ \A h \in Hours : <<new, h>> \notin spilling
    <3>1. ASSUME NEW h \in Hours, <<new, h>> \in spilling PROVE FALSE
      <4>1. <<new, h>>[1] = new
        OBVIOUS
      <4> QED BY <2>2, <3>1, <4>1 DEF Ops
    <3> QED BY <2>2, <3>1 DEF Ops
  <2>4. outcome[e] = "none"
    BY <2>1 DEF IngestOnce
  <2>5. \A q \in Ops' : q \in Ops \/ q = new
    BY <2>1 DEF Ops
  <2> HIDE DEF new
  <2> QED BY <2>1, <2>2, <2>3, <2>4, <2>5 DEF IngestOnce
<1>2. ASSUME NEW p \in Replayers, NEW l \in rest[p], ReplaySend(p, l) PROVE IngestOnce'
  <2> DEFINE new == [by |-> p, e |-> l.e, n |-> l.n]
  <2>1. /\ received' = received /\ outcome' = outcome /\ sending' = sending \cup {new}
        /\ appended' = appended /\ spilling' = spilling
    BY <1>2 DEF ReplaySend, ingestVars
  <2>2. new.by # Ingest
    BY CollectorAssumption
  <2>3. \A q \in Ops' : q.by = Ingest => q \in Ops /\ q # new
    BY <2>1, <2>2 DEF Ops
  <2> HIDE DEF new
  <2> QED BY <2>1, <2>3 DEF IngestOnce
<1>3. ASSUME NEW o \in Ops, BrokerAppend(o) PROVE IngestOnce'
  <2>1. /\ received' = received /\ outcome' = outcome /\ spilling' = spilling
        /\ sending' = sending \ {o} /\ appended' = appended \cup {o} /\ o \in sending
    BY <1>3 DEF BrokerAppend, ingestVars
  <2>2. Ops' = Ops
    BY <2>1 DEF Ops
  <2> QED BY <2>1, <2>2 DEF IngestOnce
<1>4. ASSUME NEW o \in Ops, PublishFails(o) PROVE IngestOnce'
  <2>1. /\ received' = received /\ outcome' = outcome /\ o \in sending \cup appended
        /\ sending' = sending \ {o} /\ appended' = appended \ {o}
        /\ spilling' = spilling \cup {<<o, hour>>} /\ hour \in Hours
    BY <1>4 DEF PublishFails, ingestVars, TypeOK
  <2>2. Ops' \subseteq Ops
    <3>1. \A s \in spilling' : s \in spilling \/ s[1] = o
      BY <2>1
    <3> QED BY <2>1, <3>1 DEF Ops
  <2>3. o.by = Ingest => \A h \in Hours : <<o, h>> \notin spilling
    BY <2>1 DEF IngestOnce
  <2>4. \A q, h : <<q, h>> \in spilling' => <<q, h>> \in spilling \/ (q = o /\ h = hour)
    BY <2>1
  <2> QED BY <2>1, <2>2, <2>3, <2>4 DEF IngestOnce
<1>5. ASSUME NEW o \in Ops, Ack(o) PROVE IngestOnce'
  <2>1. /\ received' = received /\ sending' = sending /\ spilling' = spilling
        /\ appended' = appended \ {o} /\ o \in appended /\ Complete(o, "ACCEPTED")
    BY <1>5 DEF Ack
  <2>2. CASE o.by = Ingest
    <3>1. o \notin Ops'
      <4>1. o \notin sending /\ \A h \in Hours : <<o, h>> \notin spilling
        BY <2>1, <2>2 DEF IngestOnce
      <4>2. \A s \in spilling : s = <<s[1], s[2]>> /\ s[2] \in Hours
        BY DEF TypeOK
      <4>3. \A s \in spilling : s[1] # o
        BY <4>1, <4>2
      <4> QED BY <2>1, <4>1, <4>3 DEF Ops
    <3> QED BY <2>1, <3>1, CompleteOnce, OpsTyped
  <2>3. CASE o.by # Ingest
    <3>1. outcome' = outcome /\ Ops' \subseteq Ops
      BY <2>1, <2>3 DEF Complete, Ops
    <3> QED BY <2>1, <3>1 DEF IngestOnce
  <2> QED BY <2>2, <2>3
<1>6. ASSUME NEW o \in Ops, NEW h \in Hours, SpillWrite(o, h) \/ SpillLost(o, h)
      PROVE  IngestOnce'
  <2>1. /\ received' = received /\ sending' = sending /\ appended' = appended
        /\ spilling' = spilling \ {<<o, h>>} /\ <<o, h>> \in spilling
        /\ Complete(o, FallbackOutcome(o))
    BY <1>6 DEF SpillWrite, SpillLost
  <2>2. CASE o.by = Ingest
    <3>1. o \notin Ops'
      <4>1. o \notin sending \cup appended /\ \A g \in Hours : <<o, g>> \in spilling => g = h
        BY <2>1, <2>2 DEF IngestOnce
      <4>2. \A s \in spilling : s = <<s[1], s[2]>> /\ s[2] \in Hours
        BY DEF TypeOK
      <4>3. \A s \in spilling' : s[1] # o
        BY <2>1, <4>1, <4>2
      <4> QED BY <2>1, <4>1, <4>3 DEF Ops
    <3> QED BY <2>1, <3>1, CompleteOnce, OpsTyped
  <2>3. CASE o.by # Ingest
    <3>1. outcome' = outcome /\ Ops' \subseteq Ops
      BY <2>1, <2>3 DEF Complete, Ops
    <3> QED BY <2>1, <3>1 DEF IngestOnce
  <2> QED BY <2>2, <2>3
<1>7. ASSUME UNCHANGED <<received, outcome, sending, appended, spilling>> PROVE IngestOnce'
  <2>1. Ops' = Ops
    BY <1>7 DEF Ops
  <2> QED BY <1>7, <2>1 DEF IngestOnce
<1>8. ASSUME NEW p, ReplayStart(p) \/ ReplayStep(p), ~\E l \in rest[p] : ReplaySend(p, l)
      PROVE  IngestOnce'
  BY <1>7, <1>8 DEF ReplayStart, ReplayStep, ReplayRead, ReplayCheck, ReplayRename, ReplayKeep, ReplayError,
     ReplayEnd, NextFile, ingestVars, opVars
<1>9. ASSUME NEW e, LateAppend(e) \/ LateExpire(e) PROVE IngestOnce'
  BY <1>7, <1>9 DEF LateAppend, LateExpire, ingestVars, opVars
<1>10. CASE Tick \/ UNCHANGED vars
  BY <1>7, <1>10 DEF Tick, vars, ingestVars, opVars
<1>11. CASE Crash
  <2>1. Ops' = {} /\ received' = received /\ outcome' = outcome
    BY <1>11 DEF Crash, Ops, ingestVars
  <2> QED BY <2>1 DEF IngestOnce
<1> QED
  BY <1>1, <1>2, <1>3, <1>4, <1>5, <1>6, <1>8, <1>9, <1>10, <1>11 DEF Next, PublishStep

\* A line is written once, under a number of its own, and a rename takes all
\* lines of a file to one .done file, instead of those that were in it.
LEMMA NextLines ==
  ASSUME TypeOK, LinesOnce, [Next]_vars
  PROVE  LinesOnce'
<1>1. ASSUME NEW o \in Ops, NEW h \in Hours, SpillWrite(o, h) PROVE LinesOnce'
  <2> DEFINE new == [e |-> o.e, n |-> spills[o.e] + 1]
  <2>1. /\ file' = [file EXCEPT ![h] = @ \cup {new}]
        /\ done' = done /\ overwritten' = overwritten
        /\ spills' = [spills EXCEPT ![o.e] = @ + 1]
    BY <1>1 DEF SpillWrite, renameVars
  <2>2. o.e \in Events /\ spills[o.e] \in Nat
    BY OpsTyped DEF TypeOK
  <2>3. \A g \in Hours : new \notin file[g] \cup done[g] \cup overwritten
    BY <2>2 DEF LinesOnce
  <2>4. /\ \A g \in Hours : \A l \in file[g] \cup done[g] :
              l.e \in Events /\ l.n \in Nat /\ spills[l.e] \in Nat /\ l.n <= spills[l.e]
        /\ \A l \in overwritten :
              l.e \in Events /\ l.n \in Nat /\ spills[l.e] \in Nat /\ l.n <= spills[l.e]
    BY DEF TypeOK, Line, LinesOnce
  <2>5. new.e = o.e /\ new.n = spills'[o.e]
    BY <2>1, <2>2 DEF TypeOK
  <2>6. \A e \in Events : spills'[e] >= spills[e] /\ spills'[e] \in Nat
    BY <2>1, <2>2 DEF TypeOK
  <2>7. \A g \in Hours : file'[g] = file[g] \cup (IF g = h THEN {new} ELSE {})
    BY <2>1 DEF TypeOK
  <2> HIDE DEF new
  <2>8. \A g \in Hours : \A l \in file'[g] \cup done'[g] : l.n <= spills'[l.e]
    <3> SUFFICES ASSUME NEW g \in Hours, NEW l \in file'[g] \cup done'[g]
                 PROVE  l.n <= spills'[l.e]
      OBVIOUS
    <3>1. CASE l = new
      BY <2>2, <2>5, <2>6, <3>1
    <3>2. CASE l # new
      <4>1. l \in file[g] \cup done[g]
        BY <2>1, <2>7, <3>2
      <4> QED BY <2>4, <2>6, <4>1
    <3> QED BY <3>1, <3>2
  <2>9. \A l \in overwritten' : l.n <= spills'[l.e]
    BY <2>1, <2>4, <2>6
  <2> QED BY <2>1, <2>3, <2>7, <2>8, <2>9 DEF LinesOnce
<1>2. ASSUME NEW p \in Replayers, ReplayRename(p) PROVE LinesOnce'
  <2>1. PICK h \in Hours : h = cur[p]
    BY DEF TypeOK
  <2>2. /\ spills' = spills /\ overwritten' = overwritten \cup done[h]
        /\ file' = [file EXCEPT ![h] = {}] /\ done' = [done EXCEPT ![h] = file[h]]
    BY <1>2, <2>1 DEF ReplayRename, NextFile
  <2>8. /\ file'[h] = {} /\ done'[h] = file[h]
        /\ \A g \in Hours : g # h => file'[g] = file[g] /\ done'[g] = done[g]
    BY <2>2 DEF TypeOK
  <2>3. \A g \in Hours : file'[g] \cup done'[g] \subseteq file[g] \cup done[g]
    BY <2>8
  <2>4. \A l \in overwritten' : l.n <= spills'[l.e]
    BY <2>2 DEF LinesOnce
  <2>5. ASSUME NEW g \in Hours PROVE file'[g] \cap (done'[g] \cup overwritten') = {}
    BY <2>2, <2>8 DEF LinesOnce
  <2>6. \A f, g \in Hours :
           f # g => (file'[f] \cup done'[f]) \cap (file'[g] \cup done'[g]) = {}
    <3> SUFFICES ASSUME NEW f \in Hours, NEW g \in Hours, f # g,
                        NEW l, l \in file'[f] \cup done'[f], l \in file'[g] \cup done'[g]
                 PROVE  FALSE
      OBVIOUS
    <3>1. l \in file[f] \cup done[f] /\ l \in file[g] \cup done[g]
      BY <2>3
    <3> QED BY <3>1 DEF LinesOnce
  <2>7. \A g \in Hours : \A l \in file'[g] \cup done'[g] : l.n <= spills'[l.e]
    BY <2>2, <2>3 DEF LinesOnce
  <2> QED BY <2>4, <2>5, <2>6, <2>7 DEF LinesOnce
<1>3. ASSUME UNCHANGED <<file, done, overwritten, spills>> PROVE LinesOnce'
  BY <1>3 DEF LinesOnce
<1>4. ASSUME NEW p, ReplayStart(p) \/ ReplayStep(p), ~ReplayRename(p) PROVE LinesOnce'
  BY <1>3, <1>4 DEF ReplayStart, ReplayStep, ReplayRead, ReplaySend, ReplayCheck, ReplayKeep, ReplayError,
     ReplayEnd, NextFile, diskVars, histVars, renameVars
<1>5. ASSUME NEW o, BrokerAppend(o) \/ Ack(o) \/ PublishFails(o)
                    \/ \E h \in Hours : SpillLost(o, h)
      PROVE  LinesOnce'
  BY <1>3, <1>5 DEF BrokerAppend, Ack, PublishFails, SpillLost, diskVars, histVars, renameVars
<1>6. ASSUME NEW e, Receive(e) \/ LateAppend(e) \/ LateExpire(e) PROVE LinesOnce'
  BY <1>3, <1>6 DEF Receive, LateAppend, LateExpire, diskVars, histVars, renameVars
<1>7. CASE Tick \/ Crash \/ UNCHANGED vars
  BY <1>3, <1>7 DEF Tick, Crash, vars, diskVars, histVars, renameVars
<1> QED BY <1>1, <1>2, <1>4, <1>5, <1>6, <1>7 DEF Next, PublishStep, ReplayStep

\* Only the publish of its own request answers for an event, and once.
LEMMA AcceptedStays ==
  ASSUME TypeOK, IngestOnce, [Next]_vars, NEW e \in Events, outcome[e] = "ACCEPTED"
  PROVE  outcome'[e] = "ACCEPTED"
<1>1. ASSUME NEW o \in Ops, NEW what, Complete(o, what) PROVE outcome'[e] = "ACCEPTED"
  <2>1. o \in Op /\ (o.by # Ingest \/ o.e # e)
    BY <1>1, OpsTyped DEF IngestOnce
  <2> QED BY <1>1, <2>1, CompleteOutcome
<1>2. ASSUME NEW o \in Ops, PublishStep(o) PROVE outcome'[e] = "ACCEPTED"
  BY <1>1, <1>2 DEF PublishStep, Ack, PublishFails, SpillWrite, SpillLost, ingestVars
<1>3. ASSUME NEW p, ReplayStart(p) \/ ReplayStep(p) PROVE outcome' = outcome
  BY <1>3 DEF ReplayStart, ReplayStep, ReplayRead, ReplaySend, ReplayCheck, ReplayRename, ReplayKeep,
     ReplayError, ReplayEnd, NextFile, ingestVars
<1> QED
  BY <1>2, <1>3
  DEF Next, Receive, BrokerAppend, LateAppend, LateExpire, Tick, Crash, vars, ingestVars

\* What was renamed after it was read is never counted among the unread later.
LEMMA RenamedStays ==
  ASSUME TypeOK, LinesOnce, [Next]_vars
  PROVE  Renamed \ missed \subseteq Renamed' \ missed'
<1>1. ASSUME NEW p \in Replayers, ReplayRename(p)
      PROVE  Renamed \cap missed' = Renamed \cap missed
  <2>1. PICK g \in Hours : g = cur[p]
    BY DEF TypeOK
  <2>2. missed' = missed \cup (file[g] \ snap[p])
    BY <1>1, <2>1 DEF ReplayRename
  <2>3. \A h \in Hours : file[g] \cap done[h] = {}
    BY DEF LinesOnce
  <2>4. file[g] \cap Renamed = {}
    BY <2>3 DEF LinesOnce, Renamed
  <2> QED BY <2>2, <2>4
<1>2. ASSUME NEW p, ReplayStart(p) \/ ReplayStep(p), ~ReplayRename(p)
      PROVE  missed' = missed
  BY <1>2 DEF ReplayStart, ReplayStep, ReplayRead, ReplaySend, ReplayCheck, ReplayKeep,
     ReplayError, ReplayEnd, NextFile, histVars, renameVars
<1>3. ASSUME NEW o, BrokerAppend(o) \/ PublishStep(o) PROVE missed' = missed
  BY <1>3 DEF BrokerAppend, PublishStep, Ack, PublishFails, SpillWrite, SpillLost, histVars,
     renameVars
<1>4. ASSUME NEW e, Receive(e) \/ LateAppend(e) \/ LateExpire(e) PROVE missed' = missed
  BY <1>4 DEF Receive, LateAppend, LateExpire, histVars, renameVars
<1>5. CASE Tick \/ Crash \/ UNCHANGED vars
  BY <1>5, RenamedStep DEF Tick, Crash, vars, histVars, renameVars
<1> QED BY <1>1, <1>2, <1>3, <1>4, <1>5, RenamedStep DEF Next

\* So nothing that was confirmed is taken back, and what is confirmed is in Kafka.
LEMMA ConfirmedStep ==
  ASSUME IndInv, IndInv', IngestOnce, LinesOnce, [Next]_vars
  PROVE  /\ Confirmed \subseteq Confirmed' /\ Confirmed' \subseteq Events
         /\ \A e \in Confirmed' : copies'[e] >= 1
<1>1. TypeOK
  BY DEF IndInv
<1>2. ASSUME NEW e \in Events, LineOf(e, Renamed \ missed)
      PROVE  LineOf(e, Renamed' \ missed')
  BY <1>1, <1>2, RenamedStays DEF LineOf
<1>3. Confirmed \subseteq Confirmed'
  BY <1>1, <1>2, AcceptedStays DEF Confirmed
<1>4. \A e \in Confirmed' : copies'[e] >= 1
  BY DEF Confirmed, LineOf, IndInv, AcceptedIsDelivered, DoneWasPublished
<1> QED BY <1>3, <1>4 DEF Confirmed

LEMMA NextHandOver ==
  IndInv /\ IndInv' /\ Known /\ IngestOnce /\ LinesOnce /\ [Next]_vars
    => [ALO!ALONext]_(ALO!aloVars)
<1> SUFFICES ASSUME IndInv, IndInv', Known, IngestOnce, LinesOnce, [Next]_vars
             PROVE  ALO!ALONext \/ UNCHANGED ALO!aloVars
  OBVIOUS
<1>1. ASSUME NEW e \in Events, Receive(e) PROVE ALO!Accept(e)
  <2>1. /\ received' = received \cup {e} /\ copies' = copies
        /\ outcome' = outcome /\ done' = done
        /\ missed' = missed /\ overwritten' = overwritten
    BY <1>1 DEF Receive, kafkaVars, diskVars, histVars, renameVars
  <2>2. Confirmed' = Confirmed
    BY <2>1 DEF Confirmed, Renamed
  <2> QED BY <2>1, <2>2 DEF ALO!Accept
<1>2. ASSUME NEW o \in Ops, BrokerAppend(o) PROVE o.e \in Events /\ ALO!Deliver(o.e)
  <2>1. /\ \E n \in {1, 2} : copies' = [copies EXCEPT ![o.e] = @ + n]
        /\ received' = received /\ outcome' = outcome /\ done' = done
        /\ missed' = missed /\ overwritten' = overwritten
    BY <1>2 DEF BrokerAppend, ingestVars, diskVars, histVars, renameVars
  <2>2. Confirmed' = Confirmed
    BY <2>1 DEF Confirmed, Renamed
  <2>3. o.e \in received /\ o.e \in Events
    BY OpsTyped DEF Known, IndInv
  <2> QED BY <2>1, <2>2, <2>3 DEF ALO!Deliver
<1>3. ASSUME NEW e \in Events, LateAppend(e) PROVE ALO!Deliver(e)
  <2>1. /\ copies' = [copies EXCEPT ![e] = @ + 1] /\ late[e] > 0
        /\ received' = received /\ outcome' = outcome /\ done' = done
        /\ missed' = missed /\ overwritten' = overwritten
    BY <1>3 DEF LateAppend, ingestVars, diskVars, histVars, renameVars
  <2>2. Confirmed' = Confirmed
    BY <2>1 DEF Confirmed, Renamed
  <2>3. e \in received
    BY <2>1 DEF Known
  <2> QED BY <2>1, <2>2, <2>3 DEF ALO!Deliver
<1>4. ASSUME copies' = copies, received' = received
      PROVE  Confirmed' \in SUBSET Events /\ ALO!Confirm(Confirmed')
  <2>1. /\ Confirmed \subseteq Confirmed' /\ Confirmed' \subseteq Events
        /\ \A e \in Confirmed' : copies'[e] >= 1
    BY ConfirmedStep
  <2>2. Confirmed' = Confirmed \cup Confirmed'
    BY <2>1
  <2> QED BY <1>4, <2>1, <2>2 DEF ALO!Confirm
<1>5. \/ \E e \in Events : Receive(e) \/ LateAppend(e)
      \/ \E o \in Ops : BrokerAppend(o)
      \/ copies' = copies /\ received' = received
  <2>1. ASSUME NEW o, PublishStep(o) PROVE copies' = copies /\ received' = received
    BY <2>1 DEF PublishStep, Ack, PublishFails, SpillWrite, SpillLost, kafkaVars, ingestVars
  <2>2. ASSUME NEW p, ReplayStart(p) \/ ReplayStep(p)
        PROVE  copies' = copies /\ received' = received
    BY <2>2 DEF ReplayStart, ReplayStep, ReplayRead, ReplaySend, ReplayCheck, ReplayRename, ReplayKeep,
       ReplayError, ReplayEnd, NextFile, kafkaVars, ingestVars
  <2> QED
    BY <2>1, <2>2 DEF Next, LateExpire, Tick, Crash, vars, kafkaVars, ingestVars
<1> QED BY <1>1, <1>2, <1>3, <1>4, <1>5 DEF ALO!ALONext

\* The collector, replays and crashes included, is an at-least-once hand-over of
\* the events it confirms, and never takes a confirmation back
\* (EventPublisher.kt:38-45, AdminController.kt:94-97).
THEOREM CollectorImplementsContract == Spec => Contract
<1>1. Init => ALO!ALOInit
  BY DEF Init, ALO!ALOInit, Confirmed, LineOf, Renamed
<1>2. Known /\ IngestOnce /\ LinesOnce /\ IndInv /\ [Next]_vars
        => Known' /\ IngestOnce' /\ LinesOnce'
  BY NextKnown, NextIngest, NextLines DEF IndInv
<1>3. Spec => [](Known /\ IngestOnce /\ LinesOnce)
  BY InitHandOver, <1>2, IndInvCorrect, PTL DEF Spec
<1> QED
  BY <1>1, <1>3, NextHandOver, IndInvCorrect, PTL DEF Spec, Contract, ALO!ALOSpec
=============================================================================
