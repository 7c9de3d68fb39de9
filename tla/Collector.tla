----------------------------- MODULE Collector -----------------------------
(***************************************************************************)
(* The fail-open path of the collector: every event is published to Kafka  *)
(* or, when that takes longer than the publish timeout, appended to an     *)
(* hourly fallback file, and answered in either case.  An operator replays *)
(* the pending files through the same publisher.                           *)
(*                                                                         *)
(* One action per step the request threads, the replays, the broker and    *)
(* the clock can be interleaved with.  The order of lines inside a file    *)
(* and of records inside a topic does not matter here (replayFile reads a  *)
(* file and publishes its lines concurrently), so both are sets or counts. *)
(*                                                                         *)
(* Not modelled: the counters other than the pending gauge, the batch      *)
(* response (it only adds up outcomes), a replay that meets a half-written *)
(* or unreadable line.                                                     *)
(***************************************************************************)
EXTENDS Integers, FiniteSets

CONSTANTS Events,       \* bound: events ever received
          Invalid,      \* those that validation or the router sends to the DLQ
          Replayers,    \* concurrent POST /v1/admin/fallback/replay calls
          Ingest,       \* stands for the request threads where a replayer could
          LastHour,     \* bound: hours the clock may reach
          Concurrency,  \* the 32 of replayFile's flatMap
          DiskFails,    \* may writing the fallback file fail
          Crashes,      \* may the process die
          MaxTimeouts,  \* bound: failed publishes
          MaxReplays    \* bound: replay calls

ASSUME CollectorAssumption ==
  /\ Invalid \subseteq Events
  /\ Ingest \notin Replayers
  /\ LastHour \in Nat
  /\ Concurrency \in Nat \ {0}
  /\ DiskFails \in BOOLEAN /\ Crashes \in BOOLEAN
  /\ MaxTimeouts \in Nat /\ MaxReplays \in Nat

Hours == 0..LastHour

\* A line of a fallback file: the n-th time event e was spilled.
Line == [e : Events, n : Nat]

\* A call of publish: by a request thread (n = 0) or by a replayer for a line.
Op == [by : Replayers \cup {Ingest}, e : Events, n : Nat]

VARIABLES
  received,   \* events the request threads took up
  outcome,    \* outcome[e]: what the client was told
  sending,    \* publishes the broker has not appended
  appended,   \* publishes appended but not acknowledged
  spilling,   \* publishes on their way to the file of an hour: <<op, hour>>
  copies,     \* copies[e]: records of e in its topic
  late,       \* late[e]: sends of e that outlived their publish
  hour,       \* the clock, in hours
  file,       \* file[h]: lines of fallback-<h>.jsonl, {} if there is none
  done,       \* done[h]: lines of fallback-<h>.jsonl.done, {} if there is none
  backlog,    \* the collector.fallback.pending gauge
  rpc,        \* rpc[p]: where replay p is
  todo,       \* todo[p]: hours of the files replay p has not come to
  cur,        \* cur[p]: hour of the file replay p is at
  snap,       \* snap[p]: the lines readAllLines returned
  rest,       \* rest[p]: those not yet handed to publish
  ok,         \* ok[p]: lines of this file that were accepted
  failed,     \* failed[p]: lines of this file that were not
  total,      \* total[p]: acc[0] over all files of this replay
  result,     \* result[p]: answer of the last replay of p
  lost,       \* history: events whose fallback write failed
  missed,     \* history: lines renamed to .done although no replay read them
  overwritten,\* history: lines of .done files that a rename replaced
  overtaken,  \* history: replays about to rename onto the .done of another
  spills,     \* history: spills[e], lines ever written for e
  timeouts,   \* history: failed publishes so far
  replays     \* history: replays so far

ingestVars == <<received, outcome>>
opVars     == <<sending, appended, spilling>>
kafkaVars  == <<copies, late>>
diskVars   == <<file, done>>
replayVars == <<rpc, todo, cur, snap, rest, ok, failed, total, result>>
renameVars == <<missed, overwritten, overtaken>>
histVars   == <<lost, renameVars, spills, timeouts, replays>>
vars == <<ingestVars, opVars, kafkaVars, hour, diskVars, backlog, replayVars,
          histVars>>

TypeOK ==
  /\ received \in SUBSET Events
  /\ outcome \in [Events -> {"none", "ACCEPTED", "FALLBACK", "INVALID"}]
  /\ sending \in SUBSET Op /\ appended \in SUBSET Op
  /\ spilling \in SUBSET (Op \X Hours)
  /\ copies \in [Events -> Nat] /\ late \in [Events -> Nat]
  /\ hour \in Hours
  /\ file \in [Hours -> SUBSET Line] /\ done \in [Hours -> SUBSET Line]
  /\ backlog \in Int
  /\ rpc \in [Replayers -> {"idle", "next", "publish", "rename"}]
  /\ todo \in [Replayers -> SUBSET Hours]
  /\ cur \in [Replayers -> Hours]
  /\ snap \in [Replayers -> SUBSET Line] /\ rest \in [Replayers -> SUBSET Line]
  /\ ok \in [Replayers -> Nat] /\ failed \in [Replayers -> Nat]
  /\ total \in [Replayers -> Nat]
  /\ result \in [Replayers -> {"none", "ok", "error"}]
  /\ lost \in SUBSET Events /\ missed \in SUBSET Line
  /\ overwritten \in SUBSET Line /\ overtaken \in SUBSET Replayers
  /\ spills \in [Events -> Nat]
  /\ timeouts \in Nat /\ replays \in Nat

Init ==
  /\ received = {}
  /\ outcome = [e \in Events |-> "none"]
  /\ sending = {} /\ appended = {} /\ spilling = {}
  /\ copies = [e \in Events |-> 0] /\ late = [e \in Events |-> 0]
  /\ hour = 0
  /\ file = [h \in Hours |-> {}] /\ done = [h \in Hours |-> {}]
  /\ backlog = 0
  /\ rpc = [p \in Replayers |-> "idle"]
  /\ todo = [p \in Replayers |-> {}]
  /\ cur = [p \in Replayers |-> 0]
  /\ snap = [p \in Replayers |-> {}] /\ rest = [p \in Replayers |-> {}]
  /\ ok = [p \in Replayers |-> 0] /\ failed = [p \in Replayers |-> 0]
  /\ total = [p \in Replayers |-> 0]
  /\ result = [p \in Replayers |-> "none"]
  /\ lost = {} /\ missed = {} /\ overwritten = {} /\ overtaken = {}
  /\ spills = [e \in Events |-> 0]
  /\ timeouts = 0 /\ replays = 0

-----------------------------------------------------------------------------
(* EventIngestService.ingest and EventPublisher.publish *)

\* A request hands an event to publish: to the topic its type maps to, or,
\* when validation or the router rejects it, wrapped up to dlq.invalid.
Receive(e) ==
  /\ e \notin received
  /\ received' = received \cup {e}
  /\ sending' = sending \cup {[by |-> Ingest, e |-> e, n |-> 0]}
  /\ UNCHANGED <<outcome, appended, spilling, kafkaVars, hour, diskVars, backlog,
                 replayVars, histVars>>

\* The broker appends the record; with acks=1 and one retry the producer is
\* not idempotent, so a lost response appends it a second time.
BrokerAppend(o) ==
  /\ o \in sending
  /\ sending' = sending \ {o}
  /\ appended' = appended \cup {o}
  /\ \E n \in {1, 2} : copies' = [copies EXCEPT ![o.e] = @ + n]
  /\ UNCHANGED <<ingestVars, spilling, late, hour, diskVars, backlog, replayVars,
                 histVars>>

\* The Mono of publish completes: a request thread answers the client, where
\* toDlq turns any outcome into INVALID; a replay counts it for its file.
Complete(o, what) ==
  IF o.by = Ingest
  THEN /\ outcome' = [outcome EXCEPT
             ![o.e] = IF o.e \in Invalid THEN "INVALID" ELSE what]
       /\ UNCHANGED <<ok, failed>>
  ELSE /\ IF what = "ACCEPTED"
          THEN ok' = [ok EXCEPT ![o.by] = @ + 1] /\ UNCHANGED failed
          ELSE failed' = [failed EXCEPT ![o.by] = @ + 1] /\ UNCHANGED ok
       /\ UNCHANGED outcome

FallbackOutcome(o) == "FALLBACK"

AckUnsent(o) ==                  \* mutant: acks=0, done when it is in the buffer
  /\ o \in sending \cup appended
  /\ sending' = sending \ {o}
  /\ appended' = appended \ {o}
  /\ \E kept \in {0, 1} : late' = [late EXCEPT ![o.e] = @ + kept]
  /\ Complete(o, "ACCEPTED")
  /\ UNCHANGED <<received, spilling, copies, hour, diskVars, backlog,
                 rpc, todo, cur, snap, rest, total, result, histVars>>

\* The acknowledgement arrives within the publish timeout.
Ack(o) ==
  /\ o \in appended
  /\ appended' = appended \ {o}
  /\ Complete(o, "ACCEPTED")
  /\ UNCHANGED <<received, sending, spilling, kafkaVars, hour, diskVars, backlog,
                 rpc, todo, cur, snap, rest, total, result, histVars>>

AwaitBroker(o) ==                \* mutant: no timeout on the publish
  /\ timeouts < MaxTimeouts
  /\ timeouts' = timeouts + 1
  /\ o \in appended
  /\ appended' = appended \ {o}
  /\ spilling' = spilling \cup {<<o, hour>>}
  /\ UNCHANGED <<ingestVars, sending, kafkaVars, hour, diskVars, backlog,
                 replayVars, lost, renameVars, spills, replays>>

\* send() fails, or publish-timeout-ms passes first; the producer may keep
\* the record until delivery.timeout.ms, one second longer.  onErrorResume
\* turns to the fallback file of the current hour.
PublishFails(o) ==
  /\ timeouts < MaxTimeouts
  /\ timeouts' = timeouts + 1
  /\ o \in sending \cup appended
  /\ \E kept \in {0, 1} : late' = [late EXCEPT ![o.e] = @ + kept]
  /\ sending' = sending \ {o}
  /\ appended' = appended \ {o}
  /\ spilling' = spilling \cup {<<o, hour>>}
  /\ UNCHANGED <<ingestVars, copies, hour, diskVars, backlog, replayVars,
                 lost, renameVars, spills, replays>>

\* FallbackWriter.append, then the metric and the outcome.
SpillWrite(o, h) ==
  /\ <<o, h>> \in spilling
  /\ spilling' = spilling \ {<<o, h>>}
  /\ file' = [file EXCEPT ![h] = @ \cup {[e |-> o.e, n |-> spills[o.e] + 1]}]
  /\ spills' = [spills EXCEPT ![o.e] = @ + 1]
  /\ backlog' = backlog + 1
  /\ Complete(o, FallbackOutcome(o))
  /\ UNCHANGED <<received, sending, appended, kafkaVars, hour, done, rpc, todo,
                 cur, snap, rest, total, result, lost, renameVars, timeouts, replays>>

\* The write fails: append logs the lost event and returns, so the gauge and
\* the outcome are the same as for a written line.
SpillLost(o, h) ==
  /\ DiskFails
  /\ <<o, h>> \in spilling
  /\ spilling' = spilling \ {<<o, h>>}
  /\ lost' = lost \cup {o.e}
  /\ backlog' = backlog + 1
  /\ Complete(o, FallbackOutcome(o))
  /\ UNCHANGED <<received, sending, appended, kafkaVars, hour, diskVars, rpc, todo,
                 cur, snap, rest, total, result, renameVars, spills, timeouts, replays>>

\* The producer sends, or gives up on, a record whose publish has failed.
LateAppend(e) ==
  /\ late[e] > 0
  /\ late' = [late EXCEPT ![e] = @ - 1]
  /\ copies' = [copies EXCEPT ![e] = @ + 1]
  /\ UNCHANGED <<ingestVars, opVars, hour, diskVars, backlog, replayVars, histVars>>

LateExpire(e) ==
  /\ late[e] > 0
  /\ late' = [late EXCEPT ![e] = @ - 1]
  /\ UNCHANGED <<ingestVars, opVars, copies, hour, diskVars, backlog, replayVars,
                 histVars>>

\* A new hour, and with it a new fallback file.
Tick ==
  /\ hour < LastHour
  /\ hour' = hour + 1
  /\ UNCHANGED <<ingestVars, opVars, kafkaVars, diskVars, backlog, replayVars,
                 histVars>>

-----------------------------------------------------------------------------
(* AdminController.replay *)

PendingHours == {h \in Hours : file[h] # {}}

\* pendingFiles: the list of files is read once, at the start.
ReplayStart(p) ==
  /\ rpc[p] = "idle"
  /\ PendingHours # {}
  /\ replays < MaxReplays
  /\ replays' = replays + 1
  /\ rpc' = [rpc EXCEPT ![p] = "next"]
  /\ todo' = [todo EXCEPT ![p] = PendingHours]
  /\ total' = [total EXCEPT ![p] = 0]
  /\ UNCHANGED <<ingestVars, opVars, kafkaVars, hour, diskVars, backlog, cur, snap,
                 rest, ok, failed, result, lost, renameVars, spills, timeouts>>

RenameFirst(p) ==                \* mutant: .done before the lines are published
  /\ rpc[p] = "next"
  /\ \E h \in todo[p] :
       /\ \A g \in todo[p] : h <= g
       /\ file[h] # {}
       /\ todo' = [todo EXCEPT ![p] = @ \ {h}]
       /\ cur' = [cur EXCEPT ![p] = h]
       /\ snap' = [snap EXCEPT ![p] = file[h]]
       /\ rest' = [rest EXCEPT ![p] = file[h]]
       /\ done' = [done EXCEPT ![h] = @ \cup file[h]]
       /\ file' = [file EXCEPT ![h] = {}]
  /\ ok' = [ok EXCEPT ![p] = 0]
  /\ failed' = [failed EXCEPT ![p] = 0]
  /\ rpc' = [rpc EXCEPT ![p] = "publish"]
  /\ UNCHANGED <<ingestVars, opVars, kafkaVars, hour, backlog, total, result,
                 histVars>>

\* readAllLines of the next file in name order.
ReplayRead(p) ==
  /\ rpc[p] = "next"
  /\ \E h \in todo[p] :
       /\ \A g \in todo[p] : h <= g
       /\ file[h] # {}
       /\ todo' = [todo EXCEPT ![p] = @ \ {h}]
       /\ cur' = [cur EXCEPT ![p] = h]
       /\ snap' = [snap EXCEPT ![p] = file[h]]
       /\ rest' = [rest EXCEPT ![p] = file[h]]
  /\ ok' = [ok EXCEPT ![p] = 0]
  /\ failed' = [failed EXCEPT ![p] = 0]
  /\ rpc' = [rpc EXCEPT ![p] = "publish"]
  /\ UNCHANGED <<ingestVars, opVars, kafkaVars, hour, diskVars, backlog, total,
                 result, histVars>>

OpsOf(p) == {o \in sending \cup appended \cup {s[1] : s \in spilling} : o.by = p}

PermitsKept(p, l) ==             \* mutant: no slot is freed when a line completes
  /\ rpc[p] = "publish"
  /\ l \in rest[p]
  /\ Cardinality(snap[p] \ rest[p]) < Concurrency
  /\ rest' = [rest EXCEPT ![p] = @ \ {l}]
  /\ sending' = sending \cup {[by |-> p, e |-> l.e, n |-> l.n]}
  /\ UNCHANGED <<ingestVars, appended, spilling, kafkaVars, hour, diskVars, backlog,
                 rpc, todo, cur, snap, ok, failed, total, result, histVars>>

\* publisher.publish for one line, at most Concurrency at a time.
ReplaySend(p, l) ==
  /\ rpc[p] = "publish"
  /\ l \in rest[p]
  /\ Cardinality(OpsOf(p)) < Concurrency
  /\ rest' = [rest EXCEPT ![p] = @ \ {l}]
  /\ sending' = sending \cup {[by |-> p, e |-> l.e, n |-> l.n]}
  /\ UNCHANGED <<ingestVars, appended, spilling, kafkaVars, hour, diskVars, backlog,
                 rpc, todo, cur, snap, ok, failed, total, result, histVars>>

\* Every line of the file has completed.
FileDone(p) == rpc[p] = "publish" /\ rest[p] = {} /\ OpsOf(p) = {}

NextFile(p) ==
  /\ rpc' = [rpc EXCEPT ![p] = "next"]
  /\ total' = [total EXCEPT ![p] = @ + ok[p]]
  /\ snap' = [snap EXCEPT ![p] = {}]
  /\ UNCHANGED <<ingestVars, opVars, kafkaVars, hour, backlog, todo, cur, rest, ok,
                 failed, result, lost, spills, timeouts, replays>>

\* acc[1] == 0
AllAccepted(p) == failed[p] = 0

CheckReplacing(p) ==             \* mutant: REPLACE_EXISTING
  /\ FileDone(p) /\ AllAccepted(p)
  /\ file[cur[p]] # {}
  /\ rpc' = [rpc EXCEPT ![p] = "rename"]
  /\ UNCHANGED <<ingestVars, opVars, kafkaVars, hour, diskVars, backlog, todo, cur,
                 snap, rest, ok, failed, total, result, histVars>>

\* Files.move looks at both names first: the file must be there, the .done
\* file must not.
ReplayCheck(p) ==
  /\ FileDone(p) /\ AllAccepted(p)
  /\ file[cur[p]] # {} /\ done[cur[p]] = {}
  /\ rpc' = [rpc EXCEPT ![p] = "rename"]
  /\ UNCHANGED <<ingestVars, opVars, kafkaVars, hour, diskVars, backlog, todo, cur,
                 snap, rest, ok, failed, total, result, histVars>>

\* Then rename(2), of the file as it is by now and onto whatever has the name
\* by now: it replaces the .done file of a replay that came first.
ReplayRename(p) ==
  LET h == cur[p]
  IN  /\ rpc[p] = "rename"
      /\ file[h] # {}
      /\ file' = [file EXCEPT ![h] = {}]
      /\ done' = [done EXCEPT ![h] = file[h]]
      /\ missed' = missed \cup (file[h] \ snap[p])
      /\ overwritten' = overwritten \cup done[h]
      /\ overtaken' = {q \in Replayers \ {p} :
                         q \in overtaken \/ (rpc[q] = "rename" /\ cur[q] = h)}
      /\ NextFile(p)

\* Some line went back to a fallback file: the file stays.
ReplayKeep(p) ==
  /\ FileDone(p) /\ ~ AllAccepted(p)
  /\ NextFile(p)
  /\ UNCHANGED <<diskVars, renameVars>>

\* NoSuchFileException or FileAlreadyExistsException: the whole replay ends
\* with an error, the later files untouched and the gauge as it was.
ReplayError(p) ==
  /\ \/ /\ rpc[p] = "next"
        /\ \E h \in todo[p] : (\A g \in todo[p] : h <= g) /\ file[h] = {}
     \/ /\ FileDone(p) /\ AllAccepted(p)
        /\ file[cur[p]] = {} \/ done[cur[p]] # {}
     \/ rpc[p] = "rename" /\ file[cur[p]] = {}
  /\ overtaken' = overtaken \ {p}
  /\ rpc' = [rpc EXCEPT ![p] = "idle"]
  /\ todo' = [todo EXCEPT ![p] = {}]
  /\ snap' = [snap EXCEPT ![p] = {}]
  /\ result' = [result EXCEPT ![p] = "error"]
  /\ UNCHANGED <<ingestVars, opVars, kafkaVars, hour, diskVars, backlog, cur, rest,
                 ok, failed, total, lost, missed, overwritten, spills, timeouts, replays>>

\* metrics.fallbackDrained, then the answer.
ReplayEnd(p) ==
  /\ rpc[p] = "next" /\ todo[p] = {}
  /\ backlog' = backlog - total[p]
  /\ rpc' = [rpc EXCEPT ![p] = "idle"]
  /\ result' = [result EXCEPT ![p] = "ok"]
  /\ UNCHANGED <<ingestVars, opVars, kafkaVars, hour, diskVars, todo, cur, snap,
                 rest, ok, failed, total, histVars>>

-----------------------------------------------------------------------------

\* The process dies and starts again.  The files are on a volume; records in
\* the producer may or may not get out; the gauge starts at 0.
Crash ==
  /\ Crashes
  /\ timeouts < MaxTimeouts
  /\ timeouts' = timeouts + 1
  /\ late' = [e \in Events |-> late[e] + Cardinality({o \in sending : o.e = e})]
  /\ sending' = {} /\ appended' = {} /\ spilling' = {}
  /\ backlog' = 0
  /\ rpc' = [p \in Replayers |-> "idle"]
  /\ todo' = [p \in Replayers |-> {}]
  /\ snap' = [p \in Replayers |-> {}] /\ rest' = [p \in Replayers |-> {}]
  /\ result' = [p \in Replayers |-> "none"]
  /\ overtaken' = {}
  /\ UNCHANGED <<ingestVars, copies, hour, diskVars, cur, ok, failed, total,
                 lost, missed, overwritten, spills, replays>>

Ops == sending \cup appended \cup {s[1] : s \in spilling}

PublishStep(o) ==
  \/ Ack(o)
  \/ PublishFails(o)
  \/ \E h \in Hours : SpillWrite(o, h) \/ SpillLost(o, h)

ReplayStep(p) ==
  \/ ReplayRead(p)
  \/ \E l \in rest[p] : ReplaySend(p, l)
  \/ ReplayCheck(p)
  \/ ReplayRename(p)
  \/ ReplayKeep(p)
  \/ ReplayError(p)
  \/ ReplayEnd(p)

Next ==
  \/ \E e \in Events : Receive(e) \/ LateAppend(e) \/ LateExpire(e)
  \/ \E o \in Ops : BrokerAppend(o) \/ PublishStep(o)
  \/ \E p \in Replayers : ReplayStart(p) \/ ReplayStep(p)
  \/ Tick
  \/ Crash

Spec == Init /\ [][Next]_vars

(***************************************************************************)
(* The collector's own threads and its timer are fair, the broker is not:  *)
(* the answer must not depend on Kafka.                                    *)
(***************************************************************************)
FairSpec ==
  /\ Spec
  /\ WF_vars(\E o \in Ops : PublishStep(o))
  /\ \A p \in Replayers : WF_vars(ReplayStep(p))

-----------------------------------------------------------------------------
(* Safety *)

LineOf(e, S) == \E l \in S : l.e = e

\* e waits in a fallback file that replays still look at.
Pending(e) == \E h \in Hours : LineOf(e, file[h])

(***************************************************************************)
(* An event answered as ACCEPTED is in its topic (EventPublisher.kt:39-45).*)
(***************************************************************************)
AcceptedIsDelivered ==
  \A e \in Events : outcome[e] = "ACCEPTED" => copies[e] >= 1

(***************************************************************************)
(* Where an answered event can be, whatever timed out, was replayed or     *)
(* crashed: in Kafka, in a pending fallback file, lost to a failed write   *)
(* (FallbackWriter.kt:64), or in a line that a replay renamed to .done     *)
(* without having read it.  There is no fifth way.                         *)
(***************************************************************************)
AnsweredIsKept ==
  \A e \in Events : outcome[e] # "none" =>
    copies[e] >= 1 \/ Pending(e) \/ e \in lost \/ LineOf(e, missed)

\* Lines that were ever renamed to .done.
Renamed == overwritten \cup UNION {done[h] : h \in Hours}

(***************************************************************************)
(* A line a replay did read is renamed to .done only when its event is in  *)
(* Kafka (AdminController.kt:94-97).                                       *)
(***************************************************************************)
DoneWasPublished == \A l \in Renamed \ missed : copies[l.e] >= 1

(***************************************************************************)
(* What AnsweredIsKept and DoneWasPublished rest on, and what makes them   *)
(* inductive: a publish waiting for its acknowledgement has its record in  *)
(* the topic, and as long as no line of a file has failed each line a      *)
(* replay took is published or under way (EventPublisher.kt:38-45,         *)
(* AdminController.kt:75-92).                                              *)
(***************************************************************************)
AppendedIsDelivered == \A o \in appended : copies[o.e] >= 1

ReplayCovers(p) ==
  /\ rpc[p] = "publish" =>
       /\ rest[p] \subseteq snap[p]
       /\ failed[p] = 0 => \A l \in snap[p] \ rest[p] :
            copies[l.e] >= 1 \/ \E o \in Ops : o.by = p /\ o.e = l.e
  /\ rpc[p] = "rename" => \A l \in snap[p] : copies[l.e] >= 1

FiniteOps == IsFiniteSet(sending)

IndInv ==
  /\ TypeOK
  /\ FiniteOps
  /\ AppendedIsDelivered /\ AcceptedIsDelivered
  /\ \A p \in Replayers : ReplayCovers(p)
  /\ DoneWasPublished /\ AnsweredIsKept

(***************************************************************************)
(* A line that waits in a fallback file is never destroyed, however many   *)
(* replays work on the file.  A line of a .done file is destroyed only by  *)
(* a replay that another overtook between its two looks at the name        *)
(* (AdminController.kt:96), and its event is then in Kafka, or was one of  *)
(* those renamed unread.                                                   *)
(***************************************************************************)
Kept(h) == file[h] \cup done[h]
LinesDestroyedOnlyWhenOvertaken ==
  [][\A h \in Hours :
       /\ file[h] \subseteq Kept(h)'
       /\ \A l \in done[h] \ Kept(h)' :
            /\ \E p \in overtaken : cur[p] = h
            /\ copies[l.e] >= 1 \/ l \in missed]_vars

\* What it rests on: the name is free when a replay renames, unless overtaken.
NameIsFree ==
  \A p \in Replayers : rpc[p] = "rename" /\ p \notin overtaken => done[cur[p]] = {}

(***************************************************************************)
(* What the collector hands over itself it hands over at least once, and   *)
(* it takes no word back: an event is accepted when a request thread takes *)
(* it up, and confirmed when its client is told ACCEPTED or a replay has   *)
(* renamed a line of it that it had read (EventPublisher.kt:38-45,         *)
(* AdminController.kt:94-97).                                              *)
(***************************************************************************)
Confirmed ==
  {e \in Events : outcome[e] = "ACCEPTED" \/ LineOf(e, Renamed \ missed)}

ALO == INSTANCE AtLeastOnce WITH
  Msg <- Events,
  accepted <- received,
  copies <- copies,
  confirmed <- Confirmed

Contract == ALO!ALOSpec

(***************************************************************************)
(* With one replay at a time, a replay whose lines are all accepted        *)
(* renames its files and answers (AdminController.kt:49).  Refuted: when   *)
(* the same hour was replayed before, its .done file is in the way, the    *)
(* replay ends with an error and the file stays pending for ever.          *)
(***************************************************************************)
ReplaySucceeds == \A p \in Replayers : result[p] # "error"

-----------------------------------------------------------------------------
(* Liveness, under FairSpec *)

(***************************************************************************)
(* Fail-open: every received event is answered, even if the broker never   *)
(* takes a record again (EventPublisher.kt:21-22).                         *)
(***************************************************************************)
EveryEventAnswered ==
  \A e \in Events : e \in received ~> outcome[e] # "none"

(***************************************************************************)
(* Every replay comes to an end, in the same circumstances                 *)
(* (AdminController.kt:59-73).                                             *)
(***************************************************************************)
EveryReplayEnds == \A p \in Replayers : rpc[p] # "idle" ~> rpc[p] = "idle"
=============================================================================
