---------------------------- MODULE RedisWriter ----------------------------
(***************************************************************************)
(* redis-writer/writer.py: one consumer copies the window results, the     *)
(* late events and the alerts of the Flink job from Kafka to Redis, and an *)
(* HTTP thread sums the results over a range of minutes.                   *)
(*                                                                         *)
(* The consumer commits in the background (enable.auto.commit): the offset *)
(* of a message counts as done as soon as poll has returned it, before its *)
(* handler has run.  A pipeline is one MULTI/EXEC, so a handler is applied *)
(* whole or not at all, and a timeout leaves open which.  Redis runs       *)
(* without persistence (docker-compose.yml 92-97): a restart empties it.   *)
(*                                                                         *)
(* Not modelled: the counters of STATS, which are only logged and shown;   *)
(* the descriptive fields of a hash; the set agg:campaigns, which nobody   *)
(* reads; an eviction by volatile-ttl; Kafka deleting old records.         *)
(***************************************************************************)
EXTENDS Integers, Sequences, FiniteSets, Functions

CONSTANTS Partitions,  \* the partitions of the three topics
          Log,         \* Log[p]: what Flink writes to p, in order
          Campaigns,
          Minute,      \* ticks per minute
          Ttl,         \* AGG_TTL_SECONDS, in ticks
          AlertCap,    \* entries kept in alerts:recent
          MaxNow,      \* bound: the clock
          Faults,      \* the kinds of fault a run may meet
          MaxFaults    \* bound: faults per run

FaultKind == {"skip", "timeout", "crash", "stop", "wipe", "query"}
Kinds == {"agg", "late", "alert"}
NoTime == -1           \* a late event without event_time

\* A message: a window result (time is window_start, count stands for the five
\* counters), a late event (time is its event_time) or an alert.
Record == [kind : Kinds, campaign : Campaigns, time : Nat \cup {NoTime}, count : Nat]

ASSUME WriterAssumption ==
  /\ IsFiniteSet(Partitions)
  /\ Log \in [Partitions -> Seq(Record)]
  /\ \A p \in Partitions : \A i \in 1..Len(Log[p]) :
       Log[p][i].kind = "agg" => Log[p][i].time # NoTime
  /\ Minute \in Nat \ {0}
  /\ Ttl \in Nat \ {0}
  /\ AlertCap \in Nat
  /\ MaxNow \in Nat
  /\ Faults \subseteq FaultKind
  /\ MaxFaults \in Nat

Messages == UNION {{p} \X (1..Len(Log[p])) : p \in Partitions}
RecordOf(m) == Log[m[1]][m[2]]
IsKind(m, kind) == RecordOf(m).kind = kind

MinuteKey(t) == (t \div Minute) * Minute
Times == {RecordOf(m).time : m \in Messages} \ {NoTime}
Minutes == {MinuteKey(t) : t \in Times}
Keys == Campaigns \X Minutes
KeyOf(m) == <<RecordOf(m).campaign, MinuteKey(RecordOf(m).time)>>

NoMsg == <<>>
NoOffset == -1         \* the group has never committed the partition

VARIABLES
  now,         \* the clock
  end,         \* end[p]: records of Log[p] written so far
  up,          \* the process runs
  pos,         \* pos[p]: position of the consumer
  hand,        \* the message poll returned, until its handler is done
  committed,   \* committed[p]: the offset of group redis-writer
  hash,        \* agg:1m:<campaign>:<minute>: its count and when it expires
  index,       \* members of agg:index, scored by their minute
  lateMinute,  \* late:1m:<minute>: its count and when it expires
  lateTotal,   \* late:total
  alerts,      \* alerts:recent, newest first
  alertsTotal, \* alerts:total
  applied,     \* history: applied[m], times m was applied to this Redis
  latest,      \* history: the last result applied to this Redis, per key
  lost,        \* history: messages a fault skipped
  wiped,       \* history: messages that were only in an emptied Redis
  faults,      \* history: faults so far
  crashes      \* history: crashes among them

topicVars    == <<now, end>>
consumerVars == <<up, pos, hand, committed>>
redisVars    == <<hash, index, lateMinute, lateTotal, alerts, alertsTotal>>
tallyVars    == <<applied, latest>>
lossVars     == <<lost, wiped, faults, crashes>>
writerVars   == <<topicVars, consumerVars, redisVars, tallyVars, lossVars>>

Entry == [n : Nat, exp : Nat]
NoEntry == [n |-> 0, exp |-> 0]
NoResult == -1

TypeOK ==
  /\ now \in 0..MaxNow
  /\ end \in [Partitions -> Nat] /\ \A p \in Partitions : end[p] <= Len(Log[p])
  /\ up \in BOOLEAN
  /\ pos \in [Partitions -> Nat] /\ \A p \in Partitions : pos[p] <= end[p]
  /\ hand \in Messages \cup {NoMsg}
  /\ committed \in [Partitions -> Nat \cup {NoOffset}]
  /\ hash \in [Keys -> Entry]
  /\ index \subseteq Keys
  /\ lateMinute \in [Minutes -> Entry]
  /\ lateTotal \in Nat
  /\ alerts \in Seq(Messages)
  /\ alertsTotal \in Nat
  /\ applied \in [Messages -> Nat]
  /\ latest \in [Keys -> Nat \cup {NoResult}]
  /\ lost \subseteq Messages
  /\ wiped \subseteq Messages
  /\ faults \in 0..MaxFaults
  /\ crashes \in Nat

EmptyRedis ==
  /\ hash' = [k \in Keys |-> NoEntry]
  /\ index' = {}
  /\ lateMinute' = [t \in Minutes |-> NoEntry]
  /\ lateTotal' = 0
  /\ alerts' = <<>>
  /\ alertsTotal' = 0

Init ==
  /\ now = 0
  /\ end = [p \in Partitions |-> 0]
  /\ up = FALSE
  /\ pos = [p \in Partitions |-> 0]
  /\ hand = NoMsg
  /\ committed = [p \in Partitions |-> NoOffset]
  /\ hash = [k \in Keys |-> NoEntry]
  /\ index = {}
  /\ lateMinute = [t \in Minutes |-> NoEntry]
  /\ lateTotal = 0
  /\ alerts = <<>>
  /\ alertsTotal = 0
  /\ applied = [m \in Messages |-> 0]
  /\ latest = [k \in Keys |-> NoResult]
  /\ lost = {}
  /\ wiped = {}
  /\ faults = 0
  /\ crashes = 0

Fault(kind) ==
  /\ kind \in Faults
  /\ faults < MaxFaults
  /\ faults' = faults + 1

-----------------------------------------------------------------------------
(* The topics and the clock *)

\* Flink writes a result after its window has started, a late event after it
\* happened.
Produce(p) ==
  /\ end[p] < Len(Log[p])
  /\ Log[p][end[p] + 1].time <= now
  /\ end' = [end EXCEPT ![p] = @ + 1]
  /\ UNCHANGED <<now, consumerVars, redisVars, tallyVars, lossVars>>

Tick ==
  /\ now < MaxNow
  /\ now' = now + 1
  /\ UNCHANGED <<end, consumerVars, redisVars, tallyVars, lossVars>>

-----------------------------------------------------------------------------
(* The handlers: what one pipeline does to Redis *)

\* A key that has expired is absent.
Alive(entry) == entry.exp > now
Incr(entry) == [n |-> IF Alive(entry) THEN entry.n + 1 ELSE 1, exp |-> now + Ttl]

\* zremrangebyscore agg:index 0 now-TTL
Trim(ks) == {k \in ks : k[2] > now - Ttl}

HandleAgg(m) ==
  /\ hash' = [hash EXCEPT ![KeyOf(m)] = [n |-> RecordOf(m).count, exp |-> now + Ttl]]
  /\ index' = Trim(index \cup {KeyOf(m)})
  /\ latest' = [latest EXCEPT ![KeyOf(m)] = RecordOf(m).count]
  /\ UNCHANGED <<lateMinute, lateTotal, alerts, alertsTotal>>

\* Mutant: the client retries the pipeline whose answer is late.
HandleLateRetried(m) ==
  /\ lateMinute' = [lateMinute EXCEPT ![MinuteKey(RecordOf(m).time)] = Incr(Incr(@))]
  /\ lateTotal' = lateTotal + 2
  /\ UNCHANGED <<hash, index, latest, alerts, alertsTotal>>

\* Nothing is counted for an event without a time.
HandleLate(m) ==
  LET timed == RecordOf(m).time # NoTime
  IN  /\ lateMinute' = IF timed
                       THEN [lateMinute EXCEPT ![MinuteKey(RecordOf(m).time)] = Incr(@)]
                       ELSE lateMinute
      /\ lateTotal' = IF timed THEN lateTotal + 1 ELSE lateTotal
      /\ UNCHANGED <<hash, index, latest, alerts, alertsTotal>>

HandleAlert(m) ==
  LET pushed == <<m>> \o alerts
  IN  /\ alerts' = SubSeq(pushed, 1, IF Len(pushed) < AlertCap THEN Len(pushed) ELSE AlertCap)
      /\ alertsTotal' = alertsTotal + 1
      /\ UNCHANGED <<hash, index, latest, lateMinute, lateTotal>>

Apply(m) ==
  /\ \/ IsKind(m, "agg") /\ HandleAgg(m)
     \/ IsKind(m, "late") /\ HandleLate(m)
     \/ IsKind(m, "alert") /\ HandleAlert(m)
  /\ applied' = [applied EXCEPT ![m] = @ + 1]

-----------------------------------------------------------------------------
(* The consumer loop *)

Poll(p) ==
  /\ up
  /\ hand = NoMsg
  /\ pos[p] < end[p]
  /\ hand' = <<p, pos[p] + 1>>
  /\ pos' = [pos EXCEPT ![p] = @ + 1]
  /\ UNCHANGED <<topicVars, up, committed, redisVars, tallyVars, lossVars>>

Handle ==
  /\ hand # NoMsg
  /\ Apply(hand)
  /\ hand' = NoMsg
  /\ UNCHANGED <<topicVars, up, pos, committed, lossVars>>

\* The handler raises: the error is counted, the message skipped.  Redis may
\* have applied the pipeline whose answer timed out.
HandleFails ==
  /\ hand # NoMsg
  /\ \/ /\ Fault("skip")
        /\ lost' = lost \cup {hand}
        /\ UNCHANGED <<redisVars, tallyVars>>
     \/ /\ Fault("timeout")
        /\ Apply(hand)
        /\ UNCHANGED lost
  /\ hand' = NoMsg
  /\ UNCHANGED <<topicVars, up, pos, committed, wiped, crashes>>

\* The offsets a commit stores: those poll has gone past.
Polled == [p \in Partitions |-> IF pos[p] = 0 THEN committed[p] ELSE pos[p]]

\* auto.commit.interval.ms passes.
Commit ==
  /\ up
  /\ committed # Polled
  /\ committed' = Polled
  /\ UNCHANGED <<topicVars, up, pos, hand, redisVars, tallyVars, lossVars>>

\* Mutant: SIGTERM ends the loop in the middle of a message.
StopAtOnce ==
  /\ up
  /\ Fault("stop")
  /\ up' = FALSE
  /\ hand' = NoMsg
  /\ committed' = Polled
  /\ UNCHANGED <<topicVars, pos, redisVars, tallyVars, lost, wiped, crashes>>

\* Mutant: the consumer is not closed.
StopUnclosed ==
  /\ up
  /\ hand = NoMsg
  /\ Fault("stop")
  /\ up' = FALSE
  /\ UNCHANGED <<topicVars, pos, hand, committed, redisVars, tallyVars, lost, wiped, crashes>>

\* SIGTERM: the loop ends between two messages and close() commits.
Stop ==
  /\ up
  /\ hand = NoMsg
  /\ Fault("stop")
  /\ up' = FALSE
  /\ committed' = Polled
  /\ UNCHANGED <<topicVars, pos, hand, redisVars, tallyVars, lost, wiped, crashes>>

Covered(m) == committed[m[1]] >= m[2]

\* The process dies.  The message in hand is lost if a commit covered it.
Crash ==
  /\ up
  /\ Fault("crash")
  /\ up' = FALSE
  /\ hand' = NoMsg
  /\ crashes' = crashes + 1
  /\ lost' = IF hand # NoMsg /\ Covered(hand) THEN lost \cup {hand} ELSE lost
  /\ UNCHANGED <<topicVars, pos, committed, redisVars, tallyVars, wiped>>

\* Mutant: auto.offset.reset = latest.
ResumeLatest(p) == IF committed[p] = NoOffset THEN end[p] ELSE committed[p]

\* Where a consumer of the group starts: auto.offset.reset = earliest.
Resume(p) == IF committed[p] = NoOffset THEN 0 ELSE committed[p]

\* The container starts, or restarts (restart: unless-stopped).
Start ==
  /\ ~up
  /\ up' = TRUE
  /\ pos' = [p \in Partitions |-> Resume(p)]
  /\ UNCHANGED <<topicVars, hand, committed, redisVars, tallyVars, lossVars>>

\* Redis restarts, with nothing on disk.
RedisRestart ==
  /\ Fault("wipe")
  /\ EmptyRedis
  /\ wiped' = wiped \cup {m \in Messages : applied[m] > 0}
  /\ applied' = [m \in Messages |-> 0]
  /\ latest' = [k \in Keys |-> NoResult]
  /\ UNCHANGED <<topicVars, consumerVars, lost, crashes>>

Next ==
  \/ \E p \in Partitions : Produce(p) \/ Poll(p)
  \/ Tick
  \/ Handle
  \/ HandleFails
  \/ Commit
  \/ Stop
  \/ Crash
  \/ Start
  \/ RedisRestart

Spec == Init /\ [][Next]_writerVars

\* The loop polls and handles while it runs; Docker restarts it; time passes.
Fairness ==
  /\ WF_writerVars(Start)
  /\ WF_writerVars(Handle)
  /\ WF_writerVars(Tick)
  /\ \A p \in Partitions : WF_writerVars(Poll(p)) /\ WF_writerVars(Produce(p))

-----------------------------------------------------------------------------
(* The HTTP thread *)

\* Mutant: the range includes the minute it ends with.
SumThrough(from, to) ==
  LET keys == {k \in index : k[2] >= MinuteKey(from) /\ k[2] <= MinuteKey(to)}
  IN  SumFunction([k \in {key \in keys : Alive(hash[key])} |-> hash[k].n])

\* /agg/summary?from&to: the indexed keys of [from, to), cut to minutes, whose
\* hash still exists.
SumRange(from, to) ==
  LET keys == {k \in index : k[2] >= MinuteKey(from) /\ k[2] <= MinuteKey(to) - 1}
  IN  SumFunction([k \in {key \in keys : Alive(hash[key])} |-> hash[k].n])

-----------------------------------------------------------------------------
(* Properties *)

Applied(m) == applied[m] > 0

\* A record the consumer or a commit has gone past.
Passed(m) == (up /\ pos[m[1]] >= m[2]) \/ Covered(m)

\* writer.py 263-294: offsets are committed before the handler runs, yet a
\* record that was passed is in Redis, in hand, or one that a fault skipped (or
\* a Redis restart emptied), and each fault skips at most one.
PassedAccounted ==
  /\ \A m \in Messages : Passed(m) => Applied(m) \/ m = hand \/ m \in lost \cup wiped
  /\ Cardinality(lost) <= faults

\* A record is applied again only after a crash, once per crash: this bounds
\* what handle_late adds too much to late:total.
RepeatsNeedCrashes ==
  \A m \in Messages : applied[m] <= crashes + (IF pos[m[1]] >= m[2] THEN 1 ELSE 0)

\* A running consumer is never behind what it committed, and no commit is
\* ahead of the topic.
CommitBehind ==
  \A p \in Partitions : committed[p] <= end[p] /\ (up => committed[p] <= pos[p])

HandPolled ==
  hand # NoMsg => up /\ pos[hand[1]] = hand[2] /\ applied[hand] <= crashes

\* What the next start reads again was applied at most once per crash.
RereadBounded ==
  ~up => \A m \in Messages : Resume(m[1]) < m[2] => applied[m] <= crashes

\* The inductive invariant of the consumer.
IndInv ==
  /\ TypeOK
  /\ IsFiniteSet(lost)
  /\ CommitBehind
  /\ HandPolled
  /\ RereadBounded
  /\ PassedAccounted
  /\ RepeatsNeedCrashes

\* The late events that are counted.
Timed == {m \in Messages : IsKind(m, "late") /\ RecordOf(m).time # NoTime}

\* late:total is the number of timed late events applied, repeats included,
\* and no minute counts more of them than that total.
LateTotalAccounted ==
  /\ lateTotal = SumFunctionOnSet(applied, Timed)
  /\ SumFunction([t \in Minutes |-> IF Alive(lateMinute[t]) THEN lateMinute[t].n ELSE 0])
       <= lateTotal

\* reconcile.py reads the summary as the realtime count of [from, to): within
\* the retention it is the sum of the last results applied to the minutes of
\* the range, whatever was trimmed, expired, overwritten or redelivered.
SummaryExact ==
  \A from, to \in 0..MaxNow :
    now - Ttl < MinuteKey(from) =>
      LET inRange == {k \in Keys : /\ k[2] \div Minute \in from \div Minute .. to \div Minute - 1
                                   /\ latest[k] # NoResult}
      IN  SumRange(from, to) = SumFunction([k \in inRange |-> latest[k]])
=============================================================================
