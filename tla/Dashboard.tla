----------------------------- MODULE Dashboard -----------------------------
(***************************************************************************)
(* dashboard/api.py beside the redis-writer: a sampler thread reads the    *)
(* window results out of Redis every second and the progress of the        *)
(* consumer group out of Kafka every third time, and replaces the snapshot *)
(* that /api/overview returns.  The reads are separate calls, so the       *)
(* writer moves between any two of them.                                   *)
(*                                                                         *)
(* Not modelled: the numbers taken from the other services' metrics, from  *)
(* Flink and from Postgres, late:total and alerts (read like the totals),  *)
(* and the rates, which only smooth the numbers for display.               *)
(***************************************************************************)
EXTENDS RedisWriter

CONSTANTS Chart,       \* CHART_MINUTES, in ticks
          KafkaEvery   \* samples per Kafka sample

ASSUME DashboardAssumption == Chart \in Nat /\ KafkaEvery \in Nat \ {0}

NoEnd == -1
NoLag == -1
NoKafka == [lag |-> NoLag, n |-> 0, ends |-> [p \in Partitions |-> NoEnd]]

VARIABLES
  phase,   \* what the sampler reads next
  tick,    \* sampler passes, modulo KafkaEvery
  asked,   \* partitions whose watermark was asked for
  keys,    \* keys read from the index
  totals,  \* the counts read from their hashes
  ends,    \* ends[p]: the high watermark read, or NoEnd
  kafka,   \* the last Kafka sample
  snap     \* SNAP: the counts and the Kafka sample on display

dashVars == <<phase, tick, keys, totals, ends, asked, kafka, snap>>
dvars == <<writerVars, dashVars>>

Counts == UNION {[ks -> Nat] : ks \in SUBSET Keys}
KafkaSample == [lag : Nat \cup {NoLag}, n : Nat, ends : [Partitions -> Nat \cup {NoEnd}]]

DashTypeOK ==
  /\ phase \in {"rest", "hashes", "ends", "offsets", "publish"}
  /\ tick \in 0..KafkaEvery - 1
  /\ keys \subseteq Keys
  /\ DOMAIN totals \subseteq Keys
  /\ ends \in [Partitions -> Nat \cup {NoEnd}]
  /\ asked \subseteq Partitions
  /\ kafka \in KafkaSample
  /\ snap.kafka \in KafkaSample

NoCounts == [k \in {} |-> 0]

DashInit ==
  /\ Init
  /\ phase = "rest"
  /\ tick = 0
  /\ keys = {}
  /\ totals = NoCounts
  /\ ends = [p \in Partitions |-> NoEnd]
  /\ asked = {}
  /\ kafka = NoKafka
  /\ snap = [totals |-> NoCounts, kafka |-> NoKafka]

Sampling(from, to) == phase = from /\ phase' = to

\* A query of the sampler gets no answer.
QueryFails ==
  /\ Fault("query")
  /\ UNCHANGED <<topicVars, consumerVars, redisVars, tallyVars, lost, wiped, crashes>>

\* sample_realtime: the keys of the chart, up to the minute after this one.
SampleIndex ==
  /\ Sampling("rest", "hashes")
  /\ keys' = {k \in index : /\ k[2] >= MinuteKey(now) - Chart
                            /\ k[2] <= MinuteKey(now) + Minute}
  /\ UNCHANGED <<writerVars, tick, totals, ends, asked, kafka, snap>>

\* Every KafkaEvery-th pass samples Kafka too.
AfterHashes == IF tick = 0 THEN "ends" ELSE "publish"

\* A hash that has expired since is left out.  No answer: no counts at all.
SampleHashes ==
  /\ Sampling("hashes", AfterHashes)
  /\ \/ /\ totals' = [k \in {k \in keys : Alive(hash[k])} |-> hash[k].n]
        /\ UNCHANGED writerVars
     \/ totals' = NoCounts /\ QueryFails
  /\ keys' = {}
  /\ UNCHANGED <<tick, ends, asked, kafka, snap>>

\* One high watermark; a partition that does not answer in time is left out.
SampleEnd(p) ==
  /\ phase = "ends"
  /\ p \notin asked
  /\ \/ ends' = [ends EXCEPT ![p] = end[p]] /\ UNCHANGED writerVars
     \/ QueryFails /\ UNCHANGED ends
  /\ asked' = asked \cup {p}
  /\ phase' = IF asked' = Partitions THEN "offsets" ELSE "ends"
  /\ UNCHANGED <<tick, keys, totals, kafka, snap>>

\* The topics cannot be listed: an empty Kafka sample.
SampleNoTopics ==
  /\ Sampling("ends", "publish")
  /\ asked = {}
  /\ kafka' = NoKafka
  /\ QueryFails
  /\ UNCHANGED <<tick, keys, totals, ends, asked, snap>>

\* A group exists while it has a member or an offset.
GroupAlive == up \/ \E p \in Partitions : committed[p] # NoOffset

\* Mutant: a partition ahead of its end makes up for one behind.
NetBehind(p) == ends[p] - committed[p]

Behind(p) == IF ends[p] > committed[p] THEN ends[p] - committed[p] ELSE 0

\* The lag of the group over the partitions that have an offset and an end.
SampleOffsets ==
  LET counted == {p \in Partitions : committed[p] # NoOffset /\ ends[p] # NoEnd}
  IN  /\ Sampling("offsets", "publish")
      /\ \/ /\ kafka' = [lag  |-> IF GroupAlive THEN SumFunction([p \in counted |-> Behind(p)]) ELSE NoLag,
                         n    |-> Cardinality(counted),
                         ends |-> ends]
            /\ UNCHANGED writerVars
         \/ kafka' = [lag |-> NoLag, n |-> 0, ends |-> ends] /\ QueryFails
      /\ ends' = [p \in Partitions |-> NoEnd]
      /\ asked' = {}
      /\ UNCHANGED <<tick, keys, totals, snap>>

Publish ==
  /\ Sampling("publish", "rest")
  /\ snap' = [totals |-> totals, kafka |-> kafka]
  /\ tick' = (tick + 1) % KafkaEvery
  /\ totals' = NoCounts
  /\ UNCHANGED <<writerVars, keys, ends, asked, kafka>>

\* An exception ends the pass; the old snapshot stays.
SampleFails ==
  /\ phase # "rest"
  /\ phase' = "rest"
  /\ tick' = (tick + 1) % KafkaEvery
  /\ keys' = {}
  /\ totals' = NoCounts
  /\ ends' = [p \in Partitions |-> NoEnd]
  /\ asked' = {}
  /\ QueryFails
  /\ UNCHANGED <<kafka, snap>>

Sample ==
  \/ SampleIndex
  \/ SampleHashes
  \/ \E p \in Partitions : SampleEnd(p)
  \/ SampleOffsets
  \/ Publish

DashNext == (Next /\ UNCHANGED dashVars) \/ Sample \/ SampleNoTopics \/ SampleFails

DashSpec == DashInit /\ [][DashNext]_dvars

\* Besides the writer's, the sampler thread's loop goes on.
DashFairSpec == DashSpec /\ Fairness /\ WF_dvars(Sample)

-----------------------------------------------------------------------------
(* Properties *)

\* api.py 189-240: the ends are read before the offsets, so a lag of zero over
\* all partitions on display means that every record those ends count is in
\* Redis, but for one in hand and those a fault skipped or a Redis restart
\* emptied -- although the writer commits before it handles.
ZeroLagMeansServed ==
  snap.kafka.lag = 0 /\ snap.kafka.n = Cardinality(Partitions) =>
    \A m \in Messages :
      m[2] <= snap.kafka.ends[m[1]] => Applied(m) \/ m = hand \/ m \in lost \cup wiped

\* m is the last result of its window, and no other partition has one.
LastResult(m) ==
  /\ IsKind(m, "agg")
  /\ \A o \in Messages : IsKind(o, "agg") /\ KeyOf(o) = KeyOf(m) => o[1] = m[1] /\ o[2] <= m[2]

OnChart(k) == k[2] >= MinuteKey(MaxNow) - Chart /\ k[2] > MaxNow - Ttl

\* The last result of every window of the chart ends up on display, through
\* redeliveries, restarts and failed samples, unless a fault skipped it.
LastResultShown ==
  \A m \in Messages :
    LastResult(m) /\ OnChart(KeyOf(m)) =>
      <>[](\/ m \in lost \cup wiped
           \/ KeyOf(m) \in DOMAIN snap.totals /\ snap.totals[KeyOf(m)] = RecordOf(m).count)
=============================================================================
