------------------------------ MODULE Realtime ------------------------------
(***************************************************************************)
(* The realtime Flink job of sql/pipeline.sql: Kafka partitions are read,  *)
(* repeated event_ids dropped, the rest counted per one-minute window, and *)
(* an event whose window is already closed is recorded as late instead.    *)
(*                                                                         *)
(* A record goes through deduplication, the lateness filter and the window *)
(* operator in one step: at parallelism.default 1 the operators read the   *)
(* same channel, so each sees the record at the same place between the     *)
(* same two watermarks.  Flink itself (watermarks, idleness, state,        *)
(* checkpoints) is external and modelled from how the script relies on it. *)
(*                                                                         *)
(* Time is counted in ticks, the smallest step of event_time (1 ms).  Not  *)
(* modelled: the columns of a result other than its counts, the lookup     *)
(* join of campaign names, alerts, and a job resubmitted without state.    *)
(***************************************************************************)
EXTENDS Integers, Sequences, FiniteSets

LOCAL INSTANCE FiniteSetsExt

CONSTANTS Events,       \* event_ids
          Partitions,   \* the partitions of the source topics
          PartOf,       \* the partition of an event's ad_request_id
          TimeOf,       \* event_time
          Counted,      \* events that pass the filters of all_events
          Minute,       \* ticks per window
          Delay,        \* the watermark delay
          Live,         \* partitions never without data for the idle timeout
          MaxRecords,   \* bound: records in all partitions
          Faults,       \* the kinds of fault a run may meet
          MaxFaults     \* bound: faults per run

FaultKind == {"forget", "recover"}

ASSUME RealtimeAssumption ==
  /\ IsFiniteSet(Events)
  /\ PartOf \in [Events -> Partitions]
  /\ Delay \in Nat
  /\ TimeOf \in [Events -> Nat] /\ \A e \in Events : TimeOf[e] >= Delay
  /\ Counted \subseteq Events
  /\ Minute \in Nat \ {0}
  /\ Live \subseteq Partitions
  /\ MaxRecords \in Nat
  /\ Faults \subseteq FaultKind
  /\ MaxFaults \in Nat

NoMark == -1     \* no watermark yet: CURRENT_WATERMARK is NULL

Marks == {TimeOf[e] - Delay : e \in Events}
WindowEnd(e) == (TimeOf[e] \div Minute + 1) * Minute
SameWindow(e, f) == WindowEnd(e) = WindowEnd(f)
Later(s, t) == IF s >= t THEN s ELSE t

VARIABLES
  log,      \* log[p]: the records of partition p
  pos,      \* pos[p]: how many of them the job has read
  high,     \* high[p]: largest event_time read from p since the job (re)started
  idle,     \* partitions marked idle
  mark,     \* the watermark downstream of the sources
  winMark,  \* the watermark the window operator has reached
  seen,     \* event_ids in the deduplication state
  acc,      \* acc[e]: times e is counted in its open window
  agg,      \* agg[e]: times e is counted in the last result of its window
  dropped,  \* the rows of late_dropped, by event_id
  saved,    \* the last completed checkpoint
  published,\* history: events a stored result ever counted
  swallowed,\* history: events read that no window counted and no row recorded
  forgets,  \* history: forgets[e], times the id of e expired
  faults    \* history: faults so far

stateVars  == <<seen, acc, winMark>>
sinkVars   == <<agg, dropped>>
sourceVars == <<pos, high, idle, mark>>
histVars   == <<published, swallowed, forgets, faults>>
vars == <<log, sourceVars, stateVars, sinkVars, saved, histVars>>

Snapshot == [pos     : [Partitions -> Nat],
             seen    : SUBSET Counted,
             acc     : [Events -> Nat],
             winMark : Marks \cup {NoMark},
             agg     : [Events -> Nat],
             dropped : SUBSET Counted]

TypeOK ==
  /\ log \in [Partitions -> Seq(Events)]
  /\ pos \in [Partitions -> Nat]
  /\ \A p \in Partitions : pos[p] <= Len(log[p])
  /\ high \in [Partitions -> Nat \cup {NoMark}]
  /\ idle \subseteq Partitions
  /\ mark \in Marks \cup {NoMark}
  /\ winMark \in Marks \cup {NoMark}
  /\ seen \subseteq Counted
  /\ acc \in [Events -> Nat]
  /\ agg \in [Events -> Nat]
  /\ dropped \subseteq Counted
  /\ saved \in Snapshot
  /\ \A p \in Partitions : saved.pos[p] <= Len(log[p])
  /\ published \subseteq Counted
  /\ swallowed \subseteq Counted
  /\ forgets \in [Events -> Nat]
  /\ faults \in 0..MaxFaults

NoCount == [e \in Events |-> 0]

Now == [pos |-> pos, seen |-> seen, acc |-> acc, winMark |-> winMark,
        agg |-> agg, dropped |-> dropped]

Init ==
  /\ log = [p \in Partitions |-> <<>>]
  /\ pos = [p \in Partitions |-> 0]
  /\ high = [p \in Partitions |-> NoMark]
  /\ idle = {}
  /\ mark = NoMark
  /\ winMark = NoMark
  /\ seen = {}
  /\ acc = NoCount
  /\ agg = NoCount
  /\ dropped = {}
  /\ saved = Now
  /\ published = {}
  /\ swallowed = {}
  /\ forgets = NoCount
  /\ faults = 0

Fault(kind) ==
  /\ kind \in Faults
  /\ faults < MaxFaults
  /\ faults' = faults + 1

-----------------------------------------------------------------------------
(* The sources *)

Records == MapThenSumSet(LAMBDA p : Len(log[p]), Partitions)

\* The collector or the outbox produces a record of e.  A copy has the same
\* key, hence the same partition, and the same event_time.
Produce(e) ==
  /\ Records < MaxRecords
  /\ log' = [log EXCEPT ![PartOf[e]] = Append(@, e)]
  /\ UNCHANGED <<sourceVars, stateVars, sinkVars, saved, histVars>>

Unread(p) == pos[p] < Len(log[p])

\* Mutant: no idle timeout.
NeverIdle(p) == FALSE

\* table.exec.source.idle-timeout passes without a record from p.
GoIdle(p) ==
  /\ p \notin idle \cup Live
  /\ ~Unread(p)
  /\ idle' = idle \cup {p}
  /\ UNCHANGED <<log, pos, high, mark, stateVars, sinkVars, saved, histVars>>

\* A watermark the sources may emit: every partition that is not idle has
\* passed it.  With all of them idle the furthest one counts.
Emittable(t) ==
  IF Partitions \subseteq idle
  THEN \E p \in Partitions : high[p] # NoMark /\ t <= high[p] - Delay
  ELSE \A p \in Partitions \ idle : high[p] # NoMark /\ t <= high[p] - Delay

-----------------------------------------------------------------------------
(* deduped, late_at_window, agg_1m *)

\* Mutant: the judgement the script used before, event_time < watermark.
LateByEventTime(e) == mark # NoMark /\ mark > TimeOf[e]

\* The condition of late_at_window.
IsLate(e) == mark # NoMark /\ mark >= WindowEnd(e) - 1

\* Mutant: the window is closed one tick late.
ClosedAtEnd(e) == winMark >= WindowEnd(e)

\* The window operator drops a record of a window it has closed.
WindowClosed(e) == winMark >= WindowEnd(e) - 1

\* The filters of all_events, or rn > 1.
FilterOut(e) ==
  /\ e \notin Counted \/ e \in seen
  /\ UNCHANGED <<seen, acc, dropped, swallowed>>

\* Mutant: agg_1m reads all_events, not deduped.
NoDedup(e) ==
  /\ e \in Counted
  /\ seen' = seen \cup {e}
  /\ acc' = IF WindowClosed(e) THEN acc ELSE [acc EXCEPT ![e] = @ + 1]
  /\ dropped' = IF IsLate(e) THEN dropped \cup {e} ELSE dropped
  /\ UNCHANGED swallowed

\* rn = 1: the window counts the record or drops it, and the lateness filter,
\* looking at its own watermark, writes a row or not.
FirstRow(e) ==
  /\ e \in Counted \ seen
  /\ seen' = seen \cup {e}
  /\ acc' = IF WindowClosed(e) THEN acc ELSE [acc EXCEPT ![e] = @ + 1]
  /\ dropped' = IF IsLate(e) THEN dropped \cup {e} ELSE dropped
  /\ swallowed' = IF WindowClosed(e) /\ ~IsLate(e) THEN swallowed \cup {e} ELSE swallowed

Read(p) ==
  /\ Unread(p)
  /\ LET e == log[p][pos[p] + 1]
     IN  /\ high' = [high EXCEPT ![p] = Later(@, TimeOf[e])]
         /\ FilterOut(e) \/ FirstRow(e)
  /\ pos' = [pos EXCEPT ![p] = @ + 1]
  /\ idle' = idle \ {p}
  /\ UNCHANGED <<log, mark, winMark, agg, saved, published, forgets, faults>>

Fires(e, t) == WindowEnd(e) - 1 <= t

\* A window without records has no row in the result.
HasRecords(e) == \E f \in Events : SameWindow(e, f) /\ acc[f] > 0

\* The watermark moves to t and the windows it has passed are emitted.  The
\* last result of a window replaces the earlier one (HSET in redis-writer).
AdvanceWatermark(t) ==
  /\ t > mark
  /\ Emittable(t)
  /\ mark' = t
  /\ winMark' = Later(winMark, t)
  /\ agg' = [e \in Events |-> IF Fires(e, t) /\ HasRecords(e) THEN acc[e] ELSE agg[e]]
  /\ acc' = [e \in Events |-> IF Fires(e, t) THEN 0 ELSE acc[e]]
  /\ published' = published \cup {e \in Counted : agg'[e] > 0}
  /\ UNCHANGED <<log, pos, high, idle, seen, dropped, saved, swallowed, forgets, faults>>

-----------------------------------------------------------------------------
(* State, checkpoints, recovery *)

\* table.exec.state.ttl has passed since e was first seen.
ForgetId(e) ==
  /\ e \in seen
  /\ Fault("forget")
  /\ seen' = seen \ {e}
  /\ forgets' = [forgets EXCEPT ![e] = @ + 1]
  /\ UNCHANGED <<log, sourceVars, winMark, acc, sinkVars, saved, published, swallowed>>

\* A checkpoint completes: offsets and operator state, the sinks flushed.
Checkpoint ==
  /\ "recover" \in Faults
  /\ saved # Now
  /\ saved' = Now
  /\ UNCHANGED <<log, sourceVars, stateVars, sinkVars, histVars>>

\* Mutant: the sources resume from the group's offsets, past the checkpoint.
ResumeFromGroup ==
  /\ Fault("recover")
  /\ seen' = saved.seen
  /\ acc' = saved.acc
  /\ winMark' = saved.winMark
  /\ high' = [p \in Partitions |-> NoMark]
  /\ idle' = {}
  /\ mark' = NoMark
  /\ dropped' = saved.dropped
  /\ agg' = saved.agg
  /\ UNCHANGED <<log, pos, saved, published, swallowed, forgets>>

\* A task manager dies and the job restarts from the checkpoint.  What the
\* sinks had not flushed may be lost.  The window operator restores its own
\* watermark; the watermark of the stream starts again from nothing.
Recover ==
  /\ Fault("recover")
  /\ pos' = saved.pos
  /\ seen' = saved.seen
  /\ acc' = saved.acc
  /\ winMark' = saved.winMark
  /\ high' = [p \in Partitions |-> NoMark]
  /\ idle' = {}
  /\ mark' = NoMark
  /\ \E flushed \in SUBSET (dropped \ saved.dropped) :
        dropped' = saved.dropped \cup flushed
  /\ \E lost \in SUBSET {WindowEnd(e) : e \in Events} :
        agg' = [e \in Events |-> IF WindowEnd(e) \in lost THEN saved.agg[e] ELSE agg[e]]
  /\ UNCHANGED <<log, saved, published, swallowed, forgets>>

Next ==
  \/ \E e \in Events : Produce(e) \/ ForgetId(e)
  \/ \E p \in Partitions : Read(p) \/ GoIdle(p)
  \/ \E t \in Marks : AdvanceWatermark(t)
  \/ Checkpoint
  \/ Recover

Spec == Init /\ [][Next]_vars

\* The job keeps reading, the idle timer runs, and a partition's watermark is
\* emitted periodically; nothing obliges a producer to append, a state entry
\* to expire or a task manager to die.
Fairness ==
  /\ \A p \in Partitions : WF_vars(Read(p)) /\ WF_vars(GoIdle(p))
  /\ \A t \in Marks : WF_vars(AdvanceWatermark(t))

-----------------------------------------------------------------------------
(* Properties *)

Kept(e) == acc[e] + agg[e] + (IF e \in dropped THEN 1 ELSE 0)

\* As long as nothing fails an event that was read is in exactly one place: counted
\* once in its open window, counted once in the result of its window, or a row
\* of late_dropped.  The lateness filter and the window operator decide apart
\* from each other (lines 315-353), and reconcile.py adds their two counts.
CountedOrLate ==
  faults = 0 => \A e \in Counted : Kept(e) = IF e \in seen THEN 1 ELSE 0

\* What makes it inductive: the two watermarks agree, a counted event's window
\* is open, and an emitted one is closed.
Agreeing ==
  faults = 0 =>
    /\ winMark = mark
    /\ \A e \in Events : acc[e] > 0 => ~WindowClosed(e)
    /\ \A e \in Events : agg[e] > 0 => WindowClosed(e)

IndInv == TypeOK /\ Agreeing /\ CountedOrLate

\* As long as nothing fails the result of a window is final: whatever is read later, in
\* whatever order the partitions come, no second row changes what it counts.
WindowFinal ==
  [][faults' = 0 => \A e, f \in Counted :
        SameWindow(e, f) /\ agg[f] > 0 => agg'[e] = agg[e]]_vars

\* Across recoveries an event is counted once for each time its event_id was
\* new: offsets, deduplication state and open windows are restored together.
CountedPerLife ==
  \A e \in Counted : acc[e] <= 1 + forgets[e] /\ agg[e] <= 1 + forgets[e]

ToRead(from, e) == \E i \in DOMAIN log[PartOf[e]] : i > from[PartOf[e]] /\ log[PartOf[e]][i] = e

\* Recovery leaves no hole behind, however often it happens: an event a stored
\* result once counted is still counted, will be read again, or is recorded as
\* late.  The one way out is the gap before the watermark is back: what is read
\* there for a window closed before the checkpoint is swallowed.
PublishedKept ==
  \A e \in published \ swallowed :
    agg[e] > 0 \/ acc[e] > 0 \/ e \in dropped \/ ToRead(pos, e)

\* Once the partition that never runs dry has read past the end of a window
\* plus the delay, the window is emitted: a partition without data is marked
\* idle and cannot hold the watermark back (lines 34-40).
WindowsClose ==
  \A e \in Counted :
    (\E p \in Live : high[p] - Delay >= WindowEnd(e) - 1) ~> (acc[e] = 0)
=============================================================================
