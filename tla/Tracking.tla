------------------------------ MODULE Tracking ------------------------------
(***************************************************************************)
(* How tracer/app.py and player/app.py show the way of their own events:   *)
(* each remembers the end offsets of the topics, sends, and then reads the *)
(* topics from there on every time the page asks, looking for its records. *)
(* Both have one Kafka consumer behind a lock, handlers that run           *)
(* concurrently, and forget all but their newest tracks.                   *)
(*                                                                         *)
(* The tracer reads the offsets itself before it sends (api_send).  The    *)
(* player copies a snapshot that a thread refreshes every three seconds    *)
(* (ad_request), after the ad decision it asked for was answered.          *)
(*                                                                         *)
(* The ends of several partitions are read one by one, here at once: a     *)
(* record is in one partition, and only its own end matters to it.  Not    *)
(* modelled: what the page shows beside Kafka (Redis, Parquet, Postgres,   *)
(* read without any state but a five-second cache), the list of event_ids  *)
(* of a play (every record also carries its ad_request_id), pixels.        *)
(***************************************************************************)
EXTENDS Integers, Sequences, FiniteSets

CONSTANTS Partitions,  \* the partitions of WATCH_TOPICS
          Traces,      \* events sent by the tracer
          Plays,       \* ads played in the player
          Sessions,    \* the sets of tracks one run may make
          Sent,        \* Sent[t]: the partitions the records of t go to
          Answer,      \* Answer[t]: the partition of the ad_response of a play
          Keep,        \* Keep[s]: newest tracks a process remembers (20 and 40)
          Nudges,      \* nudges per trace (2)
          Faults,      \* the kinds of fault a run may meet
          MaxFaults    \* bound: faults per run

Tracks == Traces \cup Plays
Server == {"tracer", "player"}
ServerOf(t) == IF t \in Traces THEN "tracer" ELSE "player"

ASSUME TrackingAssumption ==
  /\ Traces \cap Plays = {}
  /\ Sessions \subseteq SUBSET Tracks
  /\ Sent \in [Tracks -> Seq(Partitions)]
  /\ Answer \in [Plays -> Partitions]
  /\ Keep \in [Server -> Nat \ {0}]
  /\ Nudges \in Nat
  /\ Faults \subseteq {"end", "decision", "deadline"}
  /\ MaxFaults \in Nat

\* A record of track t: its k-th event, or the ad_response from the outbox.
Response == 0
Nudge == <<>>          \* a record of nobody: an event that pushes the watermark

NoOffset == -1
NoOffsets == [p \in Partitions |-> NoOffset]

VARIABLES
  log,       \* log[p]: the records of partition p
  state,     \* state[t]: see States; a request of t runs while it is asked
  posted,    \* posted[t]: events of t that reached their topic
  answered,  \* plays whose ad_response reached its topic
  nudged,    \* nudged[t]: nudges of a trace
  offsets,   \* offsets[t][p]: where the next scan of t starts
  found,     \* found[t]: the places of records sighted, in order
  kept,      \* kept[s]: TRACES or PLAYS, oldest first
  snapshot,  \* the player's _offsets_snapshot
  holder,    \* holder[s]: the track whose scan holds _kafka_lock, if any
  cursor,    \* cursor[s]: the position of the consumer during a scan
  start,     \* history: offsets[t] as they were first
  faults     \* history: faults so far

sendVars  == <<posted, answered>>
trackVars == <<state, offsets, start, kept>>
scanVars  == <<holder, cursor, found>>
vars == <<log, sendVars, nudged, trackVars, scanVars, snapshot, faults>>

States == {"unused", "new", "asked", "kept", "gone", "failed"}
Free == "free"
Offsets == [Partitions -> Nat \cup {NoOffset}]

TypeOK ==
  /\ log \in [Partitions -> Seq((Tracks \X Nat) \cup {Nudge})]
  /\ state \in [Tracks -> States]
  /\ posted \in [Tracks -> Nat]
  /\ answered \subseteq Plays
  /\ nudged \in [Traces -> Nat]
  /\ offsets \in [Tracks -> Offsets]
  /\ start \in [Tracks -> Offsets]
  /\ found \in [Tracks -> Seq(Partitions \X Nat)]
  /\ kept \in [Server -> Seq(Tracks)]
  /\ snapshot \in Offsets
  /\ holder \in [Server -> Tracks \cup {Free}]
  /\ cursor \in [Server -> Offsets]
  /\ faults \in 0..MaxFaults

Init ==
  /\ log = [p \in Partitions |-> <<>>]
  /\ \E session \in Sessions :
       state = [t \in Tracks |-> IF t \in session THEN "new" ELSE "unused"]
  /\ posted = [t \in Tracks |-> 0]
  /\ answered = {}
  /\ nudged = [t \in Traces |-> 0]
  /\ offsets = [t \in Tracks |-> NoOffsets]
  /\ start = [t \in Tracks |-> NoOffsets]
  /\ found = [t \in Tracks |-> <<>>]
  /\ kept = [s \in Server |-> <<>>]
  /\ snapshot = NoOffsets
  /\ holder = [s \in Server |-> Free]
  /\ cursor = [s \in Server |-> NoOffsets]
  /\ faults = 0

Fault(kind) ==
  /\ kind \in Faults
  /\ faults < MaxFaults
  /\ faults' = faults + 1

-----------------------------------------------------------------------------
(* Offsets *)

Ends == [p \in Partitions |-> Len(log[p])]

\* What reading the ends may give: a partition that does not answer is left
\* out, and all are when the topics cannot be listed.
Readings == {[p \in Partitions |-> IF p \in failed THEN NoOffset ELSE Len(log[p])] :
               failed \in SUBSET Partitions}

ReadEnds(ends) ==
  /\ ends \in Readings
  /\ IF \A p \in Partitions : ends[p] # NoOffset THEN UNCHANGED faults ELSE Fault("end")

\* The player's thread; a reading without any answer changes nothing.
Refresh ==
  /\ holder["player"] = Free
  /\ \E ends \in Readings :
       /\ ends # snapshot
       /\ ReadEnds(ends)
       /\ snapshot' = IF ends = NoOffsets THEN snapshot ELSE ends
  /\ UNCHANGED <<log, sendVars, nudged, trackVars, scanVars>>

SetOffsets(t, ends) ==
  /\ offsets' = [offsets EXCEPT ![t] = ends]
  /\ start' = [start EXCEPT ![t] = ends]

-----------------------------------------------------------------------------
(* Sending *)

\* api_send reads the end offsets, under the lock, and starts to send.
AskTrace(t) ==
  /\ state[t] = "new"
  /\ holder["tracer"] = Free
  /\ \E ends \in Readings : ReadEnds(ends) /\ SetOffsets(t, ends)
  /\ state' = [state EXCEPT ![t] = "asked"]
  /\ UNCHANGED <<log, sendVars, nudged, kept, scanVars, snapshot>>

\* The page plays an ad: it sends the ad_request event and asks for a decision.
AskPlay(t) ==
  /\ state[t] = "new"
  /\ state' = [state EXCEPT ![t] = "asked"]
  /\ UNCHANGED <<log, sendVars, nudged, offsets, start, kept, scanVars, snapshot, faults>>

\* TRACES and PLAYS keep their newest entries.
Remember(t) ==
  LET s     == ServerOf(t)
      all   == Append(kept[s], t)
      extra == IF Len(all) > Keep[s] THEN Len(all) - Keep[s] ELSE 0
      old   == {all[i] : i \in 1..extra}
  IN  /\ kept' = [kept EXCEPT ![s] = SubSeq(all, extra + 1, Len(all))]
      /\ state' = [u \in Tracks |-> IF u \in old THEN "gone" ELSE IF u = t THEN "kept" ELSE state[u]]

\* Mutant: the offsets are read when the trace is set up, after sending.
KeepTraceReading(t) ==
  /\ state[t] = "asked"
  /\ Remember(t)
  /\ \E ends \in Readings : ReadEnds(ends) /\ SetOffsets(t, ends)
  /\ UNCHANGED <<log, sendVars, nudged, scanVars, snapshot>>

\* The collector has answered, and the trace can be looked at.
KeepTrace(t) ==
  /\ state[t] = "asked"
  /\ Remember(t)
  /\ UNCHANGED <<log, sendVars, nudged, offsets, start, scanVars, snapshot, faults>>

\* The decision is there: the play takes the snapshot of this moment.
KeepPlay(t) ==
  /\ state[t] = "asked"
  /\ Remember(t)
  /\ SetOffsets(t, snapshot)
  /\ UNCHANGED <<log, sendVars, nudged, scanVars, snapshot, faults>>

\* The call timed out or failed: the page gets a 502 and plays no ad.
FailPlay(t) ==
  /\ state[t] = "asked"
  /\ Fault("decision")
  /\ state' = [state EXCEPT ![t] = "failed"]
  /\ UNCHANGED <<log, sendVars, nudged, offsets, start, kept, scanVars, snapshot>>

\* The events the page or the tracer may have sent so far: those of an ad that
\* follow its ad_request need the decision.
Sendable(t) ==
  IF t \in Plays /\ state[t] \in {"asked", "failed"} THEN 1 ELSE Len(Sent[t])

Begun(t) == state[t] \notin {"unused", "new"}

Post(t) ==
  /\ Begun(t)
  /\ posted[t] < Len(Sent[t]) /\ posted[t] < Sendable(t)
  /\ posted' = [posted EXCEPT ![t] = @ + 1]
  /\ LET p == Sent[t][posted[t] + 1]
     IN  log' = [log EXCEPT ![p] = Append(@, <<t, posted[t] + 1>>)]
  /\ UNCHANGED <<answered, nudged, trackVars, scanVars, snapshot, faults>>

\* The outbox worker publishes the ad_response.
PublishAnswer(t) ==
  /\ Begun(t)
  /\ t \notin answered
  /\ answered' = answered \cup {t}
  /\ log' = [log EXCEPT ![Answer[t]] = Append(@, <<t, Response>>)]
  /\ UNCHANGED <<posted, nudged, trackVars, scanVars, snapshot, faults>>

\* nudge_watermark: some time later, unless the trace is gone by then.
NudgeWatermark(t, p) ==
  /\ state[t] = "kept"
  /\ nudged[t] < Nudges
  /\ nudged' = [nudged EXCEPT ![t] = @ + 1]
  /\ log' = [log EXCEPT ![p] = Append(@, Nudge)]
  /\ UNCHANGED <<sendVars, trackVars, scanVars, snapshot, faults>>

-----------------------------------------------------------------------------
(* Scanning *)

\* Mutant: the consumer is assigned without the offsets.
ScanFromEnd(t) ==
  LET s == ServerOf(t)
  IN  /\ state[t] = "kept"
      /\ holder[s] = Free
      /\ offsets[t] # NoOffsets
      /\ holder' = [holder EXCEPT ![s] = t]
      /\ cursor' = [cursor EXCEPT ![s] = Ends]
      /\ UNCHANGED <<log, sendVars, nudged, trackVars, found, snapshot, faults>>

\* A request for t has found it and got the lock: the consumer is assigned to
\* the partitions whose offset is known.
ScanStart(t) ==
  LET s == ServerOf(t)
  IN  /\ state[t] = "kept"
      /\ holder[s] = Free
      /\ offsets[t] # NoOffsets
      /\ holder' = [holder EXCEPT ![s] = t]
      /\ cursor' = [cursor EXCEPT ![s] = offsets[t]]
      /\ UNCHANGED <<log, sendVars, nudged, trackVars, found, snapshot, faults>>

\* The player looks whether it has the place already; the tracer need not.
Sighted(t, place) ==
  IF t \in Plays /\ \E i \in 1..Len(found[t]) : found[t][i] = place
  THEN found[t]
  ELSE Append(found[t], place)

\* Mutant: the offset of the record itself is stored.
NextOffset(at) == at - 1

\* The offset stored after the record at place at (counted from 1).
OffsetAfter(at) == at

ScanRecord(s, p) ==
  LET t  == holder[s]
      at == cursor[s][p] + 1
  IN  /\ t # Free
      /\ cursor[s][p] # NoOffset
      /\ at <= Len(log[p])
      /\ cursor' = [cursor EXCEPT ![s][p] = at]
      /\ offsets' = [offsets EXCEPT ![t][p] = OffsetAfter(at)]
      /\ found' = IF log[p][at] # Nudge /\ log[p][at][1] = t
                  THEN [found EXCEPT ![t] = Sighted(t, <<p, at>>)]
                  ELSE found
      /\ UNCHANGED <<log, sendVars, nudged, state, start, kept, holder, snapshot, faults>>

Unread(s) ==
  {p \in Partitions : cursor[s][p] # NoOffset /\ cursor[s][p] < Len(log[p])}

\* The deadline is over: as a rule everything was read, but the broker may
\* have been too slow for that.
ScanEnd(s) ==
  /\ holder[s] # Free
  /\ IF Unread(s) = {} THEN UNCHANGED faults ELSE Fault("deadline")
  /\ holder' = [holder EXCEPT ![s] = Free]
  /\ cursor' = [cursor EXCEPT ![s] = NoOffsets]
  /\ UNCHANGED <<log, sendVars, nudged, trackVars, found, snapshot>>

Next ==
  \/ Refresh
  \/ \E t \in Traces : AskTrace(t) \/ KeepTrace(t)
  \/ \E t \in Plays : AskPlay(t) \/ KeepPlay(t) \/ FailPlay(t) \/ PublishAnswer(t)
  \/ \E t \in Tracks : Post(t) \/ ScanStart(t)
  \/ \E t \in Traces, p \in Partitions : NudgeWatermark(t, p)
  \/ \E s \in Server : ScanEnd(s) \/ \E p \in Partitions : ScanRecord(s, p)

Spec == Init /\ [][Next]_vars

\* Only a scan is fair, and only once it has the lock: Kafka hands out what it
\* has and the deadline comes.  Nobody has to ask for a track (the pages poll
\* only the newest trace or the selected ad, and not for ever), nobody who waits
\* for the lock has to get it, no request has to succeed and no record to arrive.
FairSpec ==
  /\ Spec
  /\ \A s \in Server : WF_vars(ScanEnd(s)) /\ WF_vars(\E p \in Partitions : ScanRecord(s, p))

-----------------------------------------------------------------------------
(* Properties *)

\* The places of the records of t between two offsets of a partition.
Places(t, p, from, to) ==
  {<<p, i>> : i \in {j \in from + 1 .. to : log[p][j] # Nudge /\ log[p][j][1] = t}}

\* app.py 312-363 and 381-433: whatever scans run, stop at their deadline and
\* wait for each other, a track shows exactly its records between where it
\* started and where the next scan starts, each once.
SightingsExact ==
  \A t \in Tracks :
    LET shown == {found[t][i] : i \in 1..Len(found[t])}
    IN  /\ Len(found[t]) = Cardinality(shown)
        /\ shown = UNION {Places(t, p, start[t][p], offsets[t][p]) :
                            p \in {q \in Partitions : start[t][q] # NoOffset}}

\* What can be missed in front of the first offset: nothing of a trace, whose
\* offsets are read before it is sent; of a play the ad_request the page sends
\* beside its request, and the ad_response, when a refresh comes between.
OnlyEarlyMissed ==
  \A t \in Tracks, p \in Partitions :
    \A place \in Places(t, p, 0, start[t][p]) :
      t \in Plays /\ log[p][place[2]][2] \in {Response, 1}

\* A track that is scanned again and again shows every record it has in a
\* partition it started in, whatever other tracks are scanned in between with
\* the same consumer and wherever deadlines cut the scans (app.py 381-433).
AllFound ==
  \A t \in Tracks :
    []<>(holder[ServerOf(t)] = t) =>
      <>[](\A p \in Partitions : start[t][p] # NoOffset =>
             Places(t, p, start[t][p], Len(log[p])) \subseteq
               {found[t][i] : i \in 1..Len(found[t])})
=============================================================================
