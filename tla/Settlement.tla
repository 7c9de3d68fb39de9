----------------------------- MODULE Settlement -----------------------------
(***************************************************************************)
(* The settlement batch (spark/batch_settlement.py) and the report that    *)
(* reads its tables (spark/reconcile.py), as processes: a run of the batch *)
(* reads the archive once, then replaces daily_settlement and after it     *)
(* minute_settlement, each by a TRUNCATE and by inserts that commit by     *)
(* themselves (write_jdbc).  It may die in between, nothing keeps a second *)
(* run from starting, and a report reads Redis, one of the tables and the  *)
(* late rows at three different moments.                                   *)
(*                                                                         *)
(* The realtime side is as simple as can be: an impression is counted in   *)
(* Redis or dropped as late, once.  Module Realtime has what may become of *)
(* that, module Reconciliation a report over it.  A minute is one tick.    *)
(*                                                                         *)
(* Not modelled: ALTER TABLE and CREATE TABLE IF NOT EXISTS, the totals    *)
(* and rates a report prints, rows without event_id or event_time.         *)
(***************************************************************************)
EXTENDS Integers, FiniteSets, Functions

CONSTANTS Rows,         \* rows of the Parquet files: copies of events
          EventOf,      \* event_id of a row
          LateFlag,     \* the late_flag of a row, the mark _late of the generator
          KindOf,       \* KindOf[e]: event_type with quartile = complete, fill = true
          CampaignOf,   \* campaign_id
          RequestOf,    \* ad_request_id, or event_id when it has none
          SourceRank,   \* place of source in SSAI_SOURCE_PRIORITY
          TimeOf,       \* event_time, in minutes
          IdOrder,      \* the order of event_id strings
          Day,          \* minutes in a day
          Rates,        \* campaign_rates: cpm in hundredths
          Jobs,         \* runs of the batch
          Sessions,     \* bound: the runs, and the scopes for a report, of one behaviour
          Faults,       \* the kinds of fault a run may meet
          MaxFaults     \* bound: faults per run

Events == {EventOf[r] : r \in Rows}
Campaigns == {CampaignOf[e] : e \in Events} \ {"none", "nofill", "pending"}
FaultKind == {"crash", "late"}

\* A report is of the minutes of a range, or of one day.
Scopes == {s \in [ranged : BOOLEAN, from : 0..4*Day, to : 0..4*Day] :
             s.ranged \/ (s.from % Day = 0 /\ s.to = s.from + Day)}

ASSUME SettlementAssumption ==
  /\ IsFiniteSet(Rows)
  /\ DOMAIN EventOf = Rows
  /\ LateFlag \in [Rows -> BOOLEAN]
  /\ KindOf \in [Events -> {"impression", "click", "complete", "response", "other"}]
  /\ DOMAIN CampaignOf = Events
  /\ DOMAIN RequestOf = Events
  /\ SourceRank \in [Events -> Nat]
  /\ TimeOf \in [Events -> Nat]
  /\ IdOrder \in [Events -> Nat]
  /\ \A e, f \in Events : IdOrder[e] = IdOrder[f] => e = f
  /\ Day \in Nat \ {0}
  /\ \A c \in DOMAIN Rates : Rates[c] \in Nat
  /\ Sessions \subseteq [runs : (SUBSET Jobs) \ {{}}, scopes : SUBSET Scopes]
  /\ Faults \subseteq FaultKind
  /\ MaxFaults \in Nat

VARIABLES
  session,   \* the session of this behaviour
  archived,  \* rows in committed Parquet files
  counted,   \* impressions in the Redis sums
  dropped,   \* impressions in late_dropped
  stage,     \* stage[j]: see Stages
  result,    \* result[j]: what run j read, and settles
  todo,      \* todo[j]: keys run j has still to insert into its table
  daily,     \* daily_settlement: key -> row
  minute,    \* minute_settlement: key -> row
  report,    \* the report: its stage and what it has read
  alone,     \* history: runs no other run was active with
  whole,     \* history: the result both tables hold, if one run wrote them alone
  faults     \* history: faults so far

jobVars == <<stage, result, todo, alone>>
tables == <<daily, minute, whole>>
live == <<session, archived, counted, dropped>>
vars == <<live, jobVars, tables, report, faults>>

Stages == {"new", "read", "daily", "between", "minute", "done", "failed"}
Active(j) == stage[j] \in {"read", "daily", "between", "minute"}
Empty == [key \in {} |-> {}]
Nothing == [rows |-> {}, late |-> {}]
NoFigures == [c \in Campaigns |-> 0]
NoReport == [stage |-> "none", scope |-> [ranged |-> TRUE, from |-> 0, to |-> 0],
             realtime |-> NoFigures, early |-> {}, base |-> Nothing, batch |-> NoFigures,
             raw |-> NoFigures, late |-> NoFigures, discarded |-> {}, lateRead |-> FALSE]

Impression(e) == KindOf[e] = "impression" /\ CampaignOf[e] \in Campaigns

Init ==
  /\ session \in Sessions
  /\ archived = {} /\ counted = {} /\ dropped = {}
  /\ stage = [j \in Jobs |-> "new"]
  /\ result = [j \in Jobs |-> Nothing]
  /\ todo = [j \in Jobs |-> {}]
  /\ daily = Empty /\ minute = Empty
  /\ report = NoReport
  /\ alone = {}
  /\ whole = Nothing
  /\ faults = 0

Fault(kind) ==
  /\ kind \in Faults
  /\ faults < MaxFaults
  /\ faults' = faults + 1

-----------------------------------------------------------------------------
(* The environment: the archive job, and the realtime job when a report is *)
(* going to look                                                           *)

Archive(r) ==
  /\ r \notin archived
  /\ archived' = archived \cup {r}
  /\ UNCHANGED <<session, counted, dropped, jobVars, tables, report, faults>>

CountImpression(e) ==
  /\ Impression(e) /\ e \notin counted \cup dropped
  /\ session.scopes # {}
  /\ counted' = counted \cup {e}
  /\ UNCHANGED <<session, archived, dropped, jobVars, tables, report, faults>>

DropImpression(e) ==
  /\ Impression(e) /\ e \notin counted \cup dropped
  /\ session.scopes # {}
  /\ dropped' = dropped \cup {e}
  /\ UNCHANGED <<session, archived, counted, jobVars, tables, report, faults>>

-----------------------------------------------------------------------------
(* What a run computes from the rows it has read *)

\* row_number() = 1 per event_id.  Copies agree in event_time and source_topic,
\* so any of them may be the row that stays; they differ in the mark at most,
\* which a batch POST carries and a pixel does not.
LateChoices(rows) ==
  {late \in SUBSET {EventOf[r] : r \in {s \in rows : LateFlag[s]}} :
     \A r \in rows : EventOf[r] \notin late => \E s \in rows : EventOf[s] = EventOf[r] /\ ~LateFlag[s]}

Deduped(rows) == {e \in {EventOf[r] : r \in rows} : CampaignOf[e] \in Campaigns}

OfKind(rows, kind) == {e \in Deduped(rows) : KindOf[e] = kind}

AllImpressions(rows) == OfKind(rows, "impression")

\* The order in which the impressions of one ad request are ranked.
Precedes(e, f) ==
  \/ SourceRank[e] < SourceRank[f]
  \/ SourceRank[e] = SourceRank[f] /\ TimeOf[e] < TimeOf[f]
  \/ SourceRank[e] = SourceRank[f] /\ TimeOf[e] = TimeOf[f] /\ IdOrder[e] < IdOrder[f]

Impressions(rows) ==
  {e \in AllImpressions(rows) :
     \A f \in AllImpressions(rows) \ {e} : RequestOf[f] = RequestOf[e] => Precedes(e, f)}

Key(e, unit) == <<TimeOf[e] \div unit, CampaignOf[e]>>
Keys(es, unit) == {Key(e, unit) : e \in es}
CountAt(es, key, unit) == Cardinality({e \in es : Key(e, unit) = key})

\* round(impressions / 1000 * cpm, 2), in hundredths.
Amount(imps, c) ==
  LET cpm == IF c \in DOMAIN Rates THEN Rates[c] ELSE 0
  IN  (imps * cpm + 500) \div 1000

\* The columns both tables have.
Counts(rows, key, unit) ==
  [impressions |-> CountAt(Impressions(rows), key, unit),
   raw         |-> CountAt(AllImpressions(rows), key, unit),
   clicks      |-> CountAt(OfKind(rows, "click"), key, unit),
   completes   |-> CountAt(OfKind(rows, "complete"), key, unit),
   requests    |-> CountAt(OfKind(rows, "response"), key, unit)]

\* Copies count once more each in imp_rows_raw.
Duplicates(rows, key) ==
  Cardinality({r \in rows : EventOf[r] \in AllImpressions(rows) /\ Key(EventOf[r], Day) = key})
    - CountAt(AllImpressions(rows), key, Day)

\* Mutant: the join starts from the clicks.
DailyKeysOfClicks(rows) == Keys(OfKind(rows, "click"), Day)

\* The joins start from the campaigns with impressions.
DailyKeys(rows) == Keys(AllImpressions(rows), Day)

DailyOf(res) ==
  [key \in DailyKeys(res.rows) |->
     LET of == Counts(res.rows, key, Day)
     IN  [impressions |-> of.impressions, raw |-> of.raw, clicks |-> of.clicks,
          completes |-> of.completes, requests |-> of.requests,
          dupes_removed |-> Duplicates(res.rows, key),
          late |-> CountAt(Impressions(res.rows) \cap res.late, key, Day),
          amount |-> Amount(of.impressions, key[2])]]

\* Full outer joins: all kinds.
MinuteKeys(rows) ==
  Keys(UNION {OfKind(rows, k) : k \in {"impression", "click", "complete", "response"}}, 1)

MinuteOf(res) == [key \in MinuteKeys(res.rows) |-> Counts(res.rows, key, 1)]

-----------------------------------------------------------------------------
(* A run of the batch *)

\* The files are listed once, and never change; without a row the run ends.
Start(j) ==
  /\ stage[j] = "new" /\ j \in session.runs
  /\ archived # {}
  /\ stage' = [stage EXCEPT ![j] = "read"]
  /\ \E late \in LateChoices(archived) :
       result' = [result EXCEPT ![j] = [rows |-> archived, late |-> late]]
  /\ alone' = IF \E k \in Jobs : Active(k) THEN alone \ {k \in Jobs : Active(k)} ELSE alone \cup {j}
  /\ UNCHANGED <<todo, tables, live, report, faults>>

\* Mutant: the rows are inserted beside the old ones.
KeepDaily(j) ==
  /\ stage[j] = "read"
  /\ stage' = [stage EXCEPT ![j] = "daily"]
  /\ todo' = [todo EXCEPT ![j] = DOMAIN DailyOf(result[j]) \ DOMAIN daily]
  /\ whole' = Nothing
  /\ UNCHANGED <<daily, minute, result, alone, live, report, faults>>

TruncateDaily(j) ==
  /\ stage[j] = "read"
  /\ stage' = [stage EXCEPT ![j] = "daily"]
  /\ todo' = [todo EXCEPT ![j] = DOMAIN DailyOf(result[j])]
  /\ daily' = Empty
  /\ whole' = Nothing
  /\ UNCHANGED <<minute, result, alone, live, report, faults>>

\* Mutant: rows are written without regard to the ones there.
ConflictNever(table, part) == FALSE

\* The primary key of either table: (dt, campaign_id) in 01-schema.sql, and
\* (minute_ts, campaign_id) in the DDL of the batch.
Conflict(table, part) == part \cap DOMAIN table # {}

Inserted(table, rows, part) ==
  [key \in DOMAIN table \cup part |-> IF key \in part THEN rows[key] ELSE table[key]]

\* One partition of the data, in a transaction of its own.
InsertDaily(j, part) ==
  /\ stage[j] = "daily"
  /\ part # {} /\ part \subseteq todo[j]
  /\ ~Conflict(daily, part)
  /\ daily' = Inserted(daily, DailyOf(result[j]), part)
  /\ todo' = [todo EXCEPT ![j] = @ \ part]
  /\ UNCHANGED <<stage, result, alone, minute, whole, live, report, faults>>

EndDaily(j) ==
  /\ stage[j] = "daily" /\ todo[j] = {}
  /\ stage' = [stage EXCEPT ![j] = "between"]
  /\ UNCHANGED <<result, todo, alone, tables, live, report, faults>>

TruncateMinute(j) ==
  /\ stage[j] = "between"
  /\ stage' = [stage EXCEPT ![j] = "minute"]
  /\ todo' = [todo EXCEPT ![j] = DOMAIN MinuteOf(result[j])]
  /\ minute' = Empty
  /\ whole' = Nothing
  /\ UNCHANGED <<daily, result, alone, live, report, faults>>

InsertMinute(j, part) ==
  /\ stage[j] = "minute"
  /\ part # {} /\ part \subseteq todo[j]
  /\ ~Conflict(minute, part)
  /\ minute' = Inserted(minute, MinuteOf(result[j]), part)
  /\ todo' = [todo EXCEPT ![j] = @ \ part]
  /\ UNCHANGED <<stage, result, alone, daily, whole, live, report, faults>>

\* A row of another run has the key: the transaction rolls back, the run ends.
InsertFails(j, part) ==
  /\ part \subseteq todo[j]
  /\ \/ stage[j] = "daily" /\ Conflict(daily, part)
     \/ stage[j] = "minute" /\ Conflict(minute, part)
  /\ stage' = [stage EXCEPT ![j] = "failed"]
  /\ UNCHANGED <<result, todo, alone, tables, live, report, faults>>

EndMinute(j) ==
  /\ stage[j] = "minute" /\ todo[j] = {}
  /\ stage' = [stage EXCEPT ![j] = "done"]
  /\ whole' = IF j \in alone THEN result[j] ELSE Nothing
  /\ UNCHANGED <<result, todo, alone, daily, minute, live, report, faults>>

Crash(j) ==
  /\ Active(j)
  /\ Fault("crash")
  /\ stage' = [stage EXCEPT ![j] = "failed"]
  /\ UNCHANGED <<result, todo, alone, tables, live, report>>

-----------------------------------------------------------------------------
(* A report *)

\* Mutant: the last minute of the range belongs to it.
InScopeThrough(s, t) == s.from <= t /\ t <= s.to

InScope(s, t) == s.from <= t /\ t < s.to

CountFor(es, s) ==
  [c \in Campaigns |-> Cardinality({e \in es : CampaignOf[e] = c /\ InScope(s, TimeOf[e])})]

\* fetch_realtime
ReadRealtime(s) ==
  /\ report.stage = "none"
  /\ report' = [report EXCEPT !.stage = "realtime", !.scope = s,
                               !.realtime = CountFor(counted, s), !.early = counted]
  /\ UNCHANGED <<live, jobVars, tables, faults>>

\* fetch_batch: the minutes of the range, or the day.
BatchSum(s, c, field) ==
  IF s.ranged
  THEN SumFunction([key \in {k \in DOMAIN minute : k[2] = c /\ InScope(s, k[1])} |->
                      minute[key][field]])
  ELSE SumFunction([key \in {k \in DOMAIN daily : k[2] = c /\ k[1] = s.from \div Day} |->
                      daily[key][field]])

ReadBatch ==
  /\ report.stage = "realtime"
  /\ report' = [report EXCEPT !.stage = "batch", !.base = whole,
       !.batch = [c \in Campaigns |-> BatchSum(report.scope, c, "impressions")],
       !.raw   = [c \in Campaigns |-> BatchSum(report.scope, c, "raw")]]
  /\ UNCHANGED <<live, jobVars, tables, faults>>

\* fetch_late_dropped, and the report is stored.
ReadLate ==
  /\ report.stage = "batch"
  /\ report' = [report EXCEPT !.stage = "stored", !.late = CountFor(dropped, report.scope),
                               !.discarded = dropped, !.lateRead = TRUE]
  /\ UNCHANGED <<live, jobVars, tables, faults>>

\* late_dropped cannot be opened (read_jdbc, inside the try): it counts as none.
\* A query that fails afterwards, in collect, ends the program: a report that
\* does not go on.
LateUnreadable ==
  /\ report.stage = "batch"
  /\ Fault("late")
  /\ report' = [report EXCEPT !.stage = "stored", !.discarded = dropped]
  /\ UNCHANGED <<live, jobVars, tables>>

Next ==
  \/ \E r \in Rows : Archive(r)
  \/ \E e \in Events : CountImpression(e) \/ DropImpression(e)
  \/ \E j \in Jobs :
       \/ Start(j) \/ TruncateDaily(j) \/ EndDaily(j)
       \/ TruncateMinute(j) \/ EndMinute(j) \/ Crash(j)
       \/ \E part \in SUBSET todo[j] :
            InsertDaily(j, part) \/ InsertMinute(j, part) \/ InsertFails(j, part)
  \/ \E s \in session.scopes : ReadRealtime(s)
  \/ ReadBatch \/ ReadLate \/ LateUnreadable

Spec == Init /\ [][Next]_vars

-----------------------------------------------------------------------------
(* Properties *)

MinuteRow == [impressions : Nat, raw : Nat, clicks : Nat, completes : Nat, requests : Nat]
DailyRow == [impressions : Nat, raw : Nat, clicks : Nat, completes : Nat, requests : Nat,
             dupes_removed : Nat, late : Nat, amount : Nat]

\* The tables hold counts; that no column of differences is negative depends on
\* what is counted before and after the SSAI twins are left out.
TypeOK ==
  /\ session \in Sessions
  /\ archived \subseteq Rows
  /\ counted \subseteq Events /\ dropped \subseteq Events
  /\ stage \in [Jobs -> Stages]
  /\ \A j \in Jobs : result[j].rows \subseteq archived /\ result[j].late \subseteq Events
  /\ \A key \in DOMAIN daily : daily[key] \in DailyRow
  /\ \A key \in DOMAIN minute : minute[key] \in MinuteRow
  /\ alone \subseteq Jobs
  /\ faults \in 0..MaxFaults

\* batch_settlement.py 194-195, "the whole range is computed again and swapped
\* in (idempotent)": a run without another beside it leaves exactly what the
\* rows it read come to, in both tables, whatever earlier runs, also ones that
\* died between two statements or failed on each other's rows, left there.
RerunReplaces ==
  whole # Nothing => daily = DailyOf(whole) /\ minute = MinuteOf(whole)

\* Of a table, what runs leave that came to the same keys, and all succeeded.
OneRun(table, of) ==
  (\A j, k \in session.runs : DOMAIN of[j] = DOMAIN of[k])
    => \E j \in session.runs : table = of[j]

\* Nothing keeps two runs apart, but the primary keys: when all of them succeed,
\* each table as a whole is of one of them (not both tables of the same one) if
\* they came to the same keys.  If one has keys the other has not, a table may
\* be mixed, and two runs may then pay one ad request in two rows.
OneRunPerTable ==
  (\A j \in session.runs : stage[j] = "done") =>
    /\ OneRun(daily, [j \in session.runs |-> DailyOf(result[j])])
    /\ OneRun(minute, [j \in session.runs |-> MinuteOf(result[j])])

MinuteSum(key, field) ==
  SumFunction([k \in {m \in DOMAIN minute : m[1] \div Day = key[1] /\ m[2] = key[2]} |->
                 minute[k][field]])

\* batch_settlement.py 145-153 and 228-232: a row of the daily table is the sum
\* of its minutes, in every column, and the minutes of a campaign that has no
\* row for the day have no impression, counted or paid (but may have clicks).
DayIsSumOfMinutes ==
  whole # Nothing =>
    /\ \A key \in DOMAIN daily :
         \A field \in {"impressions", "raw", "clicks", "completes", "requests"} :
           daily[key][field] = MinuteSum(key, field)
    /\ \A key \in DOMAIN minute :
         <<key[1] \div Day, key[2]>> \notin DOMAIN daily => minute[key].raw = 0

Residual(c) ==
  (report.batch[c] - report.realtime[c]) - (report.late[c] - (report.raw[c] - report.batch[c]))

Compared(c) == {e \in Events : Impression(e) /\ CampaignOf[e] = c /\ InScope(report.scope, TimeOf[e])}

\* reconcile.py 20-31, with three reads at different moments: when the batch
\* table was read it held a whole result, and the late rows could be read.  Then
\* a positive residual is an impression of the batch that was neither in Redis
\* nor among the late rows when these were read, and a negative one is an
\* impression the realtime had decided on and the batch had not seen.
ReportExplained ==
  report.stage = "stored" =>
    (report.lateRead /\ report.base # Nothing =>
       \A c \in Campaigns :
         /\ Residual(c) > 0 => \E e \in Compared(c) \cap AllImpressions(report.base.rows) :
                                 e \notin report.early \cup report.discarded
         /\ Residual(c) < 0 => \E e \in Compared(c) \ AllImpressions(report.base.rows) :
                                 e \in report.early \cup report.discarded)
=============================================================================
