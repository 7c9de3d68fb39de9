--------------------------- MODULE Reconciliation ---------------------------
(***************************************************************************)
(* The reconciliation of spark/reconcile.py over the realtime job: the     *)
(* archive job copies every record to Parquet, spark/batch_settlement.py   *)
(* settles what is committed there, and the report compares the settled    *)
(* impressions of a range of minutes with what the realtime stored and     *)
(* explains the difference by late rows and by SSAI twins.                 *)
(*                                                                         *)
(* The report only reads, so it is a state function: the properties hold   *)
(* of a report printed at any moment.  Only impressions are compared; the  *)
(* amounts, clicks, completes and requests of a settlement are left out.   *)
(***************************************************************************)
EXTENDS Realtime, SequencesExt

CONSTANTS TypeOf,       \* event_type
          CampaignOf,   \* campaign_id
          RequestOf,    \* ad_request_id
          SourceOf,     \* source, the path an SSAI impression came by
          IdOrder,      \* the order of event_id strings
          From, To      \* RECON_FROM and RECON_TO, in ticks

NonCampaign == {"none", "nofill", "pending"}
Priority == <<"server", "client">>

ASSUME ReconciliationAssumption ==
  /\ TypeOf \in [Events -> {"impression", "ad_impression", "click", "ad_request"}]
  /\ CampaignOf \in [Events -> STRING]
  /\ SourceOf \in [Events -> STRING]
  /\ IdOrder \in [Events -> Nat]
  /\ \A e, f \in Events : IdOrder[e] = IdOrder[f] => e = f
  /\ \A e, f \in Events : RequestOf[e] = RequestOf[f] => PartOf[e] = PartOf[f]
  /\ From \in Nat /\ To \in Nat

VARIABLE settled    \* settled[p]: records of p in the Parquet files of the last batch

Campaigns == {CampaignOf[e] : e \in Counted}

RInit == Init /\ settled = [p \in Partitions |-> 0]

\* The batch reads all the files the archive job has committed by now: some
\* prefix of every partition, never less than the batch before found.
Batch ==
  /\ \E cut \in [Partitions -> 0..MaxRecords] :
        /\ \A p \in Partitions : cut[p] \in settled[p]..Len(log[p])
        /\ cut # settled
        /\ settled' = cut
  /\ UNCHANGED vars

Report(state) == state /\ UNCHANGED settled

RNext == Batch \/ Report(Next)

RSpec == RInit /\ [][RNext]_<<vars, settled>>

\* The realtime job goes on; nobody has to run the batch.
RFairSpec == RSpec /\ Fairness

-----------------------------------------------------------------------------
(* The three counts of a report *)

ToMinute(t) == (t \div Minute) * Minute

InRange(t) == ToMinute(From) <= t /\ t < ToMinute(To)

\* TopicRouter sends the alias to ad.impression too, where the realtime job
\* takes every record for an impression.
OnImpressionTopic(e) == TypeOf[e] \in {"impression", "ad_impression"}

\* /agg/summary: the stored results whose window starts in the range.
Realtime(c) ==
  SumFunctionOnSet(agg,
    {e \in Counted : /\ OnImpressionTopic(e)
                     /\ CampaignOf[e] = c
                     /\ InRange(WindowEnd(e) - Minute)})

\* Mutant: the bounds of the late rows are not cut to the minute.
LateUncut(c) ==
  Cardinality({e \in dropped : /\ OnImpressionTopic(e)
                               /\ CampaignOf[e] = c
                               /\ From <= TimeOf[e] /\ TimeOf[e] < To})

\* fetch_late_dropped
Late(c) ==
  Cardinality({e \in dropped : /\ OnImpressionTopic(e)
                               /\ CampaignOf[e] = c
                               /\ InRange(TimeOf[e])})

\* One row per event_id of the archived records.
Deduped == UNION {ToSet(SubSeq(log[p], 1, settled[p])) : p \in Partitions}

AllImpressions ==
  {e \in Deduped : TypeOf[e] = "impression" /\ CampaignOf[e] \notin NonCampaign}

SourceRank(e) == IF SourceOf[e] \in ToSet(Priority)
                 THEN CHOOSE i \in DOMAIN Priority : Priority[i] = SourceOf[e]
                 ELSE Len(Priority) + 1

\* The order in which the rows of one ad request are ranked.
Before(e, f) ==
  \/ SourceRank(e) < SourceRank(f)
  \/ SourceRank(e) = SourceRank(f) /\ TimeOf[e] < TimeOf[f]
  \/ SourceRank(e) = SourceRank(f) /\ TimeOf[e] = TimeOf[f] /\ IdOrder[e] < IdOrder[f]

\* Mutant: SSAI twins are looked for within a minute only.
ImpressionsPerMinute ==
  {e \in AllImpressions :
     \A f \in AllImpressions \ {e} :
       RequestOf[f] = RequestOf[e] /\ SameWindow(e, f) => Before(e, f)}

\* The first impression of each ad request is the one that is billed.
Impressions ==
  {e \in AllImpressions :
     \A f \in AllImpressions \ {e} : RequestOf[f] = RequestOf[e] => Before(e, f)}

Settled(imps, c) ==
  Cardinality({e \in imps : CampaignOf[e] = c /\ InRange(ToMinute(TimeOf[e]))})

Ssai(c) == Settled(AllImpressions, c) - Settled(Impressions, c)
Diff(c) == Settled(Impressions, c) - Realtime(c)

Residual(c) == Diff(c) - (Late(c) - Ssai(c))

-----------------------------------------------------------------------------
(* Properties *)

\* e is in the batch, and the realtime has not read it, not emitted its window,
\* or lost it in a recovery.
NotYetRealtime(e) ==
  e \in AllImpressions /\ (e \notin seen \/ acc[e] > 0 \/ e \in swallowed)

RealtimeHolds(e) == agg[e] > 0 \/ e \in dropped

\* The batch found no record of e, or filters it out where the realtime does not.
NotInBatch(e) ==
  e \notin Deduped \/ TypeOf[e] # "impression" \/ CampaignOf[e] \in NonCampaign

\* The realtime may hold e twice: a retransmission came after its id expired, or
\* a recovery left a row of late_dropped for an event it then counts.
HeldTwice(e) == forgets[e] > 0 \/ (e \in dropped /\ agg[e] > 0)

Compared(c) == {e \in Events : /\ OnImpressionTopic(e)
                               /\ CampaignOf[e] = c
                               /\ InRange(TimeOf[e])}

\* reconcile.py 25-31 (and classify): late rows and SSAI twins account for the
\* whole difference.  What remains is zero unless, when positive, an impression
\* of the campaign is still to come; when negative, one the realtime holds is
\* missing from the batch or held twice.
ResidualExplained ==
  \A c \in Campaigns :
    /\ Residual(c) > 0 => \E e \in Compared(c) : NotYetRealtime(e)
    /\ Residual(c) < 0 =>
         \E e \in Compared(c) : RealtimeHolds(e) /\ (NotInBatch(e) \/ HeldTwice(e))

\* The settlement bills an ad request that has an impression exactly once,
\* whatever mix of SSAI twins, minutes and copies was archived when it ran:
\* summed over every minute and campaign, settled impressions count requests.
BilledOnce ==
  Cardinality(Impressions) = Cardinality({RequestOf[e] : e \in AllImpressions})
=============================================================================
