------------------------------ MODULE Decision ------------------------------
(***************************************************************************)
(* DecisionService.decide over the CampaignCache, composed with the outbox *)
(* its rows go to: one action per read of the cache, and the steps of      *)
(* Outbox in between.                                                      *)
(*                                                                         *)
(* The cache is two references a timer replaces one after the other, while *)
(* request threads read them without a lock.  A creative is named by its   *)
(* campaign: the map holds the same two for every campaign in it.          *)
(*                                                                         *)
(* Not modelled: the weights of the choice (any campaign of the list may   *)
(* be drawn), durations, click-through and the rest of the response.       *)
(***************************************************************************)
EXTENDS Outbox

CONSTANTS Campaigns,
          Requests,     \* request threads, one POST /v1/ad-request each
          Preference,   \* prefer_campaign_id of each request
          Forced,       \* requests with force_no_fill
          None,         \* no campaign, no creative, no reason
          Unknown,      \* crt-unknown
          MaxEdits      \* bound: changes of campaigns.active

ASSUME DecisionAssumption ==
  /\ None \notin Campaigns /\ Unknown \notin Campaigns /\ None # Unknown
  /\ None \notin {"policy", "no_campaign", "budget_exhausted"}
  /\ Preference \in [Requests -> Campaigns \cup {None}]
  /\ Forced \subseteq Requests
  /\ MaxEdits \in Nat

VARIABLES
  active,     \* campaigns with active = true in the database
  cache,      \* CampaignCache.cache
  creatives,  \* campaigns that have an entry in CampaignCache.creatives
  fetched,    \* the rows a refresh in progress has read
  refresh,    \* where the refresh is
  dpc,        \* dpc[q]: where the request is in decide()
  campaign,   \* campaign[q]: the campaign chosen
  creative,   \* creative[q]: the campaign whose creative is served
  reason,     \* reason[q]: no_fill_reason
  rowOf,      \* rowOf[q]: the outbox row the request inserts
  payload,    \* payload[r]: campaign and creative in row r
  edits,      \* history: changes of active so far
  wanted,     \* history: requests that were to be filled
  replaced    \* history: requests under which the cache was replaced
              \* between their draw and their question for its size

cacheVars  == <<active, cache, creatives, fetched, refresh, edits>>
localVars  == <<campaign, creative, reason, wanted>>
rowVars    == <<rowOf, payload>>
decideVars == <<dpc, localVars, rowVars, replaced>>
dVars == <<vars, cacheVars, decideVars>>

Choice == Campaigns \cup {None, Unknown}
Response(q) == [campaign |-> campaign[q], creative |-> creative[q]]
NoPayload == [campaign |-> None, creative |-> None]

DTypeOK ==
  /\ active \in SUBSET Campaigns /\ cache \in SUBSET Campaigns
  /\ creatives \in SUBSET Campaigns /\ fetched \in SUBSET Campaigns
  /\ refresh \in {"idle", "fetched", "cached"}
  /\ dpc \in [Requests -> {"new", "prefer", "draw", "reason", "creative",
                           "insert", "commit", "committed", "answered", "failed"}]
  /\ campaign \in [Requests -> Campaigns \cup {None}]
  /\ creative \in [Requests -> Choice]
  /\ reason \in [Requests -> {None, "policy", "no_campaign", "budget_exhausted"}]
  /\ rowOf \in [Requests -> Rows \cup {NoRow}]
  /\ payload \in [Rows -> [campaign : Campaigns \cup {None}, creative : Choice]]
  /\ edits \in Nat
  /\ wanted \in SUBSET Requests /\ replaced \in SUBSET Requests

DInit ==
  /\ Init
  /\ active \in SUBSET Campaigns
  /\ cache = {} /\ creatives = {} /\ fetched = {}
  /\ refresh = "idle"
  /\ dpc = [q \in Requests |-> "new"]
  /\ campaign = [q \in Requests |-> None]
  /\ creative = [q \in Requests |-> None]
  /\ reason = [q \in Requests |-> None]
  /\ rowOf = [q \in Requests |-> NoRow]
  /\ payload = [r \in Rows |-> NoPayload]
  /\ edits = 0
  /\ wanted = {} /\ replaced = {}

-----------------------------------------------------------------------------
(* CampaignCache.refresh, every 60 s; one that fails changes nothing *)

\* An operator switches a campaign on or off.
EditCampaign(c) ==
  /\ edits < MaxEdits
  /\ edits' = edits + 1
  /\ active' = IF c \in active THEN active \ {c} ELSE active \cup {c}
  /\ UNCHANGED <<vars, cache, creatives, fetched, refresh, decideVars>>

\* The query.
Fetch ==
  /\ refresh = "idle"
  /\ fetched' = active
  /\ refresh' = "fetched"
  /\ UNCHANGED <<vars, active, cache, creatives, edits, decideVars>>

\* cache.set(rows)
SetCache ==
  /\ refresh = "fetched"
  /\ cache' = fetched
  /\ refresh' = "cached"
  /\ replaced' = replaced \cup {q \in wanted : dpc[q] = "reason"}
  /\ UNCHANGED <<vars, active, creatives, fetched, edits, dpc, localVars, rowVars>>

RetainCreatives ==               \* mutant: entries are only ever removed
  creatives \cap fetched
\* rows.associate { ... }
CreativesOf == fetched

\* creatives.set(...)
SetCreatives ==
  /\ refresh = "cached"
  /\ creatives' = CreativesOf
  /\ fetched' = {}
  /\ refresh' = "idle"
  /\ UNCHANGED <<vars, active, cache, edits, decideVars>>

-----------------------------------------------------------------------------
(* DecisionService.decide *)

Goto(q, place) == dpc' = [dpc EXCEPT ![q] = place]

\* wantFill: not forced, and the dice of noFillRate.
Begin(q) ==
  /\ dpc[q] = "new"
  /\ \/ /\ q \notin Forced
        /\ wanted' = wanted \cup {q}
        /\ Goto(q, "prefer")
     \/ /\ Goto(q, "reason")
        /\ UNCHANGED wanted
  /\ UNCHANGED <<vars, cacheVars, campaign, creative, reason, rowVars, replaced>>

\* campaigns.byId(prefer_campaign_id)
ByPreference(q) ==
  /\ dpc[q] = "prefer"
  /\ \/ /\ Preference[q] \in cache
        /\ campaign' = [campaign EXCEPT ![q] = Preference[q]]
        /\ Goto(q, "creative")
     \/ /\ Preference[q] \notin cache
        /\ Goto(q, "draw")
        /\ UNCHANGED campaign
  /\ UNCHANGED <<vars, cacheVars, creative, reason, wanted, rowVars, replaced>>

\* campaigns.pick(), on the list as it is now.
Draw(q) ==
  /\ dpc[q] = "draw"
  /\ \/ /\ \E c \in cache : campaign' = [campaign EXCEPT ![q] = c]
        /\ Goto(q, "creative")
     \/ /\ cache = {}
        /\ Goto(q, "reason")
        /\ UNCHANGED campaign
  /\ UNCHANGED <<vars, cacheVars, creative, reason, wanted, rowVars, replaced>>

EmptyByCreatives == creatives = {}   \* mutant: size() of the other reference
EmptyNow == cache = {}               \* size() == 0

\* noFillReason of a request without a campaign.
Reason(q) ==
  /\ dpc[q] = "reason"
  /\ reason' = [reason EXCEPT ![q] = IF q \in Forced THEN "policy"
                                     ELSE IF EmptyNow THEN "no_campaign"
                                     ELSE "budget_exhausted"]
  /\ Goto(q, "insert")
  /\ UNCHANGED <<vars, cacheVars, campaign, creative, wanted, rowVars, replaced>>

\* campaigns.creativeFor(campaignId)
Creative(q) ==
  /\ dpc[q] = "creative"
  /\ creative' = [creative EXCEPT
                    ![q] = IF campaign[q] \in creatives THEN campaign[q] ELSE Unknown]
  /\ Goto(q, "insert")
  /\ UNCHANGED <<vars, cacheVars, campaign, reason, wanted, rowVars, replaced>>

\* INSERT INTO event_outbox, with the decision as payload.
InsertRow(q, r) ==
  /\ dpc[q] = "insert"
  /\ DecideInsert(r)
  /\ rowOf' = [rowOf EXCEPT ![q] = r]
  /\ payload' = [payload EXCEPT ![r] = Response(q)]
  /\ Goto(q, "commit")
  /\ UNCHANGED <<cacheVars, localVars, replaced>>

\* The insert throws before a row exists.
InsertFails(q) ==
  /\ dpc[q] = "insert"
  /\ Goto(q, "failed")
  /\ UNCHANGED <<vars, cacheVars, localVars, rowVars, replaced>>

\* What the caller of decide gets to know about the end of its transaction: a
\* commit whose acknowledgement is lost is an error to the client.
KnownAfterAll(q) == {"committed"}    \* mutant: a rollback is answered as well
KnownAfter(q) ==
  IF tx'[rowOf[q]] = "committed" THEN {"committed", "failed"} ELSE {"failed"}

EndDecide(q) ==
  /\ dpc[q] = "commit"
  /\ DecideEnd(rowOf[q])
  /\ \E place \in KnownAfter(q) : Goto(q, place)
  /\ UNCHANGED <<cacheVars, localVars, rowVars, replaced>>

\* The response.
Answer(q) ==
  /\ dpc[q] = "committed"
  /\ Goto(q, "answered")
  /\ UNCHANGED <<vars, cacheVars, localVars, rowVars, replaced>>

-----------------------------------------------------------------------------

\* The process dies with the requests in it and starts with an empty cache.
DCrash ==
  /\ Crash
  /\ cache' = {} /\ creatives' = {} /\ fetched' = {}
  /\ refresh' = "idle"
  /\ dpc' = [q \in Requests |-> IF dpc[q] \in {"new", "answered"} THEN dpc[q]
                                ELSE "failed"]
  /\ UNCHANGED <<active, edits, localVars, rowVars, replaced>>

\* What the outbox does by itself.
OutboxStep ==
  /\ \/ \E r \in Rows : LateAppend(r) \/ LateExpire(r)
     \/ \E w \in Workers : WorkerStep(w) \/ BrokerAppend(w) \/ ConnectionDrops(w)
     \/ RefreshBacklog
  /\ UNCHANGED <<cacheVars, decideVars>>

DecideStep(q) ==
  \/ Begin(q) \/ ByPreference(q) \/ Draw(q)
  \/ Reason(q) \/ Creative(q)
  \/ InsertFails(q) \/ (\E r \in Rows : InsertRow(q, r))
  \/ EndDecide(q) \/ Answer(q)

RefreshStep == Fetch \/ SetCache \/ SetCreatives

DNext ==
  \/ \E c \in Campaigns : EditCampaign(c)
  \/ RefreshStep
  \/ \E q \in Requests : DecideStep(q)
  \/ OutboxStep
  \/ DCrash

DSpec == DInit /\ [][DNext]_dVars

(***************************************************************************)
(* The threads of the outbox run, as in FairSpec; nothing that is promised *)
(* here needs the timer of the cache.                                      *)
(***************************************************************************)
DFairSpec ==
  /\ DSpec
  /\ \A w \in Workers : WF_dVars(WorkerStep(w) /\ UNCHANGED <<cacheVars, decideVars>>)
                        /\ WF_dVars(BrokerAppend(w) /\ UNCHANGED <<cacheVars, decideVars>>)

-----------------------------------------------------------------------------
(* Safety *)

(***************************************************************************)
(* Decision and record are one transaction: who is answered has a          *)
(* committed row, and the row says what the answer says                    *)
(* (DecisionService.kt:98-106, 129-163).  The converse does not hold: the  *)
(* answer may be lost after the commit.                                    *)
(***************************************************************************)
AnsweredIsRecorded ==
  \A q \in Requests : dpc[q] \in {"committed", "answered"} =>
    /\ rowOf[q] # NoRow /\ tx[rowOf[q]] = "committed"
    /\ payload[rowOf[q]] = Response(q)

(***************************************************************************)
(* What the topic holds was decided: every record is of one request, with  *)
(* its campaign and creative, and of no request that is still open         *)
(* (DecisionService.kt:126-128).                                           *)
(***************************************************************************)
TopicHoldsDecisions ==
  \A r \in Rows : copies[r] + late[r] > 0 =>
    \E q \in Requests : /\ rowOf[q] = r /\ payload[r] = Response(q)
                        /\ dpc[q] \in {"committed", "answered", "failed"}

(***************************************************************************)
(* A fill is served with crt-unknown only while a refresh is between its   *)
(* two assignments, or when the campaign has left the cache since it was   *)
(* chosen (CampaignCache.kt:55-64, 91-94).                                 *)
(***************************************************************************)
UnknownOnlyWhenSwitching ==
  [][\A q \in Requests : creative[q] = None /\ creative'[q] = Unknown =>
        refresh = "cached" \/ campaign[q] \notin cache]_dVars

(***************************************************************************)
(* A request that was to be filled is refused as budget_exhausted only     *)
(* when the cache was replaced between the draw and the question for its   *)
(* size (DecisionService.kt:116-123): otherwise an empty cache is called   *)
(* no_campaign.                                                            *)
(***************************************************************************)
ExhaustedOnlyByChance ==
  \A q \in wanted : reason[q] = "budget_exhausted" => q \in replaced

-----------------------------------------------------------------------------
(* The inductive invariant behind the safety properties *)

Undecided == {"new", "prefer", "draw", "reason"}
WithoutRow == Undecided \cup {"creative", "insert"}

\* A request has a row from its insert on, of its own and with its decision;
\* a row that is there was inserted by a request.
RowInv ==
  /\ \A q \in Requests :
       /\ dpc[q] \in WithoutRow => rowOf[q] = NoRow
       /\ dpc[q] = "commit" => rowOf[q] # NoRow /\ tx[rowOf[q]] = "open"
       /\ dpc[q] \in {"committed", "answered"} =>
            rowOf[q] # NoRow /\ tx[rowOf[q]] = "committed"
       /\ rowOf[q] # NoRow =>
            /\ tx[rowOf[q]] # "absent"
            /\ payload[rowOf[q]] = Response(q)
            /\ \A p \in Requests \ {q} : rowOf[p] # rowOf[q]
  /\ \A r \in Rows : tx[r] # "absent" => \E q \in Requests : rowOf[q] = r

\* Outside its two assignments a refresh leaves the two references equal.
CacheInv ==
  IF refresh = "cached" THEN cache = fetched ELSE creatives = cache

\* A request that drew nothing from a cache nobody replaced sees it empty.
DrawInv ==
  \A q \in Requests :
    /\ dpc[q] \in Undecided => reason[q] = None
    /\ q \in wanted =>
         /\ dpc[q] # "new"
         /\ dpc[q] = "reason" /\ q \notin replaced => cache = {}
         /\ reason[q] = "budget_exhausted" => q \in replaced

(***************************************************************************)
(* What the proofs in OutboxProofs are about, beside the invariant of the  *)
(* outbox itself (DecisionService.kt:107-163, CampaignCache.kt:36-67).     *)
(***************************************************************************)
DInv == RowInv /\ CacheInv /\ DrawInv

-----------------------------------------------------------------------------
(* Liveness, under DFairSpec *)

(***************************************************************************)
(* From the answer to the topic: what a client was told is in ad.request   *)
(* in the end, unless the producer refuses a row at or before it           *)
(* (DecisionService.kt:98-106, OutboxWorker.kt:32-41).                     *)
(***************************************************************************)
AnsweredReachesTopic ==
  \A r \in Rows \ HeldUp :
    (\E q \in Requests : dpc[q] = "answered" /\ rowOf[q] = r) ~> copies[r] >= 1
=============================================================================
