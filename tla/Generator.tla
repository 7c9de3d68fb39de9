----------------------------- MODULE Generator -----------------------------
(***************************************************************************)
(* The event generator: viewers that play ads (users.py one_ad), the       *)
(* client of ad-decision (addecision.py), and the emitter that injects     *)
(* anomalies, buffers, and sends to the collector (emitter.py), until      *)
(* main.py stops the tasks and closes the emitter.  All run in one event   *)
(* loop: an action is what happens between two awaits.                     *)
(*                                                                         *)
(* A message stands for its content.  Of the anomalies, a missing field    *)
(* and a shifted event_time change the content only; a forged signature    *)
(* decides the path.  Not modelled: sessions, pings and the breaks between *)
(* ads, which emit in the same way; the choice of content, campaign and    *)
(* creative; the clock, printed statistics.                                *)
(***************************************************************************)
EXTENDS Integers, Sequences, SequencesExt, FiniteSets

CONSTANTS Ads,         \* ads that are played, each by a viewer
          Modes,       \* with --ad-decision (TRUE), without (FALSE)
          Quartiles,   \* quartile events of an ad (5)
          ClickFrom,   \* quartile events before a click (3: up to midpoint)
          BatchSize,   \* events per POST
          Burst,       \* --mode burst: sending pauses now and then
          Faults,      \* the kinds of fault or anomaly a run may meet
          MaxFaults    \* bound: faults and anomalies per run

ASSUME GeneratorAssumption ==
  /\ Modes \subseteq BOOLEAN /\ Burst \in BOOLEAN
  /\ Quartiles \in Nat \ {0}
  /\ ClickFrom \in 1..Quartiles
  /\ BatchSize \in Nat \ {0}
  /\ Faults \subseteq {"twin", "forge", "dup", "decision", "http"}
  /\ MaxFaults \in Nat

\* An event of an ad, its SSAI twin, or a copy; the quartiles are numbered.
Message == [ad : Ads, form : {"original", "twin", "copy"}, number : 0..Quartiles,
            type : {"ad_request", "ad_response", "impression", "quartile", "click"}]
Original(a, type) == [ad |-> a, form |-> "original", number |-> 0, type |-> type]

VARIABLES
  useDecision, \* --ad-decision is set
  main,      \* "running", "stopped" (tasks cancelled), "closing" or "ended"
  stage,     \* stage[a]: the next step of one_ad
  reached,   \* reached[a]: quartile events emitted
  decided,   \* decided[a]: what ad-decision committed for the request
  buf,       \* _buf
  pixels,    \* _pixel_buf
  paused,    \* _paused
  delayed,   \* copies whose task sleeps
  inflight,  \* requests to the collector under way, each a sequence of messages
  sent,      \* stats "sent": messages routed
  ok, err,   \* stats "http.2xx" and "http.err": messages answered
  received,  \* messages that reached the collector
  faults     \* history: faults and anomalies so far

adVars == <<useDecision, stage, reached, decided>>
bufVars == <<buf, pixels, sent>>
netVars == <<inflight, ok, err, received>>
vars == <<main, adVars, bufVars, paused, delayed, netVars, faults>>

TypeOK ==
  /\ useDecision \in BOOLEAN
  /\ main \in {"running", "stopped", "closing", "ended"}
  /\ stage \in [Ads -> {"request", "asked", "filled", "playing", "done"}]
  /\ reached \in [Ads -> 0..Quartiles]
  /\ decided \in [Ads -> {"none", "fill", "nofill"}]
  /\ buf \in Seq(Message)
  /\ pixels \in Seq(Message)
  /\ paused \in BOOLEAN
  /\ delayed \subseteq Message
  /\ inflight \subseteq Seq(Message)
  /\ sent \subseteq Message /\ ok \subseteq Message /\ err \subseteq Message
  /\ received \subseteq Message
  /\ faults \in 0..MaxFaults

Init ==
  /\ useDecision \in Modes
  /\ main = "running"
  /\ stage = [a \in Ads |-> "request"]
  /\ reached = [a \in Ads |-> 0]
  /\ decided = [a \in Ads |-> "none"]
  /\ buf = <<>> /\ pixels = <<>> /\ sent = {}
  /\ paused = FALSE
  /\ delayed = {}
  /\ inflight = {} /\ ok = {} /\ err = {} /\ received = {}
  /\ faults = 0

Fault(kind) ==
  /\ kind \in Faults
  /\ faults < MaxFaults
  /\ faults' = faults + 1

-----------------------------------------------------------------------------
(* The emitter *)

\* _route: one message to one of the buffers.
Route(m, pixel) ==
  /\ sent' = sent \cup {m}
  /\ IF pixel
     THEN pixels' = Append(pixels, m) /\ UNCHANGED buf
     ELSE buf' = Append(buf, m) /\ UNCHANGED pixels

\* What the player sends as a pixel, now and then.
PixelAllowed(m) == m.type \notin {"ad_request", "ad_response"}
RouteSomehow(m) == \E pixel \in {FALSE, PixelAllowed(m)} : Route(m, pixel)

\* The copy follows later; an event with another anomaly may be copied as well.
CopyLater(m) == delayed' = delayed \cup {[m EXCEPT !.form = "copy"]}
CopyOrNot(m) == UNCHANGED delayed \/ ("dup" \in Faults /\ CopyLater(m))

\* emit: a forged signature makes it a pixel.  The anomalies of one event are
\* drawn one by one, and count as one fault.
Emit(m) ==
  \/ RouteSomehow(m) /\ UNCHANGED <<delayed, faults>>
  \/ Fault("forge") /\ Route(m, TRUE) /\ CopyOrNot(m)
  \/ Fault("dup") /\ RouteSomehow(m) /\ CopyLater(m)

\* emit of an impression with its SSAI twin, which goes first, by POST.
EmitTwice(m) ==
  /\ Fault("twin")
  /\ sent' = sent \cup {m, [m EXCEPT !.form = "twin"]}
  /\ \/ /\ buf' = Append(buf, [m EXCEPT !.form = "twin"])
        /\ pixels' = Append(pixels, m)
     \/ /\ buf' = buf \o <<[m EXCEPT !.form = "twin"], m>>
        /\ UNCHANGED pixels
  /\ CopyOrNot(m)

\* _delayed: the copy wakes up, and is given up once the emitter closes.
Wake(m) ==
  /\ m \in delayed
  /\ delayed' = delayed \ {m}
  /\ IF main \in {"running", "stopped"} THEN RouteSomehow(m) ELSE UNCHANGED bufVars
  /\ UNCHANGED <<main, adVars, paused, netVars, faults>>

\* The requests a flush makes of the buffers: POSTs of BatchSize events, and a
\* GET per pixel.
Requests ==
  {SubSeq(buf, i, IF i + BatchSize - 1 < Len(buf) THEN i + BatchSize - 1 ELSE Len(buf)) :
     i \in {j \in 1..Len(buf) : (j - 1) % BatchSize = 0}}
  \cup {<<pixels[i]>> : i \in 1..Len(pixels)}

EmptyBuffers ==
  /\ inflight' = inflight \cup Requests
  /\ buf' = <<>> /\ pixels' = <<>>
  /\ UNCHANGED <<sent, ok, err, received>>

\* Mutant: a batch is sent when it is full.
FlushFull ==
  /\ main = "running" /\ ~paused
  /\ Len(buf) >= BatchSize
  /\ EmptyBuffers
  /\ UNCHANGED <<main, adVars, paused, delayed, faults>>

\* flush_loop
Flush ==
  /\ main = "running" /\ ~paused
  /\ Len(buf) + Len(pixels) > 0
  /\ EmptyBuffers
  /\ UNCHANGED <<main, adVars, paused, delayed, faults>>

\* _post, _pixel: the collector answers; or no answer comes within the timeout
\* (the request may have arrived), or the collector refuses.
Answered(r) ==
  /\ r \in inflight
  /\ inflight' = inflight \ {r}
  /\ \/ /\ ok' = ok \cup ToSet(r)
        /\ received' = received \cup ToSet(r)
        /\ UNCHANGED <<err, faults>>
     \/ /\ Fault("http")
        /\ err' = err \cup ToSet(r)
        /\ received' \in {received, received \cup ToSet(r)}
        /\ UNCHANGED ok
  /\ UNCHANGED <<main, adVars, bufVars, paused, delayed>>

-----------------------------------------------------------------------------
(* A viewer plays an ad *)

Step(a, from, to) ==
  /\ main = "running"
  /\ stage[a] = from
  /\ stage' = [stage EXCEPT ![a] = to]
  /\ UNCHANGED <<useDecision, main, paused, netVars>>

Ask(a) ==
  /\ Step(a, "request", "asked")
  /\ Emit(Original(a, "ad_request"))
  /\ UNCHANGED <<reached, decided>>

\* ad-decision commits a decision, whether or not the generator still waits.
Decide(a) ==
  /\ useDecision
  /\ stage[a] # "request" /\ decided[a] = "none"
  /\ \E d \in {"fill", "nofill"} : decided' = [decided EXCEPT ![a] = d]
  /\ UNCHANGED <<useDecision, main, stage, reached, bufVars, paused, delayed, netVars, faults>>

\* Mutant: a response without fill is not looked at.
AnswerIgnored(a) ==
  /\ useDecision /\ decided[a] # "none"
  /\ \E to \in {"filled", "done"} : Step(a, "asked", to)
  /\ UNCHANGED <<reached, decided, bufVars, delayed, faults>>

\* The decision is there: filled, unless the ad is one that fails to render
\* (drop_impression), or not filled.
AnswerDecision(a) ==
  /\ useDecision /\ decided[a] # "none"
  /\ \E to \in (IF decided[a] = "fill" THEN {"filled", "done"} ELSE {"done"}) : Step(a, "asked", to)
  /\ UNCHANGED <<reached, decided, bufVars, delayed, faults>>

\* Any error or timeout of the call: the ad is as if it had never been.
DecisionFails(a) ==
  /\ useDecision
  /\ Fault("decision")
  /\ Step(a, "asked", "done")
  /\ UNCHANGED <<reached, decided, bufVars, delayed>>

\* Without ad-decision the generator decides, and reports the response itself.
DecideAlone(a) ==
  /\ ~useDecision
  /\ \/ Step(a, "asked", "filled") /\ Emit(Original(a, "ad_response"))
     \/ Step(a, "asked", "done") /\ UNCHANGED <<bufVars, delayed, faults>>
  /\ decided' = [decided EXCEPT ![a] = "fill"]
  /\ UNCHANGED reached

Impression(a) ==
  /\ Step(a, "filled", "playing")
  /\ Emit(Original(a, "impression")) \/ EmitTwice(Original(a, "impression"))
  /\ UNCHANGED <<reached, decided>>

PlayQuartile(a) ==
  /\ reached[a] < Quartiles
  /\ Step(a, "playing", "playing")
  /\ reached' = [reached EXCEPT ![a] = @ + 1]
  /\ Emit([Original(a, "quartile") EXCEPT !.number = reached[a] + 1])
  /\ UNCHANGED decided

\* After the last quartile, or one the viewer left at; with a click or without.
EndAd(a) ==
  /\ reached[a] >= 1
  /\ Step(a, "playing", "done")
  /\ \/ reached[a] >= ClickFrom /\ Emit(Original(a, "click"))
     \/ UNCHANGED <<bufVars, delayed, faults>>
  /\ UNCHANGED <<reached, decided>>

-----------------------------------------------------------------------------
(* main *)

\* burst_cycle
Pause ==
  /\ Burst /\ main = "running" /\ ~paused
  /\ paused' = TRUE
  /\ UNCHANGED <<main, adVars, bufVars, delayed, netVars, faults>>

Resume ==
  /\ main = "running" /\ paused
  /\ paused' = FALSE
  /\ UNCHANGED <<main, adVars, bufVars, delayed, netVars, faults>>

\* The duration is over or a signal came: all tasks are cancelled, which the
\* tasks of the emitter are not among.
Stop ==
  /\ main = "running"
  /\ main' = "stopped"
  /\ UNCHANGED <<adVars, bufVars, paused, delayed, netVars, faults>>

\* Mutant: the last flush respects the pause.
CloseUnforced ==
  /\ main = "stopped"
  /\ main' = "closing"
  /\ IF paused THEN UNCHANGED <<bufVars, netVars>> ELSE EmptyBuffers
  /\ UNCHANGED <<adVars, paused, delayed, faults>>

\* close: no more copies, and what is buffered is sent, paused or not.
Close ==
  /\ main = "stopped"
  /\ main' = "closing"
  /\ paused' = FALSE
  /\ EmptyBuffers
  /\ UNCHANGED <<adVars, delayed, faults>>

\* gather: every task of the emitter is done.
End ==
  /\ main = "closing"
  /\ inflight = {} /\ delayed = {}
  /\ main' = "ended"
  /\ UNCHANGED <<adVars, bufVars, paused, delayed, netVars, faults>>

Next ==
  \/ \E a \in Ads :
       \/ Ask(a) \/ Decide(a) \/ AnswerDecision(a) \/ DecisionFails(a) \/ DecideAlone(a)
       \/ Impression(a) \/ PlayQuartile(a) \/ EndAd(a)
  \/ \E m \in delayed : Wake(m)
  \/ \E r \in inflight : Answered(r)
  \/ Flush \/ Pause \/ Resume \/ Stop \/ Close \/ End

Spec == Init /\ [][Next]_vars

\* The timers of the loops go off, a sleep ends, a request is answered within
\* 20 seconds or counted as an error; nobody has to stop the generator.
FairSpec ==
  /\ Spec
  /\ SF_vars(Flush) /\ WF_vars(Resume) /\ WF_vars(Close) /\ WF_vars(End)
  /\ WF_vars(\E m \in delayed : Wake(m))
  /\ WF_vars(\E r \in inflight : Answered(r))

-----------------------------------------------------------------------------
(* Properties *)

Buffered == ToSet(buf) \cup ToSet(pixels)
UnderWay == UNION {ToSet(r) : r \in inflight}

\* emitter.py 154-235: a message counted as sent is in one buffer, in one
\* request or in one of the two answer counts, never two or none; and when the
\* generator has ended, bursts and delayed copies or not, all are answered, so
\* the summary it prints adds up.
SentAddsUp ==
  /\ sent = Buffered \cup UnderWay \cup ok \cup err
  /\ Cardinality(sent) = Len(buf) + Len(pixels) + Cardinality(UnderWay)
                           + Cardinality(ok) + Cardinality(err)
  /\ main = "ended" => sent = ok \cup err

\* users.py 140-190: an impression that reaches the collector is of a request
\* ad-decision has filled, although the call may time out on either side of
\* its commit; the converse may fail.
ImpressionsBacked ==
  \A m \in received : m.type = "impression" => decided[m.ad] = "fill"

\* Everything counted as sent is answered in the end, whether or not somebody
\* stops the generator, and it ends once it was stopped.
EverythingAnswered ==
  /\ <>[](sent = ok \cup err)
  /\ main = "stopped" ~> main = "ended"
=============================================================================
