--------------------------- MODULE GeneratorProofs ---------------------------
(***************************************************************************)
(* Theorems about Generator for every set of ads, every number of          *)
(* quartiles, every batch size and every combination of faults.            *)
(***************************************************************************)
EXTENDS Generator, SumTheorems, SequenceTheorems

\* Every impression that was sent, is to be copied, or was received is of a
\* request that was filled, and so is every ad being played.
Backed(ms) == \A m \in ms : m.type = "impression" => decided[m.ad] = "fill"

Playing == \A a \in Ads : stage[a] \in {"filled", "playing"} => decided[a] = "fill"

\* What is buffered, under way or received was counted as sent.
Flow ==
  /\ ToSet(buf) \cup ToSet(pixels) \subseteq sent
  /\ \A r \in inflight : ToSet(r) \subseteq sent
  /\ received \subseteq sent

BackedInv == TypeOK /\ Flow /\ Playing /\ Backed(sent) /\ Backed(delayed)

-----------------------------------------------------------------------------
(* Sequences *)

LEMMA AppendSet ==
  ASSUME NEW S, NEW s \in Seq(S), NEW x \in S
  PROVE  Append(s, x) \in Seq(S) /\ ToSet(Append(s, x)) = ToSet(s) \cup {x}
<1>1. Append(s, x) \in Seq(S) /\ Len(Append(s, x)) = Len(s) + 1 /\ Len(s) \in Nat
  OBVIOUS
<1>2. \A i \in 1..Len(s) : Append(s, x)[i] = s[i]
  OBVIOUS
<1>3. Append(s, x)[Len(s) + 1] = x
  OBVIOUS
<1>4. DOMAIN Append(s, x) = 1..Len(s) \cup {Len(s) + 1} /\ DOMAIN s = 1..Len(s)
  BY <1>1
<1> QED BY <1>1, <1>2, <1>3, <1>4 DEF ToSet

LEMMA ToSetType ==
  ASSUME NEW S, NEW s \in Seq(S)
  PROVE  ToSet(s) \subseteq S
BY DEF ToSet

LEMMA SubSeqSet ==
  ASSUME NEW S, NEW s \in Seq(S), NEW i \in 1..Len(s), NEW j \in i..Len(s)
  PROVE  SubSeq(s, i, j) \in Seq(S) /\ ToSet(SubSeq(s, i, j)) \subseteq ToSet(s)
<1>1. \A k \in i..j : k \in 1..Len(s) /\ s[k] \in S
  OBVIOUS
<1>2. /\ SubSeq(s, i, j) \in Seq(S) /\ Len(SubSeq(s, i, j)) = j - i + 1
      /\ \A k \in 1..j - i + 1 : SubSeq(s, i, j)[k] = s[i + k - 1]
  BY <1>1, SubSeqProperties
<1>3. \A k \in 1..j - i + 1 : i + k - 1 \in 1..Len(s)
  OBVIOUS
<1>4. DOMAIN SubSeq(s, i, j) = 1..j - i + 1 /\ DOMAIN s = 1..Len(s)
  BY <1>2
<1> QED BY <1>2, <1>3, <1>4 DEF ToSet

\* A flush makes requests of buffered messages.
LEMMA RequestsFlow ==
  ASSUME TypeOK, Flow
  PROVE  /\ Requests \subseteq Seq(Message)
         /\ \A r \in Requests : ToSet(r) \subseteq sent
<1> SUFFICES ASSUME NEW r \in Requests PROVE r \in Seq(Message) /\ ToSet(r) \subseteq sent
  OBVIOUS
<1>1. CASE \E i \in 1..Len(buf) :
             r = SubSeq(buf, i, IF i + BatchSize - 1 < Len(buf) THEN i + BatchSize - 1 ELSE Len(buf))
  <2>1. PICK i \in 1..Len(buf) :
          r = SubSeq(buf, i, IF i + BatchSize - 1 < Len(buf) THEN i + BatchSize - 1 ELSE Len(buf))
    BY <1>1
  <2>2. buf \in Seq(Message)
    BY DEF TypeOK
  <2>3. (IF i + BatchSize - 1 < Len(buf) THEN i + BatchSize - 1 ELSE Len(buf)) \in i..Len(buf)
    BY <2>2, GeneratorAssumption
  <2> QED BY <2>1, <2>2, <2>3, SubSeqSet DEF Flow
<1>2. CASE \E i \in 1..Len(pixels) : r = <<pixels[i]>>
  <2>1. PICK i \in 1..Len(pixels) : r = <<pixels[i]>>
    BY <1>2
  <2>2. pixels[i] \in Message /\ pixels[i] \in ToSet(pixels)
    BY <2>1 DEF TypeOK, ToSet
  <2> QED BY <2>1, <2>2 DEF Flow, ToSet
<1> QED BY <1>1, <1>2 DEF Requests

-----------------------------------------------------------------------------
(* The emitter *)

\* What routing does to the buffers.
Routed(ms) ==
  /\ sent' = sent \cup ms
  /\ buf' \in Seq(Message) /\ pixels' \in Seq(Message)
  /\ ToSet(buf') \cup ToSet(pixels') \subseteq sent'

LEMMA RouteFacts ==
  ASSUME TypeOK, Flow, NEW m \in Message, NEW pixel \in BOOLEAN, Route(m, pixel)
  PROVE  Routed({m})
<1>1. CASE pixel
  <2>1. pixels' = Append(pixels, m) /\ buf' = buf /\ sent' = sent \cup {m}
    BY <1>1 DEF Route
  <2> QED BY <2>1, AppendSet DEF TypeOK, Flow, Routed
<1>2. CASE ~pixel
  <2>1. buf' = Append(buf, m) /\ pixels' = pixels /\ sent' = sent \cup {m}
    BY <1>2 DEF Route
  <2> QED BY <2>1, AppendSet DEF TypeOK, Flow, Routed
<1> QED BY <1>1, <1>2

LEMMA RouteSomehowFacts ==
  ASSUME TypeOK, Flow, NEW m \in Message, RouteSomehow(m)
  PROVE  Routed({m})
BY RouteFacts DEF RouteSomehow, PixelAllowed

Copy(m) == [m EXCEPT !.form = "copy"]
Twin(m) == [m EXCEPT !.form = "twin"]

LEMMA FormFacts ==
  ASSUME NEW m \in Message
  PROVE  /\ Copy(m) \in Message /\ Copy(m).type = m.type /\ Copy(m).ad = m.ad
         /\ Twin(m) \in Message /\ Twin(m).type = m.type /\ Twin(m).ad = m.ad
BY DEF Message, Copy, Twin

LEMMA FaultType == ASSUME TypeOK, NEW kind, Fault(kind) PROVE faults' \in 0..MaxFaults
BY GeneratorAssumption DEF TypeOK, Fault

\* What emitting m does: nothing but m, its twin and its copy is new.
Emitted(m) ==
  /\ \E ms \in SUBSET Message : Routed(ms) /\ \A x \in ms : x.type = m.type /\ x.ad = m.ad
  /\ delayed' \subseteq delayed \cup {Copy(m)} /\ delayed \subseteq delayed'
  /\ faults' \in 0..MaxFaults

LEMMA EmitFacts ==
  ASSUME TypeOK, Flow, NEW m \in Message, Emit(m)
  PROVE  Emitted(m)
<1>0. ASSUME Routed({m}) PROVE \E ms \in SUBSET Message : Routed(ms) /\ \A x \in ms : x.type = m.type /\ x.ad = m.ad
  <2>1. {m} \in SUBSET Message /\ \A x \in {m} : x.type = m.type /\ x.ad = m.ad
    OBVIOUS
  <2> QED BY <1>0, <2>1
<1>1. CASE RouteSomehow(m) /\ UNCHANGED <<delayed, faults>>
  <2>1. Routed({m})
    BY <1>1, RouteSomehowFacts
  <2> QED BY <1>0, <1>1, <2>1 DEF Emitted, TypeOK
<1>2. CASE Fault("forge") /\ Route(m, TRUE) /\ CopyOrNot(m)
  <2>1. Routed({m}) /\ faults' \in 0..MaxFaults
    BY <1>2, RouteFacts, FaultType
  <2> QED BY <1>0, <1>2, <2>1 DEF Emitted, CopyOrNot, CopyLater, Copy
<1>3. CASE Fault("dup") /\ RouteSomehow(m) /\ CopyLater(m)
  <2>1. Routed({m}) /\ faults' \in 0..MaxFaults
    BY <1>3, RouteSomehowFacts, FaultType
  <2> QED BY <1>0, <1>3, <2>1 DEF Emitted, CopyLater, Copy
<1> QED BY <1>1, <1>2, <1>3 DEF Emit

LEMMA EmitTwiceFacts ==
  ASSUME TypeOK, Flow, NEW m \in Message, EmitTwice(m)
  PROVE  Emitted(m)
<1>1. /\ sent' = sent \cup {m, Twin(m)} /\ faults' \in 0..MaxFaults
      /\ delayed' \subseteq delayed \cup {Copy(m)} /\ delayed \subseteq delayed'
  BY FaultType DEF EmitTwice, Twin, CopyOrNot, CopyLater, Copy
<1>2. Twin(m) \in Message /\ Twin(m).type = m.type /\ Twin(m).ad = m.ad
  BY FormFacts
<1>3. buf \in Seq(Message) /\ pixels \in Seq(Message) /\ ToSet(buf) \subseteq sent /\ ToSet(pixels) \subseteq sent
  BY DEF TypeOK, Flow
<1>4. CASE buf' = Append(buf, Twin(m)) /\ pixels' = Append(pixels, m)
  <2>1. Routed({m, Twin(m)})
    BY <1>1, <1>2, <1>3, <1>4, AppendSet DEF Routed
  <2> QED BY <1>1, <1>2, <2>1 DEF Emitted
<1>5. CASE buf' = buf \o <<Twin(m), m>> /\ pixels' = pixels
  <2>1. buf \o <<Twin(m), m>> = Append(Append(buf, Twin(m)), m)
    BY <1>2, <1>3
  <2>2. Append(buf, Twin(m)) \in Seq(Message) /\ ToSet(Append(buf, Twin(m))) = ToSet(buf) \cup {Twin(m)}
    BY <1>2, <1>3, AppendSet
  <2>3. buf' \in Seq(Message) /\ ToSet(buf') = ToSet(buf) \cup {Twin(m)} \cup {m}
    <3>1. PICK s : s = Append(buf, Twin(m))
      OBVIOUS
    <3>2. Append(s, m) \in Seq(Message) /\ ToSet(Append(s, m)) = ToSet(s) \cup {m}
      <4>1. s \in Seq(Message) /\ m \in Message
        BY <2>2, <3>1
      <4> QED BY ONLY <4>1, AppendSet
    <3> QED BY <1>5, <2>1, <2>2, <3>1, <3>2
  <2>4. Routed({m, Twin(m)})
    BY <1>1, <1>3, <1>5, <2>3 DEF Routed
  <2> QED BY <1>1, <1>2, <2>4 DEF Emitted
<1> QED BY <1>4, <1>5 DEF EmitTwice, Twin

-----------------------------------------------------------------------------
(* The steps *)

\* A viewer emits m: the ad of m is filled, if m is an impression.
LEMMA EmitInd ==
  ASSUME BackedInv, NEW m \in Message, Emitted(m), UNCHANGED <<inflight, received>>,
         m.type = "impression" => decided[m.ad] = "fill",
         \A a \in Ads : decided[a] = "fill" => decided'[a] = "fill"
  PROVE  Flow' /\ Backed(sent)' /\ Backed(delayed)'
         /\ buf' \in Seq(Message) /\ pixels' \in Seq(Message) /\ sent' \subseteq Message
         /\ delayed' \subseteq Message /\ faults' \in 0..MaxFaults
<1>1. PICK ms \in SUBSET Message : Routed(ms) /\ \A x \in ms : x.type = m.type /\ x.ad = m.ad
  BY DEF Emitted
<1>2. Copy(m) \in Message /\ Copy(m).type = m.type /\ Copy(m).ad = m.ad
  BY FormFacts
<1>3. Flow'
  BY <1>1 DEF BackedInv, Flow, Routed
<1>4. sent' \subseteq Message /\ delayed' \subseteq Message
  BY <1>1, <1>2 DEF BackedInv, TypeOK, Routed, Emitted
<1>5. m.ad \in Ads /\ \A x \in Message : x.ad \in Ads
  BY DEF Message
<1>6. Backed(sent)'
  BY <1>1, <1>4, <1>5 DEF BackedInv, Backed, Routed
<1>7. Backed(delayed)'
  BY <1>2, <1>4, <1>5 DEF BackedInv, Backed, Emitted
<1> QED BY <1>1, <1>3, <1>4, <1>6, <1>7 DEF Routed, Emitted

\* A step that routes nothing.
LEMMA QuietInd ==
  ASSUME BackedInv, UNCHANGED <<bufVars, delayed, inflight, received>>,
         \A a \in Ads : decided[a] = "fill" => decided'[a] = "fill"
  PROVE  Flow' /\ Backed(sent)' /\ Backed(delayed)'
<1> USE DEF bufVars
<1>1. \A x \in sent \cup delayed : x.ad \in Ads
  BY DEF BackedInv, TypeOK, Message
<1> QED BY <1>1 DEF BackedInv, Flow, Backed

LEMMA OriginalType ==
  ASSUME NEW a \in Ads, NEW type \in {"ad_request", "ad_response", "impression", "quartile", "click"}
  PROVE  /\ Original(a, type) \in Message
         /\ Original(a, type).type = type /\ Original(a, type).ad = a
         /\ \A n \in 0..Quartiles :
              /\ [Original(a, type) EXCEPT !.number = n] \in Message
              /\ [Original(a, type) EXCEPT !.number = n].type = type
BY GeneratorAssumption DEF Original, Message

LEMMA StepFacts ==
  ASSUME TypeOK, NEW a \in Ads, NEW from,
         NEW to \in {"request", "asked", "filled", "playing", "done"}, Step(a, from, to)
  PROVE  /\ stage' \in [Ads -> {"request", "asked", "filled", "playing", "done"}]
         /\ stage[a] = from /\ stage'[a] = to /\ \A b \in Ads : b # a => stage'[b] = stage[b]
         /\ UNCHANGED <<useDecision, main, paused, inflight, ok, err, received>>
BY DEF TypeOK, Step, netVars

\* The steps of a viewer.
LEMMA AdInd ==
  ASSUME BackedInv, NEW a \in Ads,
         \/ Ask(a) \/ Decide(a) \/ AnswerDecision(a) \/ DecisionFails(a) \/ DecideAlone(a)
         \/ Impression(a) \/ PlayQuartile(a) \/ EndAd(a)
  PROVE  BackedInv'
<1>n. TypeOK /\ Flow /\ Playing
  BY DEF BackedInv
<1> DEFINE Rest == Flow' /\ Backed(sent)' /\ Backed(delayed)'
           Buffers == /\ buf' \in Seq(Message) /\ pixels' \in Seq(Message) /\ sent' \subseteq Message
                      /\ delayed' \subseteq Message /\ faults' \in 0..MaxFaults
<1>0. UNCHANGED <<bufVars, delayed>> => buf' \in Seq(Message) /\ pixels' \in Seq(Message)
      /\ sent' \subseteq Message /\ delayed' \subseteq Message
  BY <1>n DEF TypeOK, bufVars
<1>1. CASE Ask(a)
  <2>1. Original(a, "ad_request") \in Message /\ Original(a, "ad_request").type = "ad_request"
    BY OriginalType
  <2>2. Step(a, "request", "asked") /\ Emit(Original(a, "ad_request")) /\ UNCHANGED <<reached, decided>>
    BY <1>1 DEF Ask
  <2>3. Rest /\ Buffers
    BY <1>n, <2>1, <2>2, EmitFacts, EmitInd, StepFacts
  <2>4. TypeOK' /\ Playing'
    BY <1>n, <2>2, <2>3, StepFacts DEF TypeOK, Playing
  <2> QED BY <2>3, <2>4 DEF BackedInv
<1>2. CASE Decide(a)
  <2>1. /\ UNCHANGED <<useDecision, main, stage, reached, bufVars, paused, delayed, netVars, faults>>
        /\ decided[a] = "none" /\ \E d \in {"fill", "nofill"} : decided' = [decided EXCEPT ![a] = d]
    BY <1>2 DEF Decide
  <2>2. /\ decided' \in [Ads -> {"none", "fill", "nofill"}]
        /\ \A b \in Ads : decided[b] = "fill" => decided'[b] = "fill"
    BY <1>n, <2>1 DEF TypeOK
  <2>3. Rest
    BY <2>1, <2>2, QuietInd DEF netVars
  <2>4. TypeOK' /\ Playing'
    BY <1>n, <2>1, <2>2 DEF TypeOK, Playing, bufVars, netVars
  <2> QED BY <2>3, <2>4 DEF BackedInv
<1>3. CASE AnswerDecision(a)
  <2>1. PICK to \in (IF decided[a] = "fill" THEN {"filled", "done"} ELSE {"done"}) : Step(a, "asked", to)
    BY <1>3 DEF AnswerDecision
  <2>2. UNCHANGED <<reached, decided, bufVars, delayed, faults>>
    BY <1>3 DEF AnswerDecision
  <2>3. Rest
    BY <1>n, <2>1, <2>2, StepFacts, QuietInd
  <2>4. TypeOK' /\ Playing'
    BY <1>n, <2>1, <2>2, StepFacts DEF TypeOK, Playing, bufVars
  <2> QED BY <2>3, <2>4 DEF BackedInv
<1>4. CASE DecisionFails(a)
  <2>1. Step(a, "asked", "done") /\ UNCHANGED <<reached, decided, bufVars, delayed>>
        /\ faults' \in 0..MaxFaults
    BY <1>4, <1>n, FaultType DEF DecisionFails
  <2>2. Rest
    BY <1>n, <2>1, StepFacts, QuietInd
  <2>3. TypeOK' /\ Playing'
    BY <1>n, <2>1, StepFacts DEF TypeOK, Playing, bufVars
  <2> QED BY <2>2, <2>3 DEF BackedInv
<1>5. CASE DecideAlone(a)
  <2>1. decided' = [decided EXCEPT ![a] = "fill"] /\ UNCHANGED reached
    BY <1>5 DEF DecideAlone
  <2>2. /\ decided' \in [Ads -> {"none", "fill", "nofill"}] /\ decided'[a] = "fill"
        /\ \A b \in Ads : decided[b] = "fill" => decided'[b] = "fill"
    BY <1>n, <2>1 DEF TypeOK
  <2>3. CASE Step(a, "asked", "filled") /\ Emit(Original(a, "ad_response"))
    <3>1. Original(a, "ad_response") \in Message /\ Original(a, "ad_response").type = "ad_response"
      BY OriginalType
    <3>2. Rest /\ Buffers
      BY <1>n, <2>2, <2>3, <3>1, EmitFacts, EmitInd, StepFacts
    <3>3. TypeOK' /\ Playing'
      BY <1>n, <2>1, <2>2, <2>3, <3>2, StepFacts DEF TypeOK, Playing
    <3> QED BY <3>2, <3>3 DEF BackedInv
  <2>4. CASE Step(a, "asked", "done") /\ UNCHANGED <<bufVars, delayed, faults>>
    <3>1. Rest
      BY <1>n, <2>2, <2>4, StepFacts, QuietInd
    <3>2. TypeOK' /\ Playing'
      BY <1>n, <2>1, <2>2, <2>4, StepFacts DEF TypeOK, Playing, bufVars
    <3> QED BY <3>1, <3>2 DEF BackedInv
  <2> QED BY <1>5, <2>3, <2>4 DEF DecideAlone
<1>6. CASE Impression(a)
  <2>1. Step(a, "filled", "playing") /\ UNCHANGED <<reached, decided>>
    BY <1>6 DEF Impression
  <2>2. /\ Original(a, "impression") \in Message /\ Original(a, "impression").ad = a
        /\ decided[a] = "fill"
    BY <1>n, <2>1, OriginalType, StepFacts DEF Playing
  <2>3. Emitted(Original(a, "impression"))
    BY <1>6, <1>n, <2>2, EmitFacts, EmitTwiceFacts DEF Impression
  <2>4. Rest /\ Buffers
    BY <1>n, <2>1, <2>2, <2>3, EmitInd, StepFacts
  <2>5. TypeOK' /\ Playing'
    BY <1>n, <2>1, <2>2, <2>4, StepFacts DEF TypeOK, Playing
  <2> QED BY <2>4, <2>5 DEF BackedInv
<1>7. CASE PlayQuartile(a)
  <2> DEFINE m == [Original(a, "quartile") EXCEPT !.number = reached[a] + 1]
  <2>1. Step(a, "playing", "playing") /\ reached' = [reached EXCEPT ![a] = @ + 1] /\ UNCHANGED decided
        /\ Emit(m) /\ reached[a] < Quartiles
    BY <1>7 DEF PlayQuartile
  <2>2. reached[a] + 1 \in 0..Quartiles
    BY <1>n, <2>1, GeneratorAssumption DEF TypeOK
  <2>3. m \in Message /\ m.type = "quartile"
    BY <2>2, OriginalType
  <2>4. reached' \in [Ads -> 0..Quartiles]
    BY <1>n, <2>1, <2>2 DEF TypeOK
  <2> HIDE DEF m
  <2>5. Rest /\ Buffers
    BY <1>n, <2>1, <2>3, EmitFacts, EmitInd, StepFacts
  <2>6. TypeOK' /\ Playing'
    BY <1>n, <2>1, <2>4, <2>5, StepFacts DEF TypeOK, Playing
  <2> QED BY <2>5, <2>6 DEF BackedInv
<1>8. CASE EndAd(a)
  <2>1. Step(a, "playing", "done") /\ UNCHANGED <<reached, decided>>
    BY <1>8 DEF EndAd
  <2>2. CASE Emit(Original(a, "click"))
    <3>1. Original(a, "click") \in Message /\ Original(a, "click").type = "click"
      BY OriginalType
    <3>2. Rest /\ Buffers
      BY <1>n, <2>1, <2>2, <3>1, EmitFacts, EmitInd, StepFacts
    <3>3. TypeOK' /\ Playing'
      BY <1>n, <2>1, <3>2, StepFacts DEF TypeOK, Playing
    <3> QED BY <3>2, <3>3 DEF BackedInv
  <2>3. CASE UNCHANGED <<bufVars, delayed, faults>>
    <3>1. Rest
      BY <1>n, <2>1, <2>3, StepFacts, QuietInd
    <3>2. TypeOK' /\ Playing'
      BY <1>n, <2>1, <2>3, StepFacts DEF TypeOK, Playing, bufVars
    <3> QED BY <3>1, <3>2 DEF BackedInv
  <2> QED BY <1>8, <2>2, <2>3 DEF EndAd
<1> QED BY <1>1, <1>2, <1>3, <1>4, <1>5, <1>6, <1>7, <1>8

LEMMA WakeInd ==
  ASSUME BackedInv, NEW m \in delayed, Wake(m)
  PROVE  BackedInv'
<1>1. /\ m \in Message /\ delayed' = delayed \ {m}
      /\ UNCHANGED <<main, adVars, paused, netVars, faults>>
      /\ RouteSomehow(m) \/ UNCHANGED bufVars
  BY DEF Wake, BackedInv, TypeOK
<1>2. CASE RouteSomehow(m)
  <2>1. Routed({m})
    BY <1>1, <1>2, RouteSomehowFacts DEF BackedInv
  <2>2. TypeOK'
    BY <1>1, <2>1 DEF BackedInv, TypeOK, Routed, adVars, netVars
  <2>3. Flow' /\ Playing' /\ Backed(sent)' /\ Backed(delayed)'
    BY <1>1, <2>1 DEF BackedInv, Flow, Playing, Backed, Routed, adVars, netVars
  <2> QED BY <2>2, <2>3 DEF BackedInv
<1>3. CASE UNCHANGED bufVars
  BY <1>1, <1>3 DEF BackedInv, TypeOK, Flow, Playing, Backed, adVars, netVars, bufVars
<1> QED BY <1>1, <1>2, <1>3

LEMMA EmptyBuffersInd ==
  ASSUME BackedInv, EmptyBuffers, UNCHANGED <<adVars, delayed, faults>>,
         main' \in {"running", "stopped", "closing", "ended"}, paused' \in BOOLEAN
  PROVE  BackedInv'
<1>1. /\ inflight' = inflight \cup Requests /\ buf' = <<>> /\ pixels' = <<>>
      /\ UNCHANGED <<sent, ok, err, received>>
  BY DEF EmptyBuffers
<1>2. <<>> \in Seq(Message) /\ ToSet(<<>>) = {}
  BY DEF ToSet
<1>3. Requests \subseteq Seq(Message) /\ \A r \in Requests : ToSet(r) \subseteq sent
  BY RequestsFlow DEF BackedInv
<1>4. TypeOK'
  BY <1>1, <1>2, <1>3 DEF BackedInv, TypeOK, adVars
<1>5. Flow'
  BY <1>1, <1>2, <1>3 DEF BackedInv, Flow
<1>6. Playing' /\ Backed(sent)' /\ Backed(delayed)'
  BY <1>1 DEF BackedInv, Playing, Backed, adVars
<1> QED BY <1>4, <1>5, <1>6 DEF BackedInv

LEMMA AnsweredInd ==
  ASSUME BackedInv, NEW r \in inflight, Answered(r)
  PROVE  BackedInv'
<1>1. /\ inflight' = inflight \ {r} /\ UNCHANGED <<main, adVars, bufVars, paused, delayed>>
      /\ ok' \in {ok, ok \cup ToSet(r)} /\ err' \in {err, err \cup ToSet(r)}
      /\ received' \in {received, received \cup ToSet(r)}
  BY DEF Answered
<1>2. faults' \in 0..MaxFaults
  BY FaultType DEF Answered, BackedInv, TypeOK
<1>3. ToSet(r) \subseteq Message /\ ToSet(r) \subseteq sent
  BY ToSetType DEF BackedInv, TypeOK, Flow
<1>4. TypeOK'
  BY <1>1, <1>2, <1>3 DEF BackedInv, TypeOK, adVars, bufVars
<1>5. Flow' /\ Playing' /\ Backed(sent)' /\ Backed(delayed)'
  BY <1>1, <1>3 DEF BackedInv, Flow, Playing, Backed, adVars, bufVars
<1> QED BY <1>4, <1>5 DEF BackedInv

LEMMA InitBacked == Init => BackedInv
<1> SUFFICES ASSUME Init PROVE BackedInv
  OBVIOUS
<1>1. <<>> \in Seq(Message) /\ ToSet(<<>>) = {}
  BY DEF ToSet
<1>2. TypeOK
  <2>1. faults \in 0..MaxFaults /\ reached \in [Ads -> 0..Quartiles] /\ useDecision \in BOOLEAN
    BY GeneratorAssumption DEF Init
  <2> QED BY <1>1, <2>1 DEF Init, TypeOK
<1> QED BY <1>1, <1>2 DEF Init, BackedInv, Flow, Playing, Backed

LEMMA NextBacked == BackedInv /\ [Next]_vars => BackedInv'
<1> SUFFICES ASSUME BackedInv, [Next]_vars PROVE BackedInv'
  OBVIOUS
<1>1. ASSUME NEW a \in Ads,
             \/ Ask(a) \/ Decide(a) \/ AnswerDecision(a) \/ DecisionFails(a) \/ DecideAlone(a)
             \/ Impression(a) \/ PlayQuartile(a) \/ EndAd(a)
      PROVE  BackedInv'
  BY <1>1, AdInd
<1>2. ASSUME NEW m \in delayed, Wake(m) PROVE BackedInv'
  BY <1>2, WakeInd
<1>3. ASSUME NEW r \in inflight, Answered(r) PROVE BackedInv'
  BY <1>3, AnsweredInd
<1>4. CASE Flush
  BY <1>4, EmptyBuffersInd DEF Flush, BackedInv, TypeOK
<1>5. CASE Close
  BY <1>5, EmptyBuffersInd DEF Close
<1>6. CASE Pause \/ Resume \/ Stop \/ End \/ UNCHANGED vars
  <2>1. UNCHANGED <<adVars, bufVars, delayed, netVars, faults>>
        /\ main' \in {"running", "stopped", "closing", "ended"} /\ paused' \in BOOLEAN
    BY <1>6 DEF Pause, Resume, Stop, End, vars, BackedInv, TypeOK
  <2> QED BY <2>1 DEF BackedInv, TypeOK, Flow, Playing, Backed, adVars, bufVars, netVars
<1> QED BY <1>1, <1>2, <1>3, <1>4, <1>5, <1>6 DEF Next

\* The invariant of ImpressionsBacked.
LEMMA BackedInvariant == Spec => []BackedInv
BY InitBacked, NextBacked, PTL DEF Spec

-----------------------------------------------------------------------------
(* Every message is in one place *)

NoRepeat(s) == \A i, j \in 1..Len(s) : s[i] = s[j] => i = j

\* No message is buffered twice ...
Tidy == NoRepeat(buf) /\ NoRepeat(pixels) /\ ToSet(buf) \cap ToSet(pixels) = {}

\* ... or in two requests, ...
Apart == \A r, s \in inflight : r # s => ToSet(r) \cap ToSet(s) = {}

\* ... and the buffers, the requests and the counts part what was sent.
Parts ==
  /\ sent = Buffered \cup UnderWay \cup ok \cup err
  /\ Buffered \cap (UnderWay \cup ok \cup err) = {}
  /\ UnderWay \cap (ok \cup err) = {}
  /\ ok \cap err = {}

\* The viewer is past the step that emits m and its copies.
Past(m) ==
  /\ m.type = "ad_request" => stage[m.ad] # "request"
  /\ m.type = "ad_response" => stage[m.ad] \notin {"request", "asked"}
  /\ m.type = "impression" => stage[m.ad] \in {"playing", "done"}
  /\ m.type = "quartile" => m.number <= reached[m.ad]
  /\ m.type = "click" => stage[m.ad] = "done"

\* So what a step emits is new.
Fresh == (\A m \in sent \cup delayed : Past(m)) /\ sent \cap delayed = {}

\* Nothing is buffered after close, nothing under way after gather.
Over ==
  /\ main \in {"closing", "ended"} => buf = <<>> /\ pixels = <<>>
  /\ main = "ended" => inflight = {}

Placement == IsFiniteSet(sent) /\ Tidy /\ Apart /\ Parts /\ Fresh /\ Over

LEMMA AppendNoRepeat ==
  ASSUME NEW S, NEW s \in Seq(S), NEW x \in S, NoRepeat(s), x \notin ToSet(s)
  PROVE  NoRepeat(Append(s, x))
<1>1. Len(Append(s, x)) = Len(s) + 1 /\ Len(s) \in Nat
  OBVIOUS
<1>2. \A i \in 1..Len(s) : Append(s, x)[i] = s[i] /\ s[i] # x
  BY DEF ToSet
<1>3. Append(s, x)[Len(s) + 1] = x
  OBVIOUS
<1> SUFFICES ASSUME NEW i \in 1..Len(s) + 1, NEW j \in 1..Len(s) + 1, Append(s, x)[i] = Append(s, x)[j]
             PROVE  i = j
  BY <1>1 DEF NoRepeat
<1>4. CASE i \in 1..Len(s) /\ j \in 1..Len(s)
  BY <1>2, <1>4 DEF NoRepeat
<1>5. CASE i = Len(s) + 1 /\ j \in 1..Len(s)
  BY <1>2, <1>3, <1>5
<1>6. CASE j = Len(s) + 1 /\ i \in 1..Len(s)
  BY <1>2, <1>3, <1>6
<1>7. CASE i = Len(s) + 1 /\ j = Len(s) + 1
  BY <1>7
<1>8. i \in 1..Len(s) \cup {Len(s) + 1} /\ j \in 1..Len(s) \cup {Len(s) + 1}
  BY <1>1
<1> QED BY <1>4, <1>5, <1>6, <1>7, <1>8

\* A sequence without repetition is as long as it has elements.
LEMMA SequenceCount ==
  ASSUME NEW S, NEW s \in Seq(S), NoRepeat(s)
  PROVE  IsFiniteSet(ToSet(s)) /\ Cardinality(ToSet(s)) = Len(s)
<1>1. Len(s) \in Nat /\ DOMAIN s = 1..Len(s)
  OBVIOUS
<1>2. s \in Bijection(1..Len(s), ToSet(s))
  <2>1. s \in [1..Len(s) -> ToSet(s)]
    BY <1>1 DEF ToSet
  <2>2. \A i, j \in 1..Len(s) : s[i] = s[j] => i = j
    BY DEF NoRepeat
  <2>3. \A x \in ToSet(s) : \E i \in 1..Len(s) : s[i] = x
    BY <1>1 DEF ToSet
  <2> QED BY <1>1, <2>1, <2>2, <2>3 DEF Bijection, Injection, IsInjective, Surjection
<1>3. ExistsBijection(1..Len(s), ToSet(s))
  BY <1>2 DEF ExistsBijection
<1>4. IsFiniteSet(1..Len(s))
  BY <1>1, FS_Interval
<1>5. s \in Surjection(1..Len(s), ToSet(s))
  BY <1>2 DEF Bijection
<1> QED BY <1>1, <1>3, <1>4, <1>5, FS_CountingElements, FS_Surjection

\* What routing new messages does to the buffers.
Placed(ms) ==
  /\ IsFiniteSet(ms) /\ ms \cap sent = {}
  /\ sent' = sent \cup ms
  /\ Tidy'
  /\ Buffered' = Buffered \cup ms

LEMMA RoutePlaced ==
  ASSUME TypeOK, Flow, Tidy, NEW m \in Message, m \notin sent, NEW pixel \in BOOLEAN, Route(m, pixel)
  PROVE  Placed({m})
<1>1. IsFiniteSet({m}) /\ {m} \cap sent = {} /\ sent' = sent \cup {m}
  BY FS_Singleton DEF Route
<1>2. buf \in Seq(Message) /\ pixels \in Seq(Message) /\ m \notin ToSet(buf) /\ m \notin ToSet(pixels)
  BY DEF TypeOK, Flow
<1>3. NoRepeat(buf) /\ NoRepeat(pixels) /\ ToSet(buf) \cap ToSet(pixels) = {}
  BY DEF Tidy
<1>4. CASE pixel
  <2>1. pixels' = Append(pixels, m) /\ buf' = buf
    BY <1>4 DEF Route
  <2>2. NoRepeat(pixels') /\ ToSet(pixels') = ToSet(pixels) \cup {m}
    BY <1>2, <1>3, <2>1, AppendNoRepeat, AppendSet
  <2>3. NoRepeat(buf') /\ ToSet(buf') = ToSet(buf)
    BY <1>3, <2>1
  <2> QED BY <1>1, <1>2, <1>3, <2>2, <2>3 DEF Placed, Tidy, Buffered
<1>5. CASE ~pixel
  <2>1. buf' = Append(buf, m) /\ pixels' = pixels
    BY <1>5 DEF Route
  <2>2. NoRepeat(buf') /\ ToSet(buf') = ToSet(buf) \cup {m}
    BY <1>2, <1>3, <2>1, AppendNoRepeat, AppendSet
  <2>3. NoRepeat(pixels') /\ ToSet(pixels') = ToSet(pixels)
    BY <1>3, <2>1
  <2> QED BY <1>1, <1>2, <1>3, <2>2, <2>3 DEF Placed, Tidy, Buffered
<1> QED BY <1>4, <1>5

LEMMA TwicePlaced ==
  ASSUME TypeOK, Flow, Tidy, NEW m \in Message, m.form = "original",
         m \notin sent, Twin(m) \notin sent, EmitTwice(m)
  PROVE  Placed({m, Twin(m)})
<1>1. PICK t \in Message : t = Twin(m) /\ t # m /\ t \notin sent
  <2>1. Twin(m) \in Message /\ Twin(m).form = "twin"
    BY FormFacts DEF Twin, Message
  <2> QED BY <2>1
<1>2. IsFiniteSet({m, t}) /\ {m, t} \cap sent = {} /\ sent' = sent \cup {m, t}
  <2>1. IsFiniteSet({m} \cup {t})
    BY FS_Singleton, FS_Union
  <2>2. {m, t} = {m} \cup {t}
    OBVIOUS
  <2> QED BY <1>1, <2>1, <2>2 DEF EmitTwice, Twin
<1>3. /\ buf \in Seq(Message) /\ pixels \in Seq(Message)
      /\ {m, t} \cap ToSet(buf) = {} /\ {m, t} \cap ToSet(pixels) = {}
  BY <1>1 DEF TypeOK, Flow
<1>4. NoRepeat(buf) /\ NoRepeat(pixels) /\ ToSet(buf) \cap ToSet(pixels) = {}
  BY DEF Tidy
<1>5. PICK b : b = Append(buf, t)
  OBVIOUS
<1>6. b \in Seq(Message) /\ NoRepeat(b) /\ ToSet(b) = ToSet(buf) \cup {t}
  BY <1>3, <1>4, <1>5, AppendNoRepeat, AppendSet
<1>7. CASE buf' = Append(buf, t) /\ pixels' = Append(pixels, m)
  <2>1. NoRepeat(pixels') /\ ToSet(pixels') = ToSet(pixels) \cup {m}
    BY <1>3, <1>4, <1>7, AppendNoRepeat, AppendSet
  <2>2. NoRepeat(buf') /\ ToSet(buf') = ToSet(buf) \cup {t}
    BY <1>5, <1>6, <1>7
  <2> QED BY <1>1, <1>2, <1>3, <1>4, <2>1, <2>2 DEF Placed, Tidy, Buffered
<1>8. CASE buf' = buf \o <<t, m>> /\ pixels' = pixels
  <2>1. buf' = Append(b, m)
    BY <1>3, <1>5, <1>8
  <2>2. m \notin ToSet(b)
    BY <1>1, <1>3, <1>6
  <2>3. NoRepeat(buf') /\ ToSet(buf') = ToSet(b) \cup {m}
    BY <1>6, <2>1, <2>2, AppendNoRepeat, AppendSet
  <2>4. NoRepeat(pixels') /\ ToSet(pixels') = ToSet(pixels)
    BY <1>4, <1>8
  <2> QED BY <1>1, <1>2, <1>3, <1>4, <1>6, <2>3, <2>4 DEF Placed, Tidy, Buffered
<1> QED BY <1>1, <1>7, <1>8 DEF EmitTwice, Twin

\* New messages in the buffers part as before.
LEMMA PlacedParts ==
  ASSUME Placement, NEW ms, Placed(ms), UNCHANGED netVars
  PROVE  IsFiniteSet(sent') /\ Tidy' /\ Apart' /\ Parts'
<1>1. IsFiniteSet(sent')
  BY FS_Union DEF Placement, Placed
<1>2. UNCHANGED <<inflight, ok, err>> /\ UnderWay' = UnderWay
  BY DEF netVars, UnderWay
<1>3. Apart'
  BY <1>2 DEF Placement, Apart
<1>4. Parts'
  BY <1>2 DEF Placement, Placed, Parts
<1> QED BY <1>1, <1>3, <1>4 DEF Placed

\* Nothing moves but a stage, or a copy is given up.
LEMMA QuietPlacement ==
  ASSUME BackedInv, Placement, UNCHANGED <<bufVars, netVars>>, delayed' \subseteq delayed,
         \A x \in Message : Past(x) => Past(x)', Over'
  PROVE  Placement'
<1>1. Tidy' /\ Apart' /\ Parts' /\ IsFiniteSet(sent')
  BY DEF Placement, Tidy, Apart, Parts, Buffered, UnderWay, bufVars, netVars
<1>2. sent \cup delayed \subseteq Message
  BY DEF BackedInv, TypeOK
<1>3. Fresh'
  BY <1>2 DEF Placement, Fresh, bufVars
<1> QED BY <1>1, <1>3 DEF Placement

\* The step of a viewer that emits m.
LEMMA EmitPlacement ==
  ASSUME BackedInv, Placement, main = "running", UNCHANGED <<main, netVars>>,
         NEW m \in Message, m.form = "original", Emit(m) \/ EmitTwice(m),
         \A x \in Message : x.ad = m.ad /\ x.type = m.type /\ x.number = m.number => ~Past(x) /\ Past(x)',
         \A x \in Message : Past(x) => Past(x)'
  PROVE  Placement'
<1>1. PICK t, c \in Message : t = Twin(m) /\ c = Copy(m)
  BY FormFacts
<1>2. /\ t.form = "twin" /\ t.ad = m.ad /\ t.type = m.type /\ t.number = m.number
      /\ c.form = "copy" /\ c.ad = m.ad /\ c.type = m.type /\ c.number = m.number
  BY <1>1 DEF Twin, Copy, Message
<1>3. {m, t, c} \cap (sent \cup delayed) = {} /\ Past(m)' /\ Past(t)' /\ Past(c)'
  BY <1>1, <1>2 DEF Placement, Fresh
<1>n. TypeOK /\ Flow /\ Tidy /\ sent \cup delayed \subseteq Message
  BY DEF BackedInv, Placement, TypeOK
<1>4. delayed' \subseteq delayed \cup {c}
  BY <1>1 DEF Emit, EmitTwice, CopyOrNot, CopyLater, Copy
<1>5. \E ms \in SUBSET {m, t} : Placed(ms)
  <2>1. CASE EmitTwice(m)
    BY <1>1, <1>3, <1>n, <2>1, TwicePlaced
  <2>2. CASE Emit(m)
    <3>1. \E pixel \in BOOLEAN : Route(m, pixel)
      BY <2>2 DEF Emit, RouteSomehow, PixelAllowed
    <3>2. Placed({m})
      BY <1>3, <1>n, <3>1, RoutePlaced
    <3> QED BY <3>2
  <2> QED BY <2>1, <2>2
<1>6. PICK ms \in SUBSET {m, t} : Placed(ms)
  BY <1>5
<1>7. IsFiniteSet(sent') /\ Tidy' /\ Apart' /\ Parts'
  BY <1>6, PlacedParts
<1>8. sent' = sent \cup ms
  BY <1>6 DEF Placed
<1>9. Fresh'
  <2>1. \A x \in (sent \cup delayed)' : Past(x)'
    BY <1>3, <1>4, <1>8, <1>n DEF Placement, Fresh
  <2>2. (sent \cap delayed)' = {}
    BY <1>1, <1>2, <1>3, <1>4, <1>8 DEF Placement, Fresh
  <2> QED BY <2>1, <2>2 DEF Fresh
<1>10. Over'
  BY DEF Over
<1> QED BY <1>7, <1>9, <1>10 DEF Placement

\* The steps of an ad.
Onward(from, to) ==
  <<from, to>> \in {<<"request", "asked">>, <<"asked", "filled">>, <<"asked", "done">>,
                    <<"filled", "playing">>, <<"playing", "playing">>, <<"playing", "done">>}

\* Along them, what is past stays past.
LEMMA PastStays ==
  ASSUME TypeOK, NEW a \in Ads, NEW to,
         Onward(stage[a], to),
         stage' = [stage EXCEPT ![a] = to],
         reached' = reached \/ (reached[a] \in Nat /\ reached' = [reached EXCEPT ![a] = @ + 1])
  PROVE  \A x \in Message : Past(x) => Past(x)'
<1> SUFFICES ASSUME NEW x \in Message, Past(x) PROVE Past(x)'
  OBVIOUS
<1>1. x.ad \in Ads /\ x.number \in Nat
  BY GeneratorAssumption DEF Message
<1>2. reached[x.ad] \in Nat /\ reached'[x.ad] \in Nat /\ reached[x.ad] <= reached'[x.ad]
  <2>1. reached \in [Ads -> 0..Quartiles]
    BY DEF TypeOK
  <2>2. reached[x.ad] \in Nat
    BY <1>1, <2>1
  <2>3. CASE reached' = reached
    BY <2>2, <2>3
  <2>4. CASE reached[a] \in Nat /\ reached' = [reached EXCEPT ![a] = @ + 1]
    <3>1. reached'[x.ad] = IF x.ad = a THEN reached[a] + 1 ELSE reached[x.ad]
      BY <1>1, <2>1, <2>4
    <3> QED BY <2>2, <2>4, <3>1
  <2> QED BY <2>3, <2>4
<1>3. CASE x.ad # a
  <2>1. stage'[x.ad] = stage[x.ad]
    BY <1>1, <1>3 DEF TypeOK
  <2> QED BY <1>1, <1>2, <2>1 DEF Past
<1>4. CASE x.ad = a
  <2>1. stage'[a] = to
    BY DEF TypeOK
  <2> QED BY <1>1, <1>2, <1>4, <2>1 DEF Past, Onward
<1> QED BY <1>3, <1>4

\* The steps of a viewer.
LEMMA AdPlacement ==
  ASSUME BackedInv, Placement, NEW a \in Ads,
         \/ Ask(a) \/ Decide(a) \/ AnswerDecision(a) \/ DecisionFails(a) \/ DecideAlone(a)
         \/ Impression(a) \/ PlayQuartile(a) \/ EndAd(a)
  PROVE  Placement'
<1>n. TypeOK /\ reached[a] \in Nat
  BY GeneratorAssumption DEF BackedInv, TypeOK
<1>1. ASSUME NEW from, NEW to, Step(a, from, to), UNCHANGED reached,
             Onward(from, to)
      PROVE  /\ stage[a] = from /\ stage'[a] = to /\ main = "running" /\ UNCHANGED <<main, netVars>>
             /\ \A x \in Message : Past(x) => Past(x)'
  <2>1. stage[a] = from /\ stage' = [stage EXCEPT ![a] = to] /\ main = "running" /\ UNCHANGED <<main, netVars>>
    BY <1>1 DEF Step
  <2>2. stage'[a] = to
    BY <1>n, <2>1 DEF TypeOK
  <2>3. \A x \in Message : Past(x) => Past(x)'
    <3>1. Onward(stage[a], to)
      BY <1>1, <2>1
    <3>2. reached' = reached
      BY <1>1
    <3> QED BY <1>n, <2>1, <3>1, <3>2, PastStays
  <2> QED BY <2>1, <2>2, <2>3
<1>2. ASSUME NEW to \in {"filled", "done"}, Step(a, "asked", to), UNCHANGED <<reached, bufVars, delayed>>
      PROVE  Placement'
  <2>1. main = "running" /\ UNCHANGED <<main, netVars>> /\ \A x \in Message : Past(x) => Past(x)'
    <3>1. Onward("asked", to)
      BY <1>2 DEF Onward
    <3> QED BY <1>1, <1>2, <3>1
  <2>2. Over'
    BY <2>1 DEF Over
  <2> QED BY <1>2, <2>1, <2>2, QuietPlacement
<1>3. ASSUME NEW type \in {"ad_request", "ad_response", "impression", "click"}, NEW from, NEW to,
             Step(a, from, to), UNCHANGED reached,
             Emit(Original(a, type)) \/ EmitTwice(Original(a, type)),
             <<type, from, to>> \in {<<"ad_request", "request", "asked">>, <<"ad_response", "asked", "filled">>,
                                     <<"impression", "filled", "playing">>, <<"click", "playing", "done">>}
      PROVE  Placement'
  <2>1. PICK m \in Message : /\ m = Original(a, type) /\ m.ad = a /\ m.type = type /\ m.form = "original"
    <3>1. Original(a, type) \in Message
      BY <1>3, OriginalType
    <3> QED BY <3>1 DEF Original
  <2>2. Onward(from, to)
    BY <1>3 DEF Onward
  <2>3. /\ stage[a] = from /\ stage'[a] = to /\ main = "running" /\ UNCHANGED <<main, netVars>>
        /\ \A x \in Message : Past(x) => Past(x)'
    BY <1>1, <1>3, <2>2
  <2>4. ASSUME NEW x \in Message, x.ad = m.ad, x.type = m.type PROVE ~Past(x) /\ Past(x)'
    BY <1>3, <2>1, <2>3, <2>4 DEF Past
  <2>5. Emit(m) \/ EmitTwice(m)
    BY <1>3, <2>1
  <2> QED BY <2>1, <2>3, <2>4, <2>5, EmitPlacement
<1>4. CASE Ask(a)
  BY <1>3, <1>4 DEF Ask
<1>5. CASE Decide(a)
  <2>1. UNCHANGED <<main, stage, reached, bufVars, delayed, netVars>>
    BY <1>5 DEF Decide
  <2>2. \A x \in Message : Past(x) => Past(x)'
    BY <2>1 DEF Past
  <2>3. Over'
    BY <2>1 DEF Placement, Over, bufVars, netVars
  <2> QED BY <2>1, <2>2, <2>3, QuietPlacement
<1>6. CASE AnswerDecision(a) \/ DecisionFails(a)
  BY <1>2, <1>6 DEF AnswerDecision, DecisionFails
<1>7. CASE DecideAlone(a)
  BY <1>2, <1>3, <1>7 DEF DecideAlone
<1>8. CASE Impression(a)
  BY <1>3, <1>8 DEF Impression
<1>9. CASE PlayQuartile(a)
  <2>0. reached[a] + 1 \in 0..Quartiles
    BY <1>9, <1>n, GeneratorAssumption DEF PlayQuartile
  <2>1. PICK m \in Message : /\ m = [Original(a, "quartile") EXCEPT !.number = reached[a] + 1]
                             /\ m.ad = a /\ m.type = "quartile" /\ m.form = "original" /\ m.number = reached[a] + 1
    <3>1. [Original(a, "quartile") EXCEPT !.number = reached[a] + 1] \in Message
      BY <2>0, OriginalType
    <3> QED BY <3>1 DEF Original
  <2>2. /\ Step(a, "playing", "playing") /\ reached' = [reached EXCEPT ![a] = @ + 1] /\ Emit(m)
    BY <1>9, <2>1 DEF PlayQuartile
  <2>3. stage[a] = "playing" /\ stage' = [stage EXCEPT ![a] = "playing"] /\ main = "running" /\ UNCHANGED <<main, netVars>>
    BY <2>2 DEF Step
  <2>4. \A x \in Message : Past(x) => Past(x)'
    <3>1. Onward(stage[a], "playing")
      BY <2>3 DEF Onward
    <3> QED BY <1>n, <2>2, <2>3, <3>1, PastStays
  <2>5. reached'[a] = reached[a] + 1
    BY <1>n, <2>2 DEF TypeOK
  <2>6. ASSUME NEW x \in Message, x.ad = m.ad, x.type = m.type, x.number = m.number PROVE ~Past(x) /\ Past(x)'
    BY <1>n, <2>1, <2>5, <2>6 DEF Past
  <2> QED BY <2>1, <2>2, <2>3, <2>4, <2>6, EmitPlacement
<1>10. CASE EndAd(a)
  <2>1. Step(a, "playing", "done") /\ UNCHANGED reached
    BY <1>10 DEF EndAd
  <2>2. CASE Emit(Original(a, "click"))
    BY <1>3, <2>1, <2>2
  <2>3. CASE UNCHANGED <<bufVars, delayed>>
    <3>1. main = "running" /\ UNCHANGED <<main, netVars>> /\ \A x \in Message : Past(x) => Past(x)'
      <4>1. Onward("playing", "done")
        BY DEF Onward
      <4> QED BY <1>1, <2>1, <4>1
    <3>2. Over'
      BY <3>1 DEF Over
    <3> QED BY <2>3, <3>1, <3>2, QuietPlacement
  <2> QED BY <1>10, <2>2, <2>3 DEF EndAd
<1> QED BY <1>4, <1>5, <1>6, <1>7, <1>8, <1>9, <1>10

LEMMA WakePlacement ==
  ASSUME BackedInv, Placement, NEW m \in delayed, Wake(m)
  PROVE  Placement'
<1>1. /\ delayed' = delayed \ {m} /\ UNCHANGED <<main, adVars, netVars>>
      /\ \/ main \in {"running", "stopped"} /\ RouteSomehow(m)
         \/ UNCHANGED bufVars
  BY DEF Wake
<1>2. \A x \in Message : Past(x)' <=> Past(x)
  BY <1>1 DEF Past, adVars
<1>3. CASE UNCHANGED bufVars
  <2>1. Over'
    BY <1>1, <1>3 DEF Placement, Over, bufVars, netVars
  <2> QED BY <1>1, <1>2, <1>3, <2>1, QuietPlacement
<1>4. CASE main \in {"running", "stopped"} /\ RouteSomehow(m)
  <2>1. m \in Message /\ m \notin sent /\ TypeOK /\ Flow /\ Tidy /\ sent \cup delayed \subseteq Message
    BY DEF BackedInv, TypeOK, Placement, Fresh
  <2>2. Placed({m})
    BY <1>4, <2>1, RoutePlaced DEF RouteSomehow, PixelAllowed
  <2>3. IsFiniteSet(sent') /\ Tidy' /\ Apart' /\ Parts'
    BY <1>1, <2>2, PlacedParts
  <2>4. sent' = sent \cup {m}
    BY <2>2 DEF Placed
  <2>5. Fresh'
    <3>1. \A x \in (sent \cup delayed)' : x \in sent \cup delayed
      BY <1>1, <2>4
    <3>2. \A x \in (sent \cup delayed)' : Past(x)'
      BY <1>2, <2>1, <3>1 DEF Placement, Fresh
    <3>3. (sent \cap delayed)' = {}
      BY <1>1, <2>4 DEF Placement, Fresh
    <3> QED BY <3>2, <3>3 DEF Fresh
  <2>6. Over'
    BY <1>1, <1>4 DEF Over
  <2> QED BY <2>3, <2>5, <2>6 DEF Placement
<1> QED BY <1>1, <1>3, <1>4

\* emitter.py _flush: batch number n of the buffer.
Batch(i) == SubSeq(buf, i, IF i + BatchSize - 1 < Len(buf) THEN i + BatchSize - 1 ELSE Len(buf))
Starts == {j \in 1..Len(buf) : (j - 1) % BatchSize = 0}

LEMMA BatchFacts ==
  ASSUME TypeOK, NEW i \in 1..Len(buf)
  PROVE  ToSet(Batch(i)) = {buf[k] : k \in {k \in 1..Len(buf) : i <= k /\ k < i + BatchSize}}
<1>n. buf \in Seq(Message) /\ Len(buf) \in Nat /\ BatchSize \in Nat \ {0}
  BY GeneratorAssumption DEF TypeOK
<1>1. PICK j \in i..Len(buf) : j = IF i + BatchSize - 1 < Len(buf) THEN i + BatchSize - 1 ELSE Len(buf)
  BY <1>n
<1>2. \A k \in i..j : k \in 1..Len(buf)
  BY <1>n
<1>3. /\ SubSeq(buf, i, j) \in Seq(Message) /\ Len(SubSeq(buf, i, j)) = j - i + 1
      /\ \A k \in 1..j - i + 1 : SubSeq(buf, i, j)[k] = buf[i + k - 1]
  BY <1>n, <1>2, SubSeqProperties
<1>4. DOMAIN SubSeq(buf, i, j) = 1..j - i + 1
  BY <1>3
<1>5. ToSet(SubSeq(buf, i, j)) = {buf[k] : k \in i..j}
  <2>1. ASSUME NEW k \in i..j PROVE buf[k] \in ToSet(SubSeq(buf, i, j))
    <3>1. k - i + 1 \in 1..j - i + 1 /\ i + (k - i + 1) - 1 = k
      BY <1>n
    <3>2. SubSeq(buf, i, j)[k - i + 1] = buf[k]
      BY <1>3, <3>1
    <3> QED BY <1>4, <3>1, <3>2 DEF ToSet
  <2>2. ASSUME NEW k \in 1..j - i + 1 PROVE SubSeq(buf, i, j)[k] \in {buf[x] : x \in i..j}
    <3>1. i + k - 1 \in i..j
      BY <1>n
    <3> QED BY <1>3, <3>1
  <2> QED BY <1>4, <2>1, <2>2 DEF ToSet
<1>6. i..j = {k \in 1..Len(buf) : i <= k /\ k < i + BatchSize}
  BY <1>n, <1>1
<1> QED BY <1>1, <1>5, <1>6 DEF Batch

\* Every place of the buffer lies in one batch, and in one only.
LEMMA BatchesPart ==
  ASSUME TypeOK
  PROVE  /\ \A k \in 1..Len(buf) : \E i \in Starts : i <= k /\ k < i + BatchSize
         /\ \A i, j \in Starts : i < j => i + BatchSize <= j
<1>n. Len(buf) \in Nat /\ BatchSize \in Nat \ {0}
  BY GeneratorAssumption DEF TypeOK
<1>1. ASSUME NEW k \in 1..Len(buf) PROVE \E i \in Starts : i <= k /\ k < i + BatchSize
  <2>1. k - 1 \in Nat
    BY <1>n
  <2>2. PICK q \in Nat : q = (k - 1) \div BatchSize
    BY <1>n, <2>1, QuotientFacts
  <2>3. PICK s \in Nat : s = BatchSize * q
    BY <1>n, QuotientOfMultiple
  <2>4. s <= k - 1 /\ k - 1 < s + BatchSize
    BY <1>n, <2>1, <2>2, <2>3, QuotientFacts
  <2>5. s % BatchSize = 0
    BY <1>n, <2>3, MultipleHasNoRest
  <2>6. s + 1 \in 1..Len(buf) /\ (s + 1) - 1 = s
    BY <1>n, <2>4
  <2>7. s + 1 \in Starts
    BY <2>5, <2>6 DEF Starts
  <2> QED BY <1>n, <2>4, <2>7
<1>2. ASSUME NEW i \in Starts, NEW j \in Starts, i < j PROVE i + BatchSize <= j
  <2>0. i \in Int /\ j \in Int
    BY DEF Starts
  <2>1. i - 1 \in Nat /\ j - 1 \in Nat /\ (i - 1) % BatchSize = 0 /\ (j - 1) % BatchSize = 0
    BY <1>n DEF Starts
  <2>2. PICK p \in Nat : p = (i - 1) \div BatchSize
    BY <1>n, <2>1, QuotientFacts
  <2>3. PICK q \in Nat : q = (j - 1) \div BatchSize
    BY <1>n, <2>1, QuotientFacts
  <2>4. i - 1 = BatchSize * p /\ j - 1 = BatchSize * q
    BY <1>n, <2>1, <2>2, <2>3, QuotientFacts
  <2>5. ~(q < p) /\ p # q
    <3>1. q < p => BatchSize * q + BatchSize <= BatchSize * p
      BY <1>n, NextMultiple
    <3>2. q < p => (j - 1) + BatchSize <= i - 1
      BY <2>4, <3>1
    <3>3. i - 1 < j - 1
      BY <1>2, <2>0
    <3>4. p = q => i - 1 = j - 1
      BY <2>4
    <3> QED BY <1>n, <2>1, <3>2, <3>3, <3>4
  <2>6. BatchSize * p + BatchSize <= BatchSize * q
    BY <1>n, <2>5, NextMultiple
  <2>7. (i - 1) + BatchSize <= j - 1
    BY <2>4, <2>6
  <2> QED BY <1>n, <2>0, <2>7
<1> QED BY <1>1, <1>2

\* A flush sends what is buffered, each message in one request.
LEMMA RequestsPart ==
  ASSUME TypeOK, Tidy
  PROVE  /\ UNION {ToSet(r) : r \in Requests} = Buffered
         /\ \A r, s \in Requests : r # s => ToSet(r) \cap ToSet(s) = {}
<1>n. /\ Len(buf) \in Nat /\ DOMAIN buf = 1..Len(buf) /\ BatchSize \in Nat \ {0}
      /\ DOMAIN pixels = 1..Len(pixels)
  BY GeneratorAssumption DEF TypeOK
<1>1. /\ ToSet(buf) = {buf[k] : k \in 1..Len(buf)} /\ ToSet(pixels) = {pixels[k] : k \in 1..Len(pixels)}
      /\ \A x : ToSet(<<x>>) = {x}
  BY <1>n DEF ToSet
<1>2. Requests = {Batch(i) : i \in Starts} \cup {<<pixels[i]>> : i \in 1..Len(pixels)}
  BY DEF Requests, Batch, Starts
<1>3. Starts \subseteq 1..Len(buf)
  BY DEF Starts
<1>4. \A i \in Starts : ToSet(Batch(i)) = {buf[k] : k \in {k \in 1..Len(buf) : i <= k /\ k < i + BatchSize}}
  BY <1>3, BatchFacts
<1>5. \A r \in Requests : ToSet(r) \subseteq Buffered
  BY <1>1, <1>2, <1>4 DEF Buffered
<1>6. ASSUME NEW x \in Buffered PROVE \E r \in Requests : x \in ToSet(r)
  <2>1. CASE x \in ToSet(pixels)
    <3>1. PICK k \in 1..Len(pixels) : x = pixels[k]
      BY <1>1, <2>1
    <3>2. <<x>> \in Requests /\ x \in ToSet(<<x>>)
      BY <1>1, <1>2, <3>1
    <3> QED BY <3>2
  <2>2. CASE x \in ToSet(buf)
    <3>1. PICK k \in 1..Len(buf) : x = buf[k]
      BY <1>1, <2>2
    <3>2. PICK i \in Starts : i <= k /\ k < i + BatchSize
      BY BatchesPart
    <3>3. x \in ToSet(Batch(i)) /\ Batch(i) \in Requests
      BY <1>2, <1>4, <3>1, <3>2
    <3> QED BY <3>3
  <2> QED BY <2>1, <2>2 DEF Buffered
<1>7. ASSUME NEW r \in Requests, NEW s \in Requests, NEW x, x \in ToSet(r), x \in ToSet(s) PROVE r = s
  <2>1. CASE x \in ToSet(pixels)
    <3>1. x \notin ToSet(buf)
      BY <2>1 DEF Tidy
    <3>2. \A i \in Starts : x \notin ToSet(Batch(i))
      BY <1>1, <1>4, <3>1
    <3>3. r = <<x>> /\ s = <<x>>
      BY <1>1, <1>2, <1>7, <3>2
    <3> QED BY <3>3
  <2>2. CASE x \notin ToSet(pixels)
    <3>1. \A i \in 1..Len(pixels) : x \notin ToSet(<<pixels[i]>>)
      BY <1>1, <2>2
    <3>2. PICK i \in Starts : r = Batch(i)
      BY <1>2, <1>7, <3>1
    <3>3. PICK j \in Starts : s = Batch(j)
      BY <1>2, <1>7, <3>1
    <3>4. PICK k \in 1..Len(buf) : x = buf[k] /\ i <= k /\ k < i + BatchSize
      BY <1>4, <1>7, <3>2
    <3>5. PICK l \in 1..Len(buf) : x = buf[l] /\ j <= l /\ l < j + BatchSize
      BY <1>4, <1>7, <3>3
    <3>6. k = l
      BY <3>4, <3>5 DEF Tidy, NoRepeat
    <3>7. ~(i < j) /\ ~(j < i)
      BY <1>n, <1>3, <3>4, <3>5, <3>6, BatchesPart
    <3>8. i = j
      BY <1>n, <1>3, <3>7
    <3> QED BY <3>2, <3>3, <3>8
  <2> QED BY <2>1, <2>2
<1> QED BY <1>5, <1>6, <1>7

LEMMA EmptyPlacement ==
  ASSUME BackedInv, Placement, EmptyBuffers, UNCHANGED <<adVars, delayed>>,
         main' \in {main, "closing"}, main # "ended"
  PROVE  Placement'
<1>0. /\ inflight' = inflight \cup Requests /\ buf' = <<>> /\ pixels' = <<>>
      /\ UNCHANGED <<sent, ok, err>>
  BY DEF EmptyBuffers
<1>1. /\ UNION {ToSet(r) : r \in Requests} = Buffered
      /\ \A r, s \in Requests : r # s => ToSet(r) \cap ToSet(s) = {}
  BY RequestsPart DEF BackedInv, Placement
<1>2. ToSet(<<>>) = {} /\ NoRepeat(<<>>)
  BY DEF ToSet, NoRepeat
<1>3. Buffered' = {} /\ UnderWay' = UnderWay \cup Buffered
  BY <1>0, <1>1, <1>2 DEF Buffered, UnderWay
<1>4. Tidy' /\ IsFiniteSet(sent')
  BY <1>0, <1>2 DEF Placement, Tidy
<1>5. Apart'
  <2> SUFFICES ASSUME NEW r \in inflight', NEW s \in inflight', NEW x, x \in ToSet(r), x \in ToSet(s)
               PROVE  r = s
    BY DEF Apart
  <2>1. \A t \in Requests : x \in ToSet(t) => x \in Buffered
    BY <1>1
  <2>2. \A t \in inflight : x \in ToSet(t) => x \in UnderWay
    BY DEF UnderWay
  <2>3. ~(x \in Buffered /\ x \in UnderWay)
    BY DEF Placement, Parts
  <2>4. CASE r \in inflight /\ s \in inflight
    BY <2>4 DEF Placement, Apart
  <2>5. CASE r \in Requests /\ s \in Requests
    BY <1>1, <2>5
  <2> QED BY <1>0, <2>1, <2>2, <2>3, <2>4, <2>5
<1>6. Parts'
  BY <1>0, <1>3 DEF Placement, Parts
<1>7. Fresh'
  BY <1>0 DEF Placement, Fresh, Past, adVars
<1>8. Over'
  BY <1>0 DEF Placement, Over
<1> QED BY <1>4, <1>5, <1>6, <1>7, <1>8 DEF Placement

LEMMA AnsweredPlacement ==
  ASSUME BackedInv, Placement, NEW r \in inflight, Answered(r)
  PROVE  Placement'
<1>0. /\ inflight' = inflight \ {r} /\ UNCHANGED <<main, adVars, bufVars, delayed>>
      /\ \/ ok' = ok \cup ToSet(r) /\ err' = err
         \/ ok' = ok /\ err' = err \cup ToSet(r)
  BY DEF Answered
<1>1. UnderWay' = UnderWay \ ToSet(r) /\ ToSet(r) \subseteq UnderWay
  <2>1. \A s \in inflight : s # r => ToSet(s) \cap ToSet(r) = {}
    BY DEF Placement, Apart
  <2> QED BY <1>0, <2>1 DEF UnderWay
<1>2. IsFiniteSet(sent') /\ Tidy' /\ Fresh'
  BY <1>0 DEF Placement, Tidy, Fresh, Past, adVars, bufVars
<1>3. Apart'
  BY <1>0 DEF Placement, Apart
<1>4. Parts'
  <2>1. Buffered' = Buffered /\ sent' = sent
    BY <1>0 DEF Buffered, bufVars
  <2>2. Parts
    BY DEF Placement
  <2> QED BY <1>0, <1>1, <2>1, <2>2 DEF Parts
<1>5. Over'
  BY <1>0 DEF Placement, Over, bufVars
<1> QED BY <1>2, <1>3, <1>4, <1>5 DEF Placement

LEMMA NextPlacement == BackedInv /\ Placement /\ [Next]_vars => Placement'
<1> SUFFICES ASSUME BackedInv, Placement, [Next]_vars PROVE Placement'
  OBVIOUS
<1>0. ASSUME UNCHANGED <<adVars, bufVars, netVars, delayed>>, Over' PROVE Placement'
  <2>1. \A x \in Message : Past(x) => Past(x)'
    BY <1>0 DEF Past, adVars
  <2> QED BY <1>0, <2>1, QuietPlacement
<1>1. ASSUME NEW a \in Ads,
             \/ Ask(a) \/ Decide(a) \/ AnswerDecision(a) \/ DecisionFails(a) \/ DecideAlone(a)
             \/ Impression(a) \/ PlayQuartile(a) \/ EndAd(a)
      PROVE Placement'
  BY <1>1, AdPlacement
<1>2. ASSUME NEW m \in delayed, Wake(m) PROVE Placement'
  BY <1>2, WakePlacement
<1>3. ASSUME NEW r \in inflight, Answered(r) PROVE Placement'
  BY <1>3, AnsweredPlacement
<1>4. CASE Flush
  BY <1>4, EmptyPlacement DEF Flush
<1>5. CASE Close
  BY <1>5, EmptyPlacement DEF Close
<1>6. CASE Pause \/ Resume \/ Stop \/ UNCHANGED vars
  <2>1. UNCHANGED <<adVars, bufVars, netVars, delayed>> /\ (main' = main \/ main' = "stopped")
    BY <1>6 DEF Pause, Resume, Stop, vars
  <2>2. Over'
    BY <2>1 DEF Placement, Over, bufVars, netVars
  <2> QED BY <1>0, <2>1, <2>2
<1>7. CASE End
  <2>1. UNCHANGED <<adVars, bufVars, netVars, delayed>> /\ main = "closing" /\ inflight = {}
    BY <1>7 DEF End
  <2>2. Over'
    BY <2>1 DEF Placement, Over, bufVars, netVars
  <2> QED BY <1>0, <2>1, <2>2
<1> QED BY <1>1, <1>2, <1>3, <1>4, <1>5, <1>6, <1>7 DEF Next

LEMMA InitPlacement == Init => Placement
<1> SUFFICES ASSUME Init PROVE Placement
  OBVIOUS
<1>1. ToSet(<<>>) = {} /\ NoRepeat(<<>>)
  BY DEF ToSet, NoRepeat
<1>2. IsFiniteSet(sent)
  BY FS_EmptySet DEF Init
<1>3. Tidy /\ Apart /\ Parts
  BY <1>1 DEF Init, Tidy, Apart, Parts, Buffered, UnderWay
<1>4. Fresh /\ Over
  BY DEF Init, Fresh, Over
<1> QED BY <1>2, <1>3, <1>4 DEF Placement

\* Parts of a finite set are counted one by one.
LEMMA PlacementAddsUp == BackedInv /\ Placement => SentAddsUp
<1> SUFFICES ASSUME BackedInv, Placement PROVE SentAddsUp
  OBVIOUS
<1>1. sent = Buffered \cup UnderWay \cup ok \cup err
  BY DEF Placement, Parts
<1>2. PICK b, p \in SUBSET sent : b = ToSet(buf) /\ p = ToSet(pixels)
  BY <1>1 DEF Buffered
<1>3. PICK w, o, e \in SUBSET sent : w = UnderWay /\ o = ok /\ e = err
  BY <1>1
<1>4. \A S \in SUBSET sent : IsFiniteSet(S)
  BY FS_Subset DEF Placement
<1>5. Cardinality(b) = Len(buf) /\ Cardinality(p) = Len(pixels)
  BY <1>2, SequenceCount DEF Placement, Tidy, BackedInv, TypeOK
<1>6. b \cap p = {} /\ (b \cup p) \cap w = {} /\ ((b \cup p) \cup w) \cap o = {} /\ (((b \cup p) \cup w) \cup o) \cap e = {}
  BY <1>2, <1>3 DEF Placement, Tidy, Parts, Buffered
<1>7. Cardinality(b \cup p) = Cardinality(b) + Cardinality(p)
  BY <1>4, <1>6, CountUnion
<1>8. Cardinality((b \cup p) \cup w) = Cardinality(b \cup p) + Cardinality(w)
  BY <1>4, <1>6, CountUnion
<1>9. Cardinality(((b \cup p) \cup w) \cup o) = Cardinality((b \cup p) \cup w) + Cardinality(o)
  BY <1>4, <1>6, CountUnion
<1>10. Cardinality((((b \cup p) \cup w) \cup o) \cup e) = Cardinality(((b \cup p) \cup w) \cup o) + Cardinality(e)
  BY <1>4, <1>6, CountUnion
<1>11. sent = (((b \cup p) \cup w) \cup o) \cup e
  BY <1>1, <1>2, <1>3 DEF Buffered
<1>12. Cardinality(sent) = Len(buf) + Len(pixels) + Cardinality(UnderWay) + Cardinality(ok) + Cardinality(err)
  BY <1>3, <1>5, <1>7, <1>8, <1>9, <1>10, <1>11
<1>13. ASSUME main = "ended" PROVE sent = ok \cup err
  <2>1. buf = <<>> /\ pixels = <<>> /\ inflight = {}
    BY <1>13 DEF Placement, Over
  <2>2. Buffered = {} /\ UnderWay = {}
    BY <2>1 DEF Buffered, UnderWay, ToSet
  <2> QED BY <1>1, <2>2
<1> QED BY <1>1, <1>12, <1>13 DEF SentAddsUp

-----------------------------------------------------------------------------
(* Theorems *)

\* Every variable keeps its type.
THEOREM TypeCorrect == Spec => []TypeOK
<1>1. BackedInv => TypeOK
  BY DEF BackedInv
<1> QED BY <1>1, BackedInvariant, PTL

\* users.py 140-190: every impression the collector receives, its twin and its
\* copies are of a request ad-decision has filled, however the call, the
\* anomalies and the end of the generator interleave.
THEOREM ImpressionsAreBacked == Spec => []ImpressionsBacked
<1>1. BackedInv => ImpressionsBacked
  BY DEF BackedInv, Flow, Backed, ImpressionsBacked
<1> QED BY <1>1, BackedInvariant, PTL

\* emitter.py 154-235: the counts the generator prints add up, in every state
\* and when it has ended, for every set of ads, batch size and fault.
THEOREM CountsAddUp == Spec => []SentAddsUp
<1>1. Spec => []Placement
  BY BackedInvariant, InitPlacement, NextPlacement, PTL DEF Spec
<1> QED BY <1>1, BackedInvariant, PlacementAddsUp, PTL
=============================================================================
