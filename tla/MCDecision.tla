----------------------------- MODULE MCDecision -----------------------------
(* The instance TLC checks: two requests that both prefer campaign c1, one *)
(* of them forced to no fill.  One row is enough for either to be first.   *)
EXTENDS Decision, TLC

CONSTANTS c1, c2, q1, q2, w1

TwoCampaigns == {c1, c2}
TwoRequests == {q1, q2}
OneWorker == {w1}
PreferFirst == [q \in Requests |-> c1]
OneForced == {q2}
NoRows == {}
CrashOrDrop == {"crash", "drop"}
=============================================================================
