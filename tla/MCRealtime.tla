----------------------------- MODULE MCRealtime -----------------------------
(* The instances TLC checks.  Windows are two ticks long: a and b are in    *)
(* [0,2), c is in [2,4); pending is an ad_request of a client, read for its *)
(* event_time and filtered.  The watermark can close both windows.          *)
EXTENDS Realtime

CONSTANTS a, b, c, pending, p, q

AllEvents == {a, b, c, pending}
MCCounted == AllEvents \ {pending}
TwoPartitions == {p, q}
MCPartOf == [e \in AllEvents |-> IF e = b THEN q ELSE p]
MCTimeOf == [e \in AllEvents |-> CASE e \in {a, b} -> 1 [] e = c -> 2 [] e = pending -> 4]

AllFaults == FaultKind
NoPartition == {}
=============================================================================
