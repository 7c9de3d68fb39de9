----------------------------- MODULE MCTracking -----------------------------
(* The instance TLC checks: a session traces two events, both remembered and *)
(* scanned with one consumer in one partition, or plays two ads, the second  *)
(* of which pushes out the first.  The events of an ad go to the partition   *)
(* of its answer and to the other one.                                       *)
EXTENDS Tracking, TLC

CONSTANTS t1, t2, play1, play2, p1, p2

TwoPartitions == {p1, p2}
TwoTraces == {t1, t2}
TwoPlays == {play1, play2}
MCSessions == {{t1, t2}, {play1, play2}}
MCSent == (t1 :> <<p1>>) @@ (t2 :> <<p1>>) @@ (play1 :> <<p2, p1>>) @@ (play2 :> <<>>)
MCAnswer == (play1 :> p2) @@ (play2 :> p1)

MCKeep == [s \in Server |-> IF s = "tracer" THEN 2 ELSE 1]

AllFaults == {"end", "decision", "deadline"}
=============================================================================
