---------------------------- MODULE MCCollector ----------------------------
(* Model values for the TLC runs of Collector. *)
EXTENDS Collector, TLC

CONSTANTS e1, e2, p1, p2, ingest

TwoEvents == {e1, e2}
OneReplayer == {p1}
TwoReplayers == {p1, p2}
None == {}
Second == {e2}

\* Replays are interchangeable.  Used in safety runs only.
ReplayersSymmetric == Permutations(TwoReplayers)
=============================================================================
