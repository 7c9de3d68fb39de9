------------------------------ MODULE MCOutbox ------------------------------
(* Model values and symmetry for the TLC runs of Outbox. *)
EXTENDS Outbox, TLC

CONSTANTS w1, w2

Two == {w1, w2}

AllFaults == FaultKind
Third == {3}
=============================================================================
