---------------------------- MODULE MCGenerator ----------------------------
(* The instance TLC checks: one ad, cut to one quartile event. *)
EXTENDS Generator, TLC

CONSTANT a

OneAd == {a}
AllFaults == {"twin", "forge", "dup", "decision", "http"}
=============================================================================
