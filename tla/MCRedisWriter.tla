--------------------------- MODULE MCRedisWriter ---------------------------
(* The instance TLC checks.  A minute is two ticks.  Partition p (agg.minute) *)
(* holds two results of one window, q a late event and r an alert.  In the    *)
(* end the window is past the retention.                                      *)
EXTENDS RedisWriter, TLC

CONSTANTS c, p, q, r

ThreePartitions == {p, q, r}
OneCampaign == {c}

Msg(k, t, n) == [kind |-> k, campaign |-> c, time |-> t, count |-> n]
MCLog == (p :> <<Msg("agg", 0, 1), Msg("agg", 0, 2)>>) @@
         (q :> <<Msg("late", 1, 0)>>) @@
         (r :> <<Msg("alert", NoTime, 0)>>)

AllFaults == FaultKind \ {"query"}
=============================================================================
