---------------------------- MODULE MCDashboard ----------------------------
(* The instance TLC checks: two partitions of agg.minute, one campaign      *)
(* each, two results of one window in p.  The clock stands still; it moves   *)
(* in MCRedisWriter.                                                         *)
EXTENDS Dashboard, TLC

CONSTANTS c, d, p, q

TwoPartitions == {p, q}
TwoCampaigns == {c, d}

Result(k, n) == [kind |-> "agg", campaign |-> k, time |-> 0, count |-> n]
MCLog == (p :> <<Result(c, 1), Result(c, 2)>>) @@ (q :> <<Result(d, 1)>>)

SomeFaults == {"crash", "query"}
=============================================================================
