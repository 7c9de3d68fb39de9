-------------------------- MODULE MCReconciliation --------------------------
(* The instance TLC checks.  client and server are the two beacons of one   *)
(* ad request, a minute apart: server is billed.  other is an impression of *)
(* another request, sent as ad_impression, in the minute of client; tick is *)
(* a click that only moves the watermark.                                   *)
EXTENDS Reconciliation

CONSTANTS client, server, other, tick, p, q

MCEvents == {client, server, other, tick}
MCPartitions == {p, q}
MCPartOf == [e \in Events |-> IF e = other THEN q ELSE p]
MCTimeOf == [e \in Events |-> CASE e \in {client, other} -> 1 [] e = server -> 2 [] e = tick -> 4]
MCTypeOf == [e \in Events |-> CASE e = tick -> "click"
                              [] e = other -> "ad_impression"
                              [] OTHER -> "impression"]
MCCampaignOf == [e \in Events |-> IF e = other THEN "cmp-1002" ELSE "cmp-1001"]
MCRequestOf == [e \in Events |-> IF e \in {client, server} THEN 1 ELSE IF e = other THEN 2 ELSE 3]
MCSourceOf == [e \in Events |-> IF e = server THEN "server" ELSE "client"]
MCIdOrder == [e \in Events |-> CASE e = client -> 1 [] e = server -> 2 [] e = other -> 3 [] e = tick -> 4]

Expiries == {"forget"}
PartitionP == {p}
=============================================================================
