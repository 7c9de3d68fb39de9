---------------------------- MODULE MCSettlement ----------------------------
(* The instance TLC checks.  A day has two minutes.  client and server are   *)
(* the two impressions of one ad request, the last minute of a day and the   *)
(* first of the next; copy is client again, without the mark it carries.     *)
(* click is of a campaign without an impression, response of the minute of   *)
(* server.                                                                   *)
EXTENDS Settlement, TLC

CONSTANTS client, copy, server, click, response, j1, j2

MCRows == {client, copy, server, click, response}
MCEventOf == [r \in MCRows |-> IF r = copy THEN client ELSE r]
MCEvents == MCRows \ {copy}
MCLateFlag == [r \in MCRows |-> r = client]
MCKindOf == [e \in MCEvents |->
               CASE e \in {client, server} -> "impression" [] e = click -> "click" [] e = response -> "response"]
MCCampaignOf == [e \in MCEvents |-> IF e = click THEN "cmp-1002" ELSE "cmp-1001"]
MCRequestOf == [e \in MCEvents |-> IF e = click THEN 2 ELSE 1]
MCSourceRank == [e \in MCEvents |-> IF e = server THEN 0 ELSE 1]
MCTimeOf == [e \in MCEvents |-> CASE e = click -> 0 [] e = client -> 1 [] e \in {server, response} -> 2]
MCIdOrder == [e \in MCEvents |-> CASE e = client -> 1 [] e = server -> 2 [] e = click -> 3 [] e = response -> 4]
MCRates == [c \in {"cmp-1001"} |-> 1200500]
TwoJobs == {j1, j2}
FirstDay == [ranged |-> FALSE, from |-> 0, to |-> 2]
Between == [ranged |-> TRUE, from |-> 1, to |-> 3]
MCSessions == {[runs |-> TwoJobs, scopes |-> {}]}
                \cup {[runs |-> {j}, scopes |-> {FirstDay, Between}] : j \in TwoJobs}
JobsSymmetric == Permutations(TwoJobs)
AllFaults == FaultKind
=============================================================================
