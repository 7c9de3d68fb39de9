---------------------------- MODULE AtLeastOnce ----------------------------
(***************************************************************************)
(* What an at-least-once hand-over to Kafka promises, whatever implements  *)
(* it.  A message is first accepted (the producer's side has taken the     *)
(* responsibility for it), then appended to the topic any number of times, *)
(* and only after a first append may it be confirmed (crossed off the      *)
(* producer's list of what is left to send).  Nothing is ever un-accepted, *)
(* un-appended or un-confirmed.                                            *)
(*                                                                         *)
(* OutboxWorker.kt:32-40 describes this contract in words; Outbox.tla and  *)
(* Collector.tla are shown to implement it.                                *)
(***************************************************************************)
EXTENDS Naturals

CONSTANT Msg             \* the messages that may be handed over

VARIABLES accepted,      \* messages the producer has promised to deliver
          copies,        \* copies[m]: records of m in the topic
          confirmed      \* messages that will never be sent again

aloVars == <<accepted, copies, confirmed>>

ALOInit ==
  /\ accepted = {}
  /\ copies = [m \in Msg |-> 0]
  /\ confirmed = {}

Accept(m) ==
  /\ accepted' = accepted \cup {m}
  /\ UNCHANGED <<copies, confirmed>>

\* Only what was accepted reaches the topic, possibly more than once (twice at
\* a time, where a retry repeats what was appended), and possibly even after it
\* was confirmed.
Deliver(m) ==
  /\ m \in accepted
  /\ \E n \in {1, 2} : copies' = [copies EXCEPT ![m] = @ + n]
  /\ UNCHANGED <<accepted, confirmed>>

\* A batch of messages is crossed off at once; each one is in the topic.
Confirm(S) ==
  /\ \A m \in S : copies[m] >= 1
  /\ confirmed' = confirmed \cup S
  /\ UNCHANGED <<accepted, copies>>

ALONext ==
  \/ \E m \in Msg : Accept(m) \/ Deliver(m)
  \/ \E S \in SUBSET Msg : Confirm(S)

ALOSpec == ALOInit /\ [][ALONext]_aloVars
=============================================================================
