----------------------------- MODULE MCSemaphore -----------------------------
(* Instances of Semaphore for TLC: with clients that acquire and release as *)
(* they please while the ceiling moves, and with the buzz broker as its     *)
(* client.                                                                  *)
EXTENDS BuzzBroker, TLC

CONSTANTS c1, c2

VARIABLE client

MCHolders == {c1, c2} \X {"data", "end"}

Plain == [kind |-> "plain", parts |-> 1]

\* One command of any kind in two parts beside an ordinary one, or two that
\* print a clone address.
MCWorkloads ==
  {c1 :> [kind |-> k, parts |-> 2] @@ c2 :> Plain : k \in Kinds}
  \cup {[c \in {c1, c2} |-> [kind |-> "clone", parts |-> 1]]}

MCInit ==
  /\ Init /\ BrokerInit
  /\ client \in {"turns", "broker"}
  /\ client = "turns" =>
       policy = "open" /\ command = CHOOSE w \in Workloads : TRUE
  /\ client = "broker" => permits < 3

MCNext ==
  /\ \/ client = "turns" /\ Next /\ UNCHANGED brokerVars
     \/ client = "broker" /\ BrokerNext
  /\ UNCHANGED client

MCSpec ==
  /\ MCInit /\ [][MCNext]_<<vars, brokerVars, client>>
  /\ BrokerFairness
  /\ \A h \in Holders :
       WF_<<vars, brokerVars, client>>(
         client = "turns" /\ Release(h) /\ UNCHANGED <<brokerVars, client>>)

=============================================================================
