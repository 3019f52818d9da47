---------------------------- MODULE MCDeployment ----------------------------
(***************************************************************************)
(* Instances of Deployment for TLC.                                        *)
(***************************************************************************)
EXTENDS Deployment

OneTransaction == <<"Multicall3">>

Killed == [network |-> "dev", reverts |-> FALSE, resets |-> FALSE, builds |-> 2, runs |-> 3, crashes |-> 1]
Reset == [network |-> "dev", reverts |-> FALSE, resets |-> TRUE, builds |-> 1, runs |-> 4, crashes |-> 2]
Reverts == [network |-> "prod", reverts |-> TRUE, resets |-> FALSE, builds |-> 1, runs |-> 2, crashes |-> 1]
Prod == [network |-> "prod", reverts |-> FALSE, resets |-> FALSE, builds |-> 2, runs |-> 3, crashes |-> 1]
Staging == [Prod EXCEPT !.network = "staging"]
AllWorlds == {Killed, Reset, Reverts, Prod, Staging}
=============================================================================
