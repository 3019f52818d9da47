---------------------------- MODULE MCRelayerPool ----------------------------
(***************************************************************************)
(* Instances of RelayerPool for TLC: a script with funds to spare, a script  *)
(* short of funds on a network that answers in time, a test session, and    *)
(* one whose requests raise.                                                *)
(***************************************************************************)
EXTENDS RelayerPool

Script == [funds |-> 14, dust |-> {0, 1}, session |-> FALSE, raises |-> TRUE,
           late |-> TRUE, failures |-> 2, queued |-> 0]
Prompt == [funds |-> 3, dust |-> 0..2, session |-> FALSE, raises |-> TRUE,
           late |-> FALSE, failures |-> 3, queued |-> 0]
Fixture == [funds |-> 18, dust |-> {0, 1}, session |-> TRUE, raises |-> FALSE,
            late |-> TRUE, failures |-> 3, queued |-> 0]
Faulty == [funds |-> 18, dust |-> {0, 1}, session |-> TRUE, raises |-> TRUE,
           late |-> TRUE, failures |-> 2, queued |-> 2]
AllWorlds == {Script, Prompt, Fixture, Faulty}
=============================================================================
