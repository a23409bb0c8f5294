---------------------------- MODULE MCLifecycle ----------------------------
(* The commands and versions the runs of Lifecycle use. *)
EXTENDS Lifecycle
CONSTANTS c1, c2, l1, l2

MCVersion == [c \in Clients |-> IF c = c1 THEN "v1" ELSE "v2"]
MCOneVersion == [c \in Clients |-> "v1"]
MCCommands ==
  {[op |-> "start", listener |-> Any, force |-> FALSE],
   [op |-> "stop", listener |-> Any, force |-> FALSE],
   [op |-> "stop", listener |-> Any, force |-> TRUE],
   [op |-> "restart", listener |-> Any, force |-> FALSE]}
MCBasics ==
  {[op |-> "start", listener |-> Any, force |-> FALSE],
   [op |-> "stop", listener |-> Any, force |-> FALSE]}
MCMoves == MCCommands \cup
  {[op |-> "start", listener |-> l2, force |-> FALSE],
   [op |-> "restart", listener |-> l2, force |-> FALSE]}
=============================================================================
