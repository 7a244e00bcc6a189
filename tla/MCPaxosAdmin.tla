---------------------------- MODULE MCPaxosAdmin ----------------------------
(* Clusters of two and of three, in an order that sorting changes.         *)
EXTENDS PaxosAdmin

Cluster(list, draws, starts, changes, fails) ==
  [peers |-> list, draws |-> draws, starts |-> starts, changes |-> changes, fails |-> fails]

(* Two calls of Start; a retry and a failure; two changes; three peers;    *)
(* and two changes with failures, of two peers and of three.               *)
TwoAndThree ==
  {Cluster(<<2, 1>>, 2, 2, 1, 0), Cluster(<<2, 1>>, 3, 1, 1, 1),
   Cluster(<<2, 1>>, 2, 1, 2, 0), Cluster(<<3, 1, 2>>, 2, 1, 1, 0),
   Cluster(<<2, 1>>, 1, 0, 2, 2), Cluster(<<3, 1, 2>>, 1, 0, 2, 1)}
=============================================================================
