------------------------------ MODULE MCPaxos ------------------------------
(***************************************************************************)
(* Instances of Paxos for TLC: two calls, with different values, on one    *)
(* peer, where their numbers may collide.                                  *)
(***************************************************************************)
EXTENDS PaxosInv

OneHost == [c \in Call |-> 1]
TwoValues == [c \in Call |-> IF c = 1 THEN "v1" ELSE "v2"]

(* Call 2 may draw the number of call 1, a higher one, or one that         *)
(* overflows.                                                              *)
Clocks == [c \in Call |-> IF c = 1 THEN {0} ELSE {0, 1, 2}]

OneRound == [c \in Call |-> 1]
=============================================================================
