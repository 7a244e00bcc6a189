------------------------------ MODULE MCLeases ------------------------------
(* A small instance of Leases: one libstore with two readers of a value.   *)
EXTENDS Leases

CONSTANT a

SameHome == [r \in Reader |-> a]
Values == [t \in Reader \cup Writer |-> "value"]
=============================================================================
