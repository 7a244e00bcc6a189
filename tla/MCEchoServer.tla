---------------------------- MODULE MCEchoServer ----------------------------
(* A small instance of EchoServer.                                         *)
EXTENDS EchoServer

CONSTANTS c1, c2

OnlyOneSends == [c \in Conn |-> IF c = c1 THEN 0 ELSE 3]
=============================================================================
