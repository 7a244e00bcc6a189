------------------------------ MODULE MCMining ------------------------------
(* Instances of Mining for TLC: nonces are 3-bit numbers.                  *)
EXTENDS Mining

(* Client c1 asks for 0..4, which is split between the miners that have    *)
(* joined; c2 asks for 0..1, which is not split.                           *)
TwoRanges == [c \in Client |-> IF c = "c1" THEN 4 ELSE 1]

(* Client c1 asks again, perhaps while its first request is running.       *)
AskAgain == [c \in Client |-> IF c = "c1" THEN 2 ELSE 1]

(* A hash with a tie, and with its minimum in the last nonce of 0..4.      *)
SomeHash == [n \in 0 .. 7 |-> CASE n = 0 -> 5 [] n = 1 -> 3 [] n = 2 -> 3
                                [] n = 4 -> 1 [] OTHER -> 7]
=============================================================================
