---------------------------- MODULE MCTribServer ----------------------------
(* Two users, one of whom subscribes to both; two handlers at a time.      *)
EXTENDS TribServer, TLC

CONSTANTS a, b

C(op, u, t) == [op |-> op, user |-> u, target |-> t]

MCCalls ==
  {C("CreateUser", a, a), C("CreateUser", b, b), C("AddSubscription", a, b),
   C("RemoveSubscription", a, b), C("GetSubscriptions", a, a),
   C("PostTribble", b, b), C("GetTribbles", b, b), C("GetTribblesBySubscription", a, a)}

Sym == Permutations(Handler)
=============================================================================
