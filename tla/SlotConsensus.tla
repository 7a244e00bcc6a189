--------------------------- MODULE SlotConsensus ---------------------------
(***************************************************************************)
(* What the Paxos library promises for one time slot, without the          *)
(* protocol: at most one value is chosen, a chosen value stays, and a call *)
(* of startHelper returns only when there is one.                          *)
(***************************************************************************)
CONSTANTS Call, Value

VARIABLES chosen,    \* the set of chosen values
          returned   \* the calls of startHelper that have returned

Init ==
  /\ chosen = {}
  /\ returned = {}

Choose ==
  /\ chosen = {}
  /\ \E v \in Value : chosen' = {v}
  /\ UNCHANGED returned

Return(c) ==
  /\ chosen # {}
  /\ returned' = returned \cup {c}
  /\ UNCHANGED chosen

Next == Choose \/ \E c \in Call : Return(c)

Spec == Init /\ [][Next]_<<chosen, returned>>
=============================================================================
