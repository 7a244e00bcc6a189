------------------------------ MODULE PaxosInv ------------------------------
(***************************************************************************)
(* The inductive invariant behind the agreement of Decide broadcasts in    *)
(* Paxos.tla.  TLC checks it on a small instance; PaxosProof proves it.    *)
(***************************************************************************)
EXTENDS Paxos

Decided(v) == \E m \in Requests("Decide") : m.value = v

Started == {Input[c] : c \in {d \in Call : pc[d] # "idle"}}

(* The Prepare of the round that sent the Accept m.                        *)
PrepareOf(m) == [type |-> "Prepare", call |-> m.call, round |-> m.round,
                 seqNum |-> m.seqNum, value |-> Nil]

(* Peer q answered OK to the Prepare m.                                    *)
Promised(q, m) == \E r \in replies : r.req = m /\ r.from = q /\ r.ok

(* Peer q has not accepted a value numbered n and never will: its          *)
(* seqNumHighest has passed n.                                             *)
WontVote(q, n) ==
  /\ \A v \in Value : ~ VotedFor(q, n, v)
  /\ seqNumHighest[q] > n

(* No value other than v was or will be accepted by a majority in a round  *)
(* numbered below n.                                                       *)
SafeAt(v, n) ==
  \A k \in 1 .. n - 1 : \E Q \in Majority : \A q \in Q :
    VotedFor(q, k, v) \/ WontVote(q, k)

(* What a peer holds for the slot.  After Decide, value may belong to no   *)
(* vote of the peer, because Decide leaves seqNumAccepted as it was.       *)
SlotInv ==
  \A q \in Peer :
    /\ 0 <= seqNumAccepted[q]
    /\ seqNumAccepted[q] <= seqNumHighest[q]
    /\ seqNumAccepted[q] > 0 =>
         /\ \E v \in Value : VotedFor(q, seqNumAccepted[q], v)
         /\ VotedFor(q, seqNumAccepted[q], value[q]) \/ Decided(value[q])
    /\ isDecided[q] =>
         VotedFor(q, seqNumAccepted[q], value[q]) \/ Decided(value[q])

(* What an OK reply to a Prepare still says later.                         *)
PromiseInv ==
  \A r \in replies : r.req.type = "Prepare" /\ r.ok =>
    /\ 0 < r.req.seqNum
    /\ r.req.seqNum <= seqNumHighest[r.from]
    /\ 0 <= r.seqNumAccepted
    /\ r.seqNumAccepted < r.req.seqNum
    /\ \A k \in r.seqNumAccepted + 1 .. r.req.seqNum - 1, v \in Value :
         ~ VotedFor(r.from, k, v)
    /\ r.seqNumAccepted > 0 =>
         /\ \E v \in Value : VotedFor(r.from, r.seqNumAccepted, v)
         /\ \/ VotedFor(r.from, r.seqNumAccepted, r.valueAccepted)
            \/ Decided(r.valueAccepted)

ReplyInv ==
  \A r \in replies :
    /\ r.req \in sent
    /\ r.req.type = "Accept" /\ r.ok => r.req.seqNum <= seqNumAccepted[r.from]
    /\ r.req.type = "Decide" => isDecided[r.from]

(* A peer says OK to a number once.                                        *)
PromiseOnce ==
  \A r1, r2 \in replies :
    /\ r1.req.type = "Prepare" /\ r1.ok
    /\ r2.req.type = "Prepare" /\ r2.ok
    /\ r1.from = r2.from /\ r1.req.seqNum = r2.req.seqNum
    => r1.req = r2.req

AcceptInv ==
  \A m \in Requests("Accept") :
    /\ 0 < m.seqNum
    /\ m.value \in Value
    /\ m.value \in Started
    /\ \E Q \in Majority : \A q \in Q : Promised(q, PrepareOf(m))
    /\ SafeAt(m.value, m.seqNum)

DecideInv ==
  \A m \in Requests("Decide") :
    \E Q \in Majority : \A q \in Q : VotedFor(q, m.seqNum, m.value)

(* How the requests of a call relate to where it is in its loop.           *)
CallInv ==
  /\ \A m \in sent :
       /\ m.round <= round[m.call]
       /\ m.type = "Accept" /\ m.round = round[m.call] => pc[m.call] # "prepare"
       /\ m.type = "Prepare" => m.value = Nil
  /\ \A m1, m2 \in sent :
       m1.type = m2.type /\ m1.type # "Decide" /\ m1.call = m2.call /\ m1.round = m2.round
       => m1 = m2
  /\ \A c \in Call :
       /\ pc[c] \in {"prepare", "accept", "decide", "done"} =>
            RequestOf(c, "Prepare", Nil) \in sent
       /\ pc[c] \in {"accept", "decide", "done"} =>
            RequestOf(c, "Accept", proposeValue[c]) \in sent
       /\ pc[c] = "done" => isDecided[Host[c]]

(* The inductive invariant.  It carries DecideAgreement: what Decide       *)
(* broadcasts was accepted by a majority, and what any later Accept of     *)
(* startHelper carries is safe at its number.                              *)
IInv ==
  /\ TypeOK
  /\ SlotInv
  /\ PromiseInv
  /\ ReplyInv
  /\ PromiseOnce
  /\ AcceptInv
  /\ DecideInv
  /\ CallInv
=============================================================================
