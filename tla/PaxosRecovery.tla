--------------------------- MODULE PaxosRecovery ---------------------------
(***************************************************************************)
(* A slot of module Paxos whose peers may be killed and restarted.  All    *)
(* status is in memory: Make builds a Paxos with no slots, so a peer that  *)
(* comes back has promised and accepted nothing, and the calls of          *)
(* startHelper that ran on it are gone.  What it sent before is not.       *)
(***************************************************************************)
EXTENDS MCPaxos

CONSTANT MaxRestarts   \* bound: how often peers restart

VARIABLE restarts

Restart(q) ==
  /\ restarts < MaxRestarts
  /\ restarts' = restarts + 1
  /\ value' = [value EXCEPT ![q] = Nil]
  /\ isDecided' = [isDecided EXCEPT ![q] = FALSE]
  /\ seqNumAccepted' = [seqNumAccepted EXCEPT ![q] = 0]
  /\ seqNumHighest' = [seqNumHighest EXCEPT ![q] = 0]
  /\ pc' = [c \in Call |-> IF Host[c] = q /\ pc[c] # "idle" THEN "killed" ELSE pc[c]]
  /\ UNCHANGED <<round, seqNum, proposeValue, maxSeqNumHighest, sent, replies>>

RecoveryInit == Init /\ restarts = 0

RecoveryNext ==
  \/ Next /\ UNCHANGED restarts
  \/ \E q \in Peer : Restart(q)

RecoverySpec == RecoveryInit /\ [][RecoveryNext]_<<vars, restarts>>

(* "Manages a sequence of agreed-on values" and "Support fail-recover":    *)
(* the Decide broadcasts of a slot carry one value although a peer was     *)
(* killed and started again, a minority of them at any time.               *)
AgreementAcrossRestarts == DecideAgreement
=============================================================================
