----------------------------- MODULE LspStream -----------------------------
(***************************************************************************)
(* One direction of an established LSP connection: the sliding window of   *)
(* lsp/client_impl.go and lsp/server_impl.go, which is the same code on    *)
(* both sides.  Each side is one event handler, so every handler is one    *)
(* atomic action.                                                          *)
(*                                                                         *)
(* Buffers (lsp/buffer.go) keep messages with different sequence numbers   *)
(* in increasing order; a set of messages is all there is to them, and     *)
(* module LspLists checks that.   UDP loses, duplicates and reorders: a    *)
(* message in flight stays there when it is received and may vanish.       *)
(*                                                                         *)
(* A message older than expectedSeqNum is neither stored nor acknowledged  *)
(* again; the sender learns of it only through latestAckBuffer, which the  *)
(* receiver sends again at every epoch and cuts to the window size.        *)
(***************************************************************************)
EXTENDS Integers, Sequences

CONSTANTS Payload,
          WindowSize,  \* params.WindowSize, the same on both sides
          MaxWrites    \* bound: how many messages are written

ASSUME WindowAssumption == WindowSize \in Nat \ {0} /\ MaxWrites \in Nat

VARIABLES
  seqNum, writeBuffer, unAckedMsgBuffer,        \* the sending side
  expectedSeqNum, readBuffer, latestAckBuffer,  \* the receiving side
  data, acks,                                   \* messages in flight
  written, delivered                            \* what the users have seen

senderVars == <<seqNum, writeBuffer, unAckedMsgBuffer>>
receiverVars == <<expectedSeqNum, readBuffer, latestAckBuffer>>
vars == <<senderVars, receiverVars, data, acks, written, delivered>>

Message == [seqNum : Nat, payload : Payload]

Init ==
  /\ seqNum = 0 /\ writeBuffer = {} /\ unAckedMsgBuffer = {}
  /\ expectedSeqNum = 1 /\ readBuffer = {} /\ latestAckBuffer = {}
  /\ data = {} /\ acks = {}
  /\ written = <<>> /\ delivered = <<>>

-----------------------------------------------------------------------------
(* Buffers.                                                                *)

(* buffer.Insert keeps the message it has under a sequence number.         *)
Insert(buf, m) ==
  IF \E x \in buf : x.seqNum = m.seqNum THEN buf ELSE buf \cup {m}

(* Variant: one ack too few.                                               *)
AdjustTooFar(buf) == {a \in buf : \A b \in buf : a >= b - WindowSize + 2}

(* buffer.AdjustUsingWindow on a buffer of acks: what is left of the       *)
(* window that ends at the last one.                                       *)
AdjustUsingWindow(buf) == {a \in buf : \A b \in buf : a >= b - WindowSize + 1}

(* s is inside the window that starts at the front of buf.                 *)
InWindow(s, buf) == \A x \in buf : s - WindowSize < x.seqNum

-----------------------------------------------------------------------------
(* The sending side.                                                       *)

handleWrite(p) ==
  LET m == [seqNum |-> seqNum + 1, payload |-> p]
  IN  /\ seqNum < MaxWrites
      /\ seqNum' = seqNum + 1
      /\ written' = Append(written, p)
      /\ IF writeBuffer = {} /\ InWindow(m.seqNum, unAckedMsgBuffer)
         THEN /\ unAckedMsgBuffer' = Insert(unAckedMsgBuffer, m)
              /\ data' = data \cup {m}
              /\ UNCHANGED writeBuffer
         ELSE /\ writeBuffer' = Insert(writeBuffer, m)
              /\ UNCHANGED <<unAckedMsgBuffer, data>>
      /\ UNCHANGED <<receiverVars, acks, delivered>>

(* Variant: nothing moves when the acked message was the last one.         *)
MovedNever(rest) == {m \in writeBuffer : rest # {} /\ InWindow(m.seqNum, rest)}

(* What an ack lets out of writeBuffer, rest being what is still unacked:  *)
(* the messages inside the window, which starts at the first message of    *)
(* writeBuffer when nothing is unacked.                                    *)
Moved(rest) ==
  {m \in writeBuffer : InWindow(m.seqNum, IF rest = {} THEN writeBuffer ELSE rest)}

ReceiveAck(n) ==
  LET rest == {m \in unAckedMsgBuffer : m.seqNum # n}
      moved == IF rest # unAckedMsgBuffer THEN Moved(rest) ELSE {}
  IN  /\ n \in acks
      /\ unAckedMsgBuffer' = rest \cup moved
      /\ writeBuffer' = writeBuffer \ moved
      /\ data' = data \cup moved
      /\ UNCHANGED <<seqNum, receiverVars, acks, written, delivered>>

(* handleEpoch sends the unacked messages again.                           *)
EpochOfSender ==
  /\ data' = data \cup unAckedMsgBuffer
  /\ UNCHANGED <<senderVars, receiverVars, acks, written, delivered>>

-----------------------------------------------------------------------------
(* The receiving side.                                                     *)

ReceiveData(m) ==
  /\ m \in data
  /\ m.seqNum >= expectedSeqNum
  /\ readBuffer' = Insert(readBuffer, m)
  /\ acks' = acks \cup {m.seqNum}
  /\ latestAckBuffer' = AdjustUsingWindow(latestAckBuffer \cup {m.seqNum})
  /\ UNCHANGED <<expectedSeqNum, senderVars, data, written, delivered>>

(* Variant: the front of the read buffer is returned, whatever its number. *)
handleReadAny(m) ==
  /\ m \in readBuffer
  /\ \A x \in readBuffer : m.seqNum <= x.seqNum
  /\ readBuffer' = readBuffer \ {m}
  /\ expectedSeqNum' = expectedSeqNum + 1
  /\ delivered' = Append(delivered, m.payload)
  /\ UNCHANGED <<latestAckBuffer, senderVars, data, acks, written>>

(* Read returns the front of readBuffer once it is the expected message.   *)
handleRead(m) ==
  /\ m \in readBuffer
  /\ m.seqNum = expectedSeqNum
  /\ \A x \in readBuffer : m.seqNum <= x.seqNum
  /\ readBuffer' = readBuffer \ {m}
  /\ expectedSeqNum' = expectedSeqNum + 1
  /\ delivered' = Append(delivered, m.payload)
  /\ UNCHANGED <<latestAckBuffer, senderVars, data, acks, written>>

(* handleEpoch sends the latest acks again.                                *)
EpochOfReceiver ==
  /\ acks' = acks \cup latestAckBuffer
  /\ UNCHANGED <<senderVars, receiverVars, data, written, delivered>>

-----------------------------------------------------------------------------

LoseData(m) ==
  /\ m \in data
  /\ data' = data \ {m}
  /\ UNCHANGED <<senderVars, receiverVars, acks, written, delivered>>

LoseAck(n) ==
  /\ n \in acks
  /\ acks' = acks \ {n}
  /\ UNCHANGED <<senderVars, receiverVars, data, written, delivered>>

Next ==
  \/ \E p \in Payload : handleWrite(p)
  \/ EpochOfSender \/ EpochOfReceiver
  \/ \E n \in acks : ReceiveAck(n) \/ LoseAck(n)
  \/ \E m \in data : ReceiveData(m) \/ LoseData(m)
  \/ \E m \in readBuffer : handleRead(m)

Spec == Init /\ [][Next]_vars

Number == 1 .. MaxWrites

(* The epoch timers fire forever, what is sent again and again arrives,    *)
(* and the user of the receiving side keeps calling Read.                  *)
Fairness ==
  /\ WF_vars(EpochOfSender) /\ WF_vars(EpochOfReceiver)
  /\ WF_vars(\E m \in readBuffer : handleRead(m))
  /\ \A n \in Number : /\ SF_vars(ReceiveAck(n))
                       /\ SF_vars(\E m \in data : m.seqNum = n /\ ReceiveData(m))

-----------------------------------------------------------------------------

TypeOK ==
  /\ seqNum \in Nat
  /\ writeBuffer \subseteq Message /\ unAckedMsgBuffer \subseteq Message
  /\ expectedSeqNum \in Nat
  /\ readBuffer \subseteq Message /\ latestAckBuffer \subseteq Nat
  /\ data \subseteq Message /\ acks \subseteq Nat
  /\ written \in Seq(Payload) /\ delivered \in Seq(Payload)

(* The receiving side has had message n.                                   *)
Received(n) == n < expectedSeqNum \/ \E m \in readBuffer : m.seqNum = n

(* Read returns what Write was given, each payload once and in order,      *)
(* although UDP loses, duplicates and reorders.                            *)
InOrder ==
  /\ Len(delivered) <= Len(written)
  /\ \A i \in 1 .. Len(delivered) : delivered[i] = written[i]

(* The ack of every message that was received and is still unacked at the  *)
(* sender is in latestAckBuffer, so an epoch can send it again.  This is   *)
(* what lets handleReceivedMsg ignore old data without acknowledging it.   *)
AckKept ==
  \A m \in unAckedMsgBuffer : Received(m.seqNum) => m.seqNum \in latestAckBuffer

(* No more than a window of messages is unacked, and a message waits in    *)
(* writeBuffer only behind a full window that will move.                   *)
WindowRespected ==
  /\ \A m \in unAckedMsgBuffer : InWindow(m.seqNum, unAckedMsgBuffer)
  /\ writeBuffer # {} => unAckedMsgBuffer # {}

(* The inductive strengthening of these.  Messages carry what was written; *)
(* every written message is waiting, unacked or received; only received    *)
(* messages are acknowledged; whatever was sent or received is inside the  *)
(* window of every unacked message and before everything that waits.       *)
Counters == seqNum = Len(written) /\ expectedSeqNum = Len(delivered) + 1

Carries ==
  \A m \in data \cup unAckedMsgBuffer \cup writeBuffer \cup readBuffer :
    m.seqNum \in 1 .. seqNum /\ m.payload = written[m.seqNum]

Accounted ==
  \A n \in 1 .. seqNum :
    Received(n) \/ \E m \in unAckedMsgBuffer \cup writeBuffer : m.seqNum = n

AcksReceived == \A n \in acks \cup latestAckBuffer : Received(n)

ReadAhead == \A m \in readBuffer : m.seqNum >= expectedSeqNum

BeforeAll(n) ==
  InWindow(n, unAckedMsgBuffer) /\ \A w \in writeBuffer : n < w.seqNum

SentBounds == \A m \in data \cup unAckedMsgBuffer : BeforeAll(m.seqNum)

ReceivedBounds == \A n \in 1 .. seqNum : Received(n) => BeforeAll(n)

IInv ==
  /\ TypeOK /\ Counters /\ Carries /\ Accounted /\ AcksReceived /\ ReadAhead
  /\ SentBounds /\ ReceivedBounds
  /\ InOrder /\ AckKept /\ WindowRespected

(* One direction of a connection is a FIFO channel.                        *)
Fifo == INSTANCE FifoChannel

ImplementsFifo == Fifo!Spec

(* Everything written is read in the end, as long as the connection lives. *)
AllDelivered ==
  \A n \in Number : Len(written) >= n ~> Len(delivered) >= n
=============================================================================
