--------------------------- MODULE LspStreamProof ---------------------------
(***************************************************************************)
(* Proofs about LspStream: for every window size, one direction of an LSP  *)
(* connection is a FIFO channel, and the ack of every received message the *)
(* sender still holds is kept for the next epoch.  And about LspClient     *)
(* (C), for every capacity of its channel: the verdict of Close is true.   *)
(***************************************************************************)
EXTENDS LspStream, WellFoundedInduction, TLAPS

USE WindowAssumption

(* A nonempty buffer has a front.                                          *)
LEMMA FrontExists ==
  ASSUME NEW buf \in SUBSET Message, buf # {}
  PROVE  \E m \in buf : \A x \in buf : m.seqNum <= x.seqNum
<1> DEFINE T == {m.seqNum : m \in buf}
<1>1. T \subseteq Nat /\ T # {}
  BY Zenon DEF Message
<1>2. \E n \in T : \A k \in T : ~ (<<k, n>> \in OpToRel(<, Nat))
  <2> HIDE DEF T
  <2> QED
    BY <1>1, WFMin, NatLessThanWellFounded, Zenon
<1>3. PICK n \in T : \A k \in T : ~ (<<k, n>> \in OpToRel(<, Nat))
  BY <1>2, Zenon
<1>4. \A k \in T : n <= k
  <2> HIDE DEF T
  <2> SUFFICES ASSUME NEW k \in T, k < n PROVE FALSE
    BY <1>1
  <2>1. <<k, n>> \in {q \in Nat \X Nat : q[1] < q[2]}
    BY <1>1, Zenon
  <2>2. OpToRel(<, Nat) = {q \in Nat \X Nat : q[1] < q[2]}
    BY Zenon DEF OpToRel
  <2> QED
    BY <1>3, <2>1, <2>2, Zenon
<1> QED
  BY <1>4, Zenon

(* Types are kept by every handler.                                        *)
LEMMA TypeStep ==
  ASSUME TypeOK, [Next]_vars
  PROVE  TypeOK'
<1>1. ASSUME NEW p \in Payload, handleWrite(p) PROVE TypeOK'
  <2>1. [seqNum |-> seqNum + 1, payload |-> p] \in Message
    BY DEF TypeOK, Message
  <2> QED
    BY <1>1, <2>1 DEF handleWrite, TypeOK, Insert, receiverVars
<1>2. CASE EpochOfSender
  BY <1>2, Zenon DEF EpochOfSender, TypeOK, senderVars, receiverVars
<1>3. CASE EpochOfReceiver
  BY <1>3, Zenon DEF EpochOfReceiver, TypeOK, senderVars, receiverVars
<1>4. ASSUME NEW n \in acks, ReceiveAck(n) PROVE TypeOK'
  BY <1>4, Zenon DEF ReceiveAck, Moved, TypeOK, receiverVars
<1>5. ASSUME NEW n \in acks, LoseAck(n) PROVE TypeOK'
  BY <1>5, Zenon DEF LoseAck, TypeOK, senderVars, receiverVars
<1>6. ASSUME NEW m \in data, ReceiveData(m) PROVE TypeOK'
  BY <1>6, Zenon DEF ReceiveData, TypeOK, Insert, AdjustUsingWindow, Message, senderVars
<1>7. ASSUME NEW m \in data, LoseData(m) PROVE TypeOK'
  BY <1>7, Zenon DEF LoseData, TypeOK, senderVars, receiverVars
<1>8. ASSUME NEW m \in readBuffer, handleRead(m) PROVE TypeOK'
  BY <1>8 DEF handleRead, TypeOK, Message, senderVars
<1>9. CASE UNCHANGED vars
  BY <1>9, Zenon DEF TypeOK, vars, senderVars, receiverVars
<1> QED
  BY <1>1, <1>2, <1>3, <1>4, <1>5, <1>6, <1>7, <1>8, <1>9, Zenon DEF Next

(* Write gives the message the next number.  It is sent only inside the    *)
(* window, and behind everything that was sent before.                     *)
LEMMA WriteStep ==
  ASSUME IInv, TypeOK', NEW p \in Payload, handleWrite(p)
  PROVE  IInv'
<1>1. PICK m : m = [seqNum |-> seqNum + 1, payload |-> p]
  BY Zenon
<1>2. /\ seqNum' = seqNum + 1 /\ written' = Append(written, p)
      /\ UNCHANGED <<expectedSeqNum, readBuffer, latestAckBuffer, acks, delivered>>
      /\ m.seqNum = seqNum + 1 /\ m.payload = p
  BY <1>1, Zenon DEF handleWrite, receiverVars
<1>3. /\ written' \in Seq(Payload) /\ Len(written') = seqNum + 1
      /\ written'[seqNum + 1] = p
      /\ \A i \in 1 .. seqNum : written'[i] = written[i]
  BY <1>2 DEF IInv, TypeOK, Counters
<1>4. \/ /\ writeBuffer = {} /\ InWindow(m.seqNum, unAckedMsgBuffer)
         /\ unAckedMsgBuffer' = unAckedMsgBuffer \cup {m}
         /\ data' = data \cup {m} /\ writeBuffer' = {}
      \/ /\ ~ (writeBuffer = {} /\ InWindow(m.seqNum, unAckedMsgBuffer))
         /\ writeBuffer' = writeBuffer \cup {m}
         /\ UNCHANGED <<unAckedMsgBuffer, data>>
  <2>1. \A x \in unAckedMsgBuffer \cup writeBuffer : x.seqNum # m.seqNum
    BY <1>2 DEF IInv, Carries, TypeOK
  <2> QED
    BY <1>1, <2>1, Zenon DEF handleWrite, Insert
<1>5. \A n : Received(n)' <=> Received(n)
  BY <1>2, Zenon DEF Received
<1>6. Counters'
  BY <1>2, <1>3, Zenon DEF IInv, Counters
<1>7. Carries'
  BY <1>2, <1>3, <1>4 DEF IInv, Carries, TypeOK
<1>8. Accounted'
  BY <1>2, <1>4, <1>5 DEF IInv, Accounted, TypeOK
<1>9. AcksReceived' /\ ReadAhead'
  BY <1>2, <1>5, Zenon DEF IInv, AcksReceived, ReadAhead
<1>10. \A n \in 1 .. seqNum : BeforeAll(n) => BeforeAll(n)'
  BY <1>2, <1>4 DEF BeforeAll, InWindow, IInv, TypeOK, Message
<1>11. SentBounds'
  <2>1. \A x \in data \cup unAckedMsgBuffer : BeforeAll(x.seqNum)'
    BY <1>10, Zenon DEF IInv, SentBounds, Carries
  <2>2. CASE writeBuffer' = {} /\ data' = data \cup {m}
    <3>1. BeforeAll(m.seqNum)'
      BY <1>2, <1>4, <2>2 DEF BeforeAll, InWindow, IInv, TypeOK
    <3> QED
      BY <1>4, <2>1, <3>1, Zenon DEF SentBounds
  <2> QED
    BY <1>4, <2>1, <2>2, Zenon DEF SentBounds
<1>12. ReceivedBounds'
  <2>1. ~ Received(seqNum + 1)
    BY DEF IInv, Received, Counters, Carries, InOrder, TypeOK
  <2> QED
    BY <1>2, <1>5, <1>10, <2>1 DEF IInv, ReceivedBounds, TypeOK
<1>13. InOrder'
  BY <1>2, <1>3 DEF IInv, InOrder, Counters, TypeOK
<1>14. AckKept'
  <2>1. ~ Received(seqNum + 1)
    BY DEF IInv, Received, Counters, Carries, InOrder, TypeOK
  <2> QED
    BY <1>2, <1>4, <1>5, <2>1, Zenon DEF IInv, AckKept
<1>15. WindowRespected'
  <2>1. \A x \in unAckedMsgBuffer' : InWindow(x.seqNum, unAckedMsgBuffer)'
    BY <1>11, Zenon DEF SentBounds, BeforeAll
  <2>2. writeBuffer' # {} => unAckedMsgBuffer' # {}
    BY <1>4, Zenon DEF IInv, WindowRespected, InWindow
  <2> QED
    BY <2>1, <2>2, Zenon DEF WindowRespected
<1> QED
  BY <1>6, <1>7, <1>8, <1>9, <1>11, <1>12, <1>13, <1>14, <1>15, Zenon DEF IInv

(* An ack takes its message off the unacked ones and may let waiting       *)
(* messages out.  Everything that was sent or received is before those, so *)
(* it stays inside the window of every unacked message.                    *)
LEMMA AckStep ==
  ASSUME IInv, TypeOK', NEW n \in acks, ReceiveAck(n)
  PROVE  IInv'
<1>1. PICK rest : rest = {m \in unAckedMsgBuffer : m.seqNum # n}
  BY Zenon
<1>2. PICK moved : moved = IF rest # unAckedMsgBuffer THEN Moved(rest) ELSE {}
  BY Zenon
<1>3. /\ unAckedMsgBuffer' = rest \cup moved
      /\ writeBuffer' = writeBuffer \ moved
      /\ data' = data \cup moved
      /\ UNCHANGED <<seqNum, expectedSeqNum, readBuffer, latestAckBuffer, acks>>
      /\ UNCHANGED <<written, delivered>>
  BY <1>1, <1>2, Zenon DEF ReceiveAck, receiverVars
<1>4. rest \subseteq unAckedMsgBuffer /\ moved \subseteq writeBuffer
  BY <1>1, <1>2, Zenon DEF Moved
<1>5. \A k : Received(k)' <=> Received(k)
  BY <1>3, Zenon DEF Received
<1>6. Received(n)
  BY Zenon DEF IInv, AcksReceived
<1>7. /\ unAckedMsgBuffer \subseteq Message /\ writeBuffer \subseteq Message
      /\ data \subseteq Message
      /\ \A m \in Message : m.seqNum \in Nat
  BY Zenon DEF IInv, TypeOK, Message
(* The moved messages are inside the window and before what still waits.   *)
<1>8. \A m \in moved : \A x \in rest \cup moved : m.seqNum - WindowSize < x.seqNum
  <2> SUFFICES ASSUME NEW m \in moved, NEW x \in rest \cup moved
               PROVE  m.seqNum - WindowSize < x.seqNum
    OBVIOUS
  <2>1. moved = Moved(rest)
    BY <1>2, Zenon
  <2>2. CASE rest = {}
    BY <1>4, <2>1, <2>2, Zenon DEF Moved, InWindow
  <2>3. CASE rest # {}
    <3>1. PICK r \in rest : TRUE
      BY <2>3, Zenon
    <3>2. m.seqNum - WindowSize < r.seqNum
      BY <2>1, <2>3, Zenon DEF Moved, InWindow
    <3>3. CASE x \in rest
      BY <2>1, <2>3, <3>3, Zenon DEF Moved, InWindow
    <3>4. CASE x \in moved
      <4>1. r.seqNum < x.seqNum
        BY <1>4, <3>4, Zenon DEF IInv, SentBounds, BeforeAll
      <4> QED
        BY <1>4, <1>7, <3>2, <4>1
    <3> QED
      BY <3>3, <3>4, Zenon
  <2> QED
    BY <2>2, <2>3, Zenon
<1>9. \A m \in moved : \A w \in writeBuffer \ moved : m.seqNum < w.seqNum
  <2> SUFFICES ASSUME NEW m \in moved, NEW w \in writeBuffer \ moved, w.seqNum <= m.seqNum
               PROVE  FALSE
    BY <1>4, <1>7
  <2>1. moved = Moved(rest)
    BY <1>2, Zenon
  <2>2. InWindow(m.seqNum, IF rest = {} THEN writeBuffer ELSE rest)
    BY <2>1, Zenon DEF Moved
  <2>3. InWindow(w.seqNum, IF rest = {} THEN writeBuffer ELSE rest)
    BY <1>4, <1>7, <2>2 DEF InWindow
  <2> QED
    BY <2>1, <2>3, Zenon DEF Moved
<1>10. \A k \in 1 .. seqNum : BeforeAll(k) => BeforeAll(k)'
  BY <1>3, <1>4, <1>7 DEF BeforeAll, InWindow
<1>11. Counters' /\ Carries' /\ AcksReceived' /\ ReadAhead' /\ InOrder'
  BY <1>3, <1>4, <1>5, Zenon DEF IInv, Counters, Carries, AcksReceived, ReadAhead, InOrder
<1>12. Accounted'
  <2> SUFFICES ASSUME NEW k \in 1 .. seqNum, ~ Received(k)
               PROVE  \E m \in unAckedMsgBuffer' \cup writeBuffer' : m.seqNum = k
    BY <1>3, <1>5, Zenon DEF Accounted
  <2>1. PICK m \in unAckedMsgBuffer \cup writeBuffer : m.seqNum = k
    BY Zenon DEF IInv, Accounted
  <2>2. m \in unAckedMsgBuffer => m \in rest
    BY <1>1, <1>6, <2>1, Zenon
  <2> QED
    BY <1>3, <2>1, <2>2, Zenon
<1>13. SentBounds'
  <2>1. \A x \in data \cup unAckedMsgBuffer : BeforeAll(x.seqNum)'
    BY <1>10, Zenon DEF IInv, SentBounds, Carries
  <2>2. \A x \in moved : BeforeAll(x.seqNum)'
    BY <1>3, <1>8, <1>9, Zenon DEF BeforeAll, InWindow
  <2> QED
    BY <1>3, <1>4, <2>1, <2>2, Zenon DEF SentBounds
<1>14. ReceivedBounds'
  BY <1>3, <1>5, <1>10, Zenon DEF IInv, ReceivedBounds
<1>15. AckKept'
  <2>1. ASSUME NEW m \in moved PROVE ~ Received(m.seqNum)
    <3>1. m.seqNum \in 1 .. seqNum /\ m \in writeBuffer
      BY <1>4, Zenon DEF IInv, Carries
    <3>2. Received(m.seqNum) => m.seqNum < m.seqNum
      BY <3>1, Zenon DEF IInv, ReceivedBounds, BeforeAll
    <3> QED
      BY <1>7, <3>1, <3>2
  <2> QED
    BY <1>3, <1>4, <1>5, <2>1, Zenon DEF IInv, AckKept
<1>16. WindowRespected'
  <2>1. \A x \in unAckedMsgBuffer' : InWindow(x.seqNum, unAckedMsgBuffer)'
    BY <1>13, Zenon DEF SentBounds, BeforeAll
  <2>2. ASSUME writeBuffer' # {}, unAckedMsgBuffer' = {} PROVE FALSE
    <3>1. rest = {} /\ moved = {} /\ writeBuffer # {}
      BY <1>3, <2>2, Zenon
    <3>2. PICK w \in writeBuffer : \A x \in writeBuffer : w.seqNum <= x.seqNum
      BY <1>7, <3>1, FrontExists, Zenon
    <3>3. InWindow(w.seqNum, writeBuffer)
      BY <1>7, <3>2 DEF InWindow
    <3>4. rest # unAckedMsgBuffer
      BY <3>1, Zenon DEF IInv, WindowRespected
    <3> QED
      BY <1>2, <3>1, <3>3, <3>4, Zenon DEF Moved
  <2> QED
    BY <2>1, <2>2, Zenon DEF WindowRespected
<1> QED
  BY <1>11, <1>12, <1>13, <1>14, <1>15, <1>16, Zenon DEF IInv

(* A message that arrives is stored and acknowledged.  Its number is       *)
(* inside the window of every unacked message, so the ack of none of those *)
(* is cut from latestAckBuffer.                                            *)
LEMMA DataStep ==
  ASSUME IInv, TypeOK', NEW m \in data, ReceiveData(m)
  PROVE  IInv'
<1>1. PICK buf : buf = latestAckBuffer \cup {m.seqNum}
  BY Zenon
<1>2. /\ m.seqNum >= expectedSeqNum
      /\ acks' = acks \cup {m.seqNum}
      /\ latestAckBuffer' = AdjustUsingWindow(buf)
      /\ UNCHANGED <<expectedSeqNum, seqNum, writeBuffer, unAckedMsgBuffer>>
      /\ UNCHANGED <<data, written, delivered>>
  BY <1>1, Zenon DEF ReceiveData, senderVars
<1>3. readBuffer \subseteq readBuffer' /\ readBuffer' \subseteq readBuffer \cup {m}
  BY Zenon DEF ReceiveData, Insert
<1>4. \A k : Received(k)' <=> Received(k) \/ k = m.seqNum
  BY <1>2, <1>3, Zenon DEF Received, ReceiveData, Insert
<1>5. /\ m.seqNum \in 1 .. seqNum /\ m.payload = written[m.seqNum]
      /\ BeforeAll(m.seqNum)
  BY Zenon DEF IInv, Carries, SentBounds
<1>6. \A k : BeforeAll(k)' <=> BeforeAll(k)
  BY <1>2, Zenon DEF BeforeAll, InWindow
<1>7. Counters' /\ InOrder' /\ WindowRespected'
  BY <1>2, Zenon DEF IInv, Counters, InOrder, WindowRespected, InWindow
<1>8. Carries'
  BY <1>2, <1>3, <1>5, Zenon DEF IInv, Carries
<1>9. Accounted' /\ ReadAhead'
  BY <1>2, <1>3, <1>4, Zenon DEF IInv, Accounted, ReadAhead
<1>10. AcksReceived'
  BY <1>1, <1>2, <1>4, Zenon DEF IInv, AcksReceived, AdjustUsingWindow
<1>11. SentBounds' /\ ReceivedBounds'
  BY <1>2, <1>4, <1>5, <1>6, Zenon DEF IInv, SentBounds, ReceivedBounds
<1>12. AckKept'
  <2> SUFFICES ASSUME NEW u \in unAckedMsgBuffer, Received(u.seqNum)'
               PROVE  u.seqNum \in AdjustUsingWindow(buf)
    BY <1>2, Zenon DEF AckKept
  <2>1. u.seqNum \in buf
    BY <1>1, <1>4, Zenon DEF IInv, AckKept
  <2>2. \A b \in buf : b \in Nat /\ BeforeAll(b)
    <3>1. \A b \in latestAckBuffer : b \in Nat /\ Received(b)
      BY Zenon DEF IInv, AcksReceived, TypeOK
    <3>2. \A b \in latestAckBuffer : b \in 1 .. seqNum \/ b = 0
      <4>1. /\ expectedSeqNum = Len(delivered) + 1 /\ seqNum = Len(written)
            /\ Len(delivered) <= Len(written)
            /\ Len(delivered) \in Nat /\ Len(written) \in Nat
        BY DEF IInv, Counters, InOrder, TypeOK
      <4>2. \A x \in readBuffer : x.seqNum \in 1 .. seqNum
        BY Zenon DEF IInv, Carries
      <4> QED
        BY <3>1, <4>1, <4>2 DEF Received
    <3>3. \A b \in latestAckBuffer : b # 0 => BeforeAll(b)
      BY <3>1, <3>2, Zenon DEF IInv, ReceivedBounds
    <3>4. BeforeAll(0)
      BY DEF BeforeAll, InWindow, IInv, Carries, TypeOK
    <3> QED
      BY <1>1, <1>5, <3>1, <3>3, <3>4
  <2>3. u.seqNum \in Nat
    BY Zenon DEF IInv, TypeOK, Message
  <2>4. \A b \in buf : u.seqNum >= b - WindowSize + 1
    BY <2>2, <2>3 DEF BeforeAll, InWindow
  <2> QED
    BY <2>1, <2>4, Zenon DEF AdjustUsingWindow
<1> QED
  BY <1>7, <1>8, <1>9, <1>10, <1>11, <1>12, Zenon DEF IInv

(* Read hands out the expected message, which carries what was written     *)
(* under its number; no second message has that number.                    *)
LEMMA ReadStep ==
  ASSUME IInv, TypeOK', NEW m \in readBuffer, handleRead(m)
  PROVE  IInv' /\ expectedSeqNum <= seqNum /\ m.payload = written[expectedSeqNum]
<1>1. /\ m.seqNum = expectedSeqNum
      /\ readBuffer' = readBuffer \ {m}
      /\ expectedSeqNum' = expectedSeqNum + 1
      /\ delivered' = Append(delivered, m.payload)
      /\ UNCHANGED <<seqNum, writeBuffer, unAckedMsgBuffer, latestAckBuffer>>
      /\ UNCHANGED <<data, acks, written>>
  BY Zenon DEF handleRead, senderVars
<1>2. /\ m.seqNum \in 1 .. seqNum /\ m.payload = written[m.seqNum]
      /\ expectedSeqNum \in Nat /\ seqNum \in Nat
  BY Zenon DEF IInv, Carries, TypeOK
<1>3. \A k \in Nat : Received(k)' <=> Received(k)
  BY <1>1, <1>2 DEF Received
<1>4. \A k : BeforeAll(k)' <=> BeforeAll(k)
  BY <1>1, Zenon DEF BeforeAll, InWindow
<1>5. Counters' /\ WindowRespected'
  BY <1>1 DEF IInv, Counters, WindowRespected, InWindow, TypeOK, Message
<1>6. Carries' /\ SentBounds'
  BY <1>1, <1>4, Zenon DEF IInv, Carries, SentBounds
<1>7. Accounted' /\ ReceivedBounds'
  BY <1>1, <1>2, <1>3, <1>4 DEF IInv, Accounted, ReceivedBounds
<1>8. AcksReceived' /\ AckKept'
  BY <1>1, <1>3, Zenon DEF IInv, AcksReceived, AckKept, TypeOK, Message
<1>9. ReadAhead'
  <2> SUFFICES ASSUME NEW x \in readBuffer, x # m
               PROVE  x.seqNum >= expectedSeqNum + 1
    BY <1>1, Zenon DEF ReadAhead
  <2>1. x \in Message /\ m \in Message
    BY Zenon DEF IInv, TypeOK
  <2>2. x.seqNum >= expectedSeqNum /\ x.payload = written[x.seqNum]
    BY Zenon DEF IInv, ReadAhead, Carries
  <2>3. x.seqNum # m.seqNum
    BY <1>2, <2>1, <2>2 DEF Message
  <2> QED
    BY <1>1, <1>2, <2>1, <2>2, <2>3 DEF Message
<1>10. InOrder'
  <2>1. delivered \in Seq(Payload) /\ written \in Seq(Payload) /\ m.payload \in Payload
    BY Zenon DEF IInv, TypeOK, Message
  <2>2. Len(delivered) + 1 = m.seqNum /\ Len(written) = seqNum
    BY <1>1, Zenon DEF IInv, Counters
  <2> QED
    BY <1>1, <1>2, <2>1, <2>2 DEF IInv, InOrder
<1>11. expectedSeqNum <= seqNum
  BY <1>1, <1>2
<1> QED
  BY <1>1, <1>2, <1>5, <1>6, <1>7, <1>8, <1>9, <1>10, <1>11, Zenon DEF IInv

(* Epochs send nothing new, and losing a message harms no one.             *)
LEMMA NetworkStep ==
  ASSUME IInv, TypeOK',
         UNCHANGED <<senderVars, receiverVars, written, delivered>>,
         data' \subseteq data \cup unAckedMsgBuffer, acks' \subseteq acks \cup latestAckBuffer
  PROVE  IInv'
<1>1. /\ UNCHANGED <<seqNum, writeBuffer, unAckedMsgBuffer>>
      /\ UNCHANGED <<expectedSeqNum, readBuffer, latestAckBuffer, written, delivered>>
  BY Zenon DEF senderVars, receiverVars
<1>2. \A k : (Received(k)' <=> Received(k)) /\ (BeforeAll(k)' <=> BeforeAll(k))
  BY <1>1, Zenon DEF Received, BeforeAll, InWindow
<1>3. Counters' /\ Carries' /\ ReadAhead' /\ InOrder' /\ WindowRespected'
  BY <1>1, Zenon DEF IInv, Counters, Carries, ReadAhead, InOrder, WindowRespected, InWindow
<1>4. Accounted' /\ AcksReceived' /\ SentBounds' /\ ReceivedBounds' /\ AckKept'
  BY <1>1, <1>2, Zenon DEF IInv, Accounted, AcksReceived, SentBounds, ReceivedBounds, AckKept
<1> QED
  BY <1>3, <1>4, Zenon DEF IInv

-----------------------------------------------------------------------------
(* The inductive invariant of the sliding window of handleWrite and        *)
(* handleReceivedMsg holds for every window size.                          *)
THEOREM StreamInvariant == Spec => []IInv
<1>1. Init => IInv
  BY DEF Init, IInv, TypeOK, Counters, Carries, Accounted, AcksReceived, ReadAhead,
         SentBounds, ReceivedBounds, InOrder, AckKept, WindowRespected, Received
<1>2. IInv /\ [Next]_vars => IInv'
  <2> SUFFICES ASSUME IInv, [Next]_vars PROVE IInv'
    OBVIOUS
  <2>1. TypeOK'
    BY TypeStep, Zenon DEF IInv
  <2>2. ASSUME NEW p \in Payload, handleWrite(p) PROVE IInv'
    BY <2>1, <2>2, WriteStep, Zenon
  <2>3. ASSUME NEW n \in acks, ReceiveAck(n) PROVE IInv'
    BY <2>1, <2>3, AckStep, Zenon
  <2>4. ASSUME NEW m \in data, ReceiveData(m) PROVE IInv'
    BY <2>1, <2>4, DataStep, Zenon
  <2>5. ASSUME NEW m \in readBuffer, handleRead(m) PROVE IInv'
    BY <2>1, <2>5, ReadStep, Zenon
  <2>6. CASE EpochOfSender
    BY <2>1, <2>6, NetworkStep, Zenon DEF EpochOfSender
  <2>7. CASE EpochOfReceiver
    BY <2>1, <2>7, NetworkStep, Zenon DEF EpochOfReceiver
  <2>8. ASSUME NEW n \in acks, LoseAck(n) PROVE IInv'
    BY <2>1, <2>8, NetworkStep, Zenon DEF LoseAck
  <2>9. ASSUME NEW m \in data, LoseData(m) PROVE IInv'
    BY <2>1, <2>9, NetworkStep, Zenon DEF LoseData
  <2>10. CASE UNCHANGED vars
    BY <2>1, <2>10, NetworkStep, Zenon DEF vars
  <2> QED
    BY <2>2, <2>3, <2>4, <2>5, <2>6, <2>7, <2>8, <2>9, <2>10, Zenon DEF Next
<1> QED
  BY <1>1, <1>2, PTL DEF Spec

(* Read returns the payloads of Write once and in order.                   *)
THEOREM Delivery == Spec => []InOrder
  BY StreamInvariant, PTL DEF IInv

(* The comment in handleReceivedMsg is right: the ack of a received        *)
(* message that is still unacked is in latestAckBuffer.                    *)
THEOREM AcksAreKept == Spec => []AckKept
  BY StreamInvariant, PTL DEF IInv

(* At most a window of messages is unacked, and messages wait only behind  *)
(* unacked ones.                                                           *)
THEOREM Window == Spec => []WindowRespected
  BY StreamInvariant, PTL DEF IInv

(* The two ends and the network between them implement a FIFO channel.     *)
THEOREM StreamRefinement == Spec => ImplementsFifo
<1>1. Init => Fifo!Init
  BY Zenon DEF Init, Fifo!Init
<1>2. IInv /\ IInv' /\ [Next]_vars => [Fifo!Write \/ Fifo!Read]_<<written, delivered>>
  <2> SUFFICES ASSUME IInv, IInv', [Next]_vars
               PROVE  Fifo!Write \/ Fifo!Read \/ UNCHANGED <<written, delivered>>
    OBVIOUS
  <2>1. ASSUME NEW p \in Payload, handleWrite(p) PROVE Fifo!Write
    BY <2>1, Zenon DEF handleWrite, Fifo!Write
  <2>2. ASSUME NEW m \in readBuffer, handleRead(m) PROVE Fifo!Read
    <3>1. TypeOK'
      BY Zenon DEF IInv
    <3>2. expectedSeqNum <= seqNum /\ m.payload = written[expectedSeqNum]
      BY <2>2, <3>1, ReadStep, Zenon
    <3>3. expectedSeqNum = Len(delivered) + 1 /\ seqNum = Len(written)
      BY Zenon DEF IInv, Counters
    <3>4. Len(delivered) \in Nat /\ Len(written) \in Nat
      BY DEF IInv, TypeOK
    <3> QED
      BY <2>2, <3>2, <3>3, <3>4 DEF handleRead, Fifo!Read
  <2>3. CASE EpochOfSender \/ EpochOfReceiver
    BY <2>3, Zenon DEF EpochOfSender, EpochOfReceiver
  <2>4. ASSUME NEW n \in acks, ReceiveAck(n) \/ LoseAck(n)
        PROVE  UNCHANGED <<written, delivered>>
    BY <2>4, Zenon DEF ReceiveAck, LoseAck
  <2>5. ASSUME NEW m \in data, ReceiveData(m) \/ LoseData(m)
        PROVE  UNCHANGED <<written, delivered>>
    BY <2>5, Zenon DEF ReceiveData, LoseData
  <2>6. CASE UNCHANGED vars
    BY <2>6, Zenon DEF vars
  <2> QED
    BY <2>1, <2>2, <2>3, <2>4, <2>5, <2>6, Zenon DEF Next
<1> QED
  BY <1>1, <1>2, StreamInvariant, PTL DEF Spec, ImplementsFifo, Fifo!Spec

-----------------------------------------------------------------------------
(* The goroutines of a client: the state of LspClient.                     *)

CONSTANTS Capacity, EpochLimit, MaxPackets, MaxPending, EpochLag

VARIABLES requestc, handler, timer, net, call, deferedRead, deferedClose, connected, connLost,
          connLostSignal, idle, pending, readable, packets

C == INSTANCE LspClient

(* Close has replied only when the event handler has ended, so that        *)
(* nothing becomes pending after the verdict; and the event handler shuts  *)
(* the others down for a Close only when nothing is pending.               *)
CloseInv ==
  /\ DOMAIN call = {"new", "read", "write", "close"} /\ pending \in Nat
  /\ connLost \in BOOLEAN
  /\ call.close \in {"ok", "error"} => handler = "gone"
  /\ handler = "lostSignal" => connLost
  /\ handler \in {"closeNet", "closeTimer"} /\ ~connLost => pending = 0
  /\ C!CloseVerdict

(* A step that changes neither the verdict of Close nor what it is about.  *)
LEMMA CallStep ==
  ASSUME CloseInv, UNCHANGED <<handler, connLost, pending>>,
         DOMAIN call' = DOMAIN call,
         call'.close = call.close \/ call'.close \notin {"ok", "error"}
  PROVE  CloseInv'
  BY Zenon DEF CloseInv, C!CloseVerdict

(* While the loop runs Close has not replied.                              *)
LEMMA LoopStep ==
  ASSUME CloseInv, handler = "loop", DOMAIN call' = DOMAIN call, call'.close = call.close,
         pending' \in Nat, connLost' \in BOOLEAN,
         handler' \in {"loop", "gone"} \/ (handler' = "lostSignal" /\ connLost')
  PROVE  CloseInv'
  BY Zenon DEF CloseInv, C!CloseVerdict

(* handleClose replies when the connection is lost, and otherwise shuts    *)
(* the other goroutines down when nothing is pending.                      *)
LEMMA HandleClose ==
  ASSUME CloseInv, handler = "loop", C!handleClose, pending = 0 \/ connLost,
         UNCHANGED <<pending, connLost>>
  PROVE  CloseInv'
<1>1. CASE connLost
  <2>1. call' = [call EXCEPT !["close"] = C!Verdict] /\ handler' = "gone"
    BY <1>1, Zenon DEF C!handleClose, C!Reply
  <2>2. DOMAIN call' = DOMAIN call /\ call'.close = C!Verdict
    BY <2>1 DEF CloseInv
  <2>3. C!Verdict = "error" => pending > 0
    BY DEF C!Verdict
  <2>4. C!Verdict = "ok" => pending = 0
    BY DEF C!Verdict, CloseInv
  <2> QED
    BY <1>1, <2>1, <2>2, <2>3, <2>4, Zenon DEF CloseInv, C!CloseVerdict
<1>2. CASE ~connLost
  <2>1. call' = call /\ handler' = "closeNet"
    BY <1>2, Zenon DEF C!handleClose
  <2> QED
    BY <1>2, <2>1, Zenon DEF CloseInv, C!CloseVerdict
<1> QED
  BY <1>1, <1>2, Zenon

(* Every step of the client's goroutines keeps the invariant.              *)
LEMMA ClientStep ==
  ASSUME CloseInv, C!Next
  PROVE  CloseInv'
<1>1. ASSUME NEW op \in {"new", "read", "write"}, NEW v, C!Reply(op, v)
      PROVE  DOMAIN call' = DOMAIN call /\ call'.close = call.close
  BY <1>1 DEF C!Reply, CloseInv
<1>2. CASE C!GivesUp
  BY <1>2, LoopStep, Zenon DEF C!GivesUp, C!connVars, CloseInv
<1>3. CASE C!UndeferRead
  BY <1>1, <1>3, LoopStep, Zenon DEF C!UndeferRead, C!handleRead, C!Loop, CloseInv
<1>4. CASE C!UndeferClose
  BY <1>4, HandleClose, Zenon DEF C!UndeferClose, C!Loop, C!CloseUndeferred, C!connVars
<1>5. CASE C!TakeRead
  BY <1>1, <1>5, LoopStep, Zenon
     DEF C!TakeRead, C!handleRead, C!Takes, C!Loop, C!connVars, CloseInv
<1>6. CASE C!TakeClose
  <2>1. pending > 0 \/ pending = 0
    BY DEF CloseInv
  <2>2. handler = "loop" /\ UNCHANGED <<pending, connLost>>
    BY <1>6, Zenon DEF C!TakeClose, C!Takes, C!Loop, C!connVars
  <2>3. CASE pending > 0
    BY <1>6, <2>2, <2>3, LoopStep, Zenon DEF C!TakeClose, CloseInv
  <2>4. CASE ~ (pending > 0)
    BY <1>6, <2>1, <2>2, <2>4, HandleClose, Zenon DEF C!TakeClose
  <2> QED
    BY <2>3, <2>4, Zenon
<1>7. CASE C!TakeWrite
  <2>1. pending' \in Nat
    BY <1>7 DEF C!TakeWrite, CloseInv
  <2> QED
    BY <1>1, <1>7, <2>1, LoopStep, Zenon DEF C!TakeWrite, C!Takes, C!Loop, CloseInv
<1>8. CASE C!TakeConnect
  <2>1. pending' \in Nat
    BY <1>8 DEF C!TakeConnect
  <2> QED
    BY <1>1, <1>8, <2>1, LoopStep, Zenon DEF C!TakeConnect, C!Takes, C!Loop, CloseInv
<1>9. CASE C!TakeEpoch
  BY <1>9, LoopStep, Zenon DEF C!TakeEpoch, C!Takes, C!Loop, CloseInv
<1>10. CASE C!TakePacket
  <2>1. pending' \in Nat
    BY <1>10 DEF C!TakePacket, CloseInv
  <2> QED
    BY <1>10, <2>1, LoopStep, Zenon DEF C!TakePacket, C!Takes, C!Loop, CloseInv
<1>11. CASE C!LostSignalSent
  BY <1>11, Zenon DEF C!LostSignalSent, CloseInv, C!CloseVerdict
<1>12. CASE C!NetCloses
  BY <1>12, Zenon DEF C!NetCloses, C!connVars, CloseInv, C!CloseVerdict
<1>13. CASE C!TimerCloses
  <2>1. handler = "closeTimer" /\ UNCHANGED <<pending, connLost>>
    BY <1>13, Zenon DEF C!TimerCloses, C!connVars
  <2>2. CASE connLost
    BY <1>13, <2>1, <2>2, Zenon DEF C!TimerCloses, CloseInv, C!CloseVerdict
  <2>3. CASE ~connLost
    <3>1. pending = 0 /\ handler' = "gone" /\ call' = [call EXCEPT !["close"] = C!Verdict]
      BY <1>13, <2>1, <2>3, Zenon DEF C!TimerCloses, C!Reply, CloseInv
    <3>2. C!Verdict = "ok"
      BY <3>1 DEF C!Verdict
    <3>3. DOMAIN call' = DOMAIN call /\ call'.close = "ok"
      BY <3>1, <3>2 DEF CloseInv
    <3> QED
      BY <2>1, <2>3, <3>1, <3>3, Zenon DEF CloseInv, C!CloseVerdict
  <2> QED
    BY <2>2, <2>3, Zenon
<1>14. ASSUME NEW op \in {"new", "read", "write", "close"}, NEW v \in {"calling", "queued"},
              call' = [call EXCEPT ![op] = v]
       PROVE  /\ DOMAIN call' = DOMAIN call
              /\ call'.close = call.close \/ call'.close \notin {"ok", "error"}
  BY <1>14 DEF CloseInv
<1>15. ASSUME NEW op \in {"new", "read", "write", "close"}, NEW r, C!Submit(op, r)
       PROVE  CloseInv'
  BY <1>14, <1>15, CallStep, Zenon DEF C!Submit, C!connVars
<1>16. ASSUME NEW op \in {"read", "write", "close"}, C!Call(op)
       PROVE  CloseInv'
  BY <1>14, <1>16, CallStep, Zenon DEF C!Call, C!connVars
<1>17. CASE C!NewClientReturns
  <2>1. DOMAIN call' = DOMAIN call /\ call'.close = call.close
    BY <1>17 DEF C!NewClientReturns, CloseInv
  <2> QED
    BY <1>17, <2>1, CallStep, Zenon DEF C!NewClientReturns
<1>18. ASSUME UNCHANGED <<handler, call, C!connVars>> PROVE CloseInv'
  BY <1>18, CallStep, Zenon DEF C!connVars
<1>19. CASE C!EpochFires \/ C!EpochSends \/ C!PacketSends
  BY <1>18, <1>19, Zenon DEF C!EpochFires, C!EpochSends, C!PacketSends
<1>20. ASSUME NEW p \in C!Packet, C!PacketArrives(p) PROVE CloseInv'
  BY <1>18, <1>20, Zenon DEF C!PacketArrives
<1> QED
  BY <1>2, <1>3, <1>4, <1>5, <1>6, <1>7, <1>8, <1>9, <1>10, <1>11, <1>12, <1>13, <1>15, <1>16,
     <1>17, <1>19, <1>20, Zenon DEF C!Next, C!EventHandler

(* Close of the client returns without an error only when every message is *)
(* acked, and with one only when the connection is lost and some are not:  *)
(* for any capacity of requestc, epoch limit and number of packets.        *)
THEOREM ClientCloseSafe == C!Spec => []C!CloseVerdict
<1>1. ASSUME C!Init PROVE CloseInv
  <2>1. DOMAIN call = {"new", "read", "write", "close"} /\ call.close = "out"
    BY <1>1 DEF C!Init
  <2>2. pending \in Nat
    BY <1>1 DEF C!Init
  <2> QED
    BY <1>1, <2>1, <2>2, Zenon DEF C!Init, CloseInv, C!CloseVerdict
<1>2. ASSUME CloseInv, [C!Next]_(C!vars) PROVE CloseInv'
  <2>1. CASE UNCHANGED C!vars
    <3>1. UNCHANGED <<handler, call, connLost, pending>>
      BY <2>1, Zenon DEF C!vars, C!connVars
    <3> QED
      BY <1>2, <3>1, CallStep, Zenon
  <2> QED
    BY <1>2, <2>1, ClientStep, Zenon
<1>3. CloseInv => C!CloseVerdict
  BY Zenon DEF CloseInv
<1> QED
  BY <1>1, <1>2, <1>3, PTL DEF C!Spec
=============================================================================
