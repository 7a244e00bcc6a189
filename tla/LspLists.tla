------------------------------ MODULE LspLists ------------------------------
(***************************************************************************)
(* LspStream together with the lists of lsp/buffer.go that its handlers    *)
(* work on.  Every handler does to the lists what the code does, looking   *)
(* at the lists only; that they hold what the sets of LspStream hold is a  *)
(* property.                                                               *)
(***************************************************************************)
EXTENDS LspStream

B == INSTANCE LspBuffer

VARIABLES writeList, unAckedList, readList, ackList

listVars == <<writeList, unAckedList, readList, ackList>>

ListInit ==
  Init /\ writeList = <<>> /\ unAckedList = <<>> /\ readList = <<>> /\ ackList = <<>>

(* s is outside the window that starts at the front of the list.           *)
Beyond(s, list) == s - WindowSize >= B!Front(list).seqNum

ListWrite(p) ==
  LET m == [seqNum |-> seqNum + 1, payload |-> p]
  IN  /\ handleWrite(p)
      /\ IF writeList = <<>> /\ (unAckedList = <<>> \/ ~ Beyond(m.seqNum, unAckedList))
         THEN unAckedList' = B!Insert(unAckedList, m) /\ UNCHANGED writeList
         ELSE writeList' = B!Insert(writeList, m) /\ UNCHANGED unAckedList
      /\ UNCHANGED <<readList, ackList>>

(* How many messages leave the write list: the first one if nothing is     *)
(* unacked, and then those up to the first one beyond the window.          *)
MovedCount(rest) ==
  LET window == IF rest = <<>> THEN writeList ELSE rest
      stop == B!SE!SelectInSeq(writeList, LAMBDA e : Beyond(e.seqNum, window))
  IN  IF stop = 0 THEN Len(writeList) ELSE stop - 1

ListAck(n) ==
  LET rest == B!Delete(unAckedList, n)
      k == IF rest # unAckedList THEN MovedCount(rest) ELSE 0
  IN  /\ ReceiveAck(n)
      /\ unAckedList' = B!SE!FoldLeft(B!Insert, rest, SubSeq(writeList, 1, k))
      /\ writeList' = SubSeq(writeList, k + 1, Len(writeList))
      /\ UNCHANGED <<readList, ackList>>

ListData(m) ==
  /\ ReceiveData(m)
  /\ readList' = B!Insert(readList, m)
  /\ ackList' = B!AdjustUsingWindow(B!Insert(ackList, [seqNum |-> m.seqNum]), WindowSize)
  /\ UNCHANGED <<writeList, unAckedList>>

(* The message handed to the user is the front of the list.                *)
ListRead(m) ==
  /\ handleRead(m)
  /\ m = B!Front(readList)
  /\ readList' = B!Remove(readList)
  /\ UNCHANGED <<writeList, unAckedList, ackList>>

ListNext ==
  \/ \E p \in Payload : ListWrite(p)
  \/ \E n \in acks : ListAck(n)
  \/ \E m \in data : ListData(m)
  \/ \E m \in readBuffer : ListRead(m)
  \/ /\ \/ EpochOfSender \/ EpochOfReceiver
        \/ \E n \in acks : LoseAck(n)
        \/ \E m \in data : LoseData(m)
     /\ UNCHANGED listVars

ListSpec == ListInit /\ [][ListNext]_<<vars, listVars>> /\ Fairness

-----------------------------------------------------------------------------

Numbers(list) == [i \in 1 .. Len(list) |-> list[i].seqNum]

(* The lists do what the protocol takes a buffer for: each holds the       *)
(* messages of the set LspStream has for it and, as the comment of         *)
(* buffer.go says, in increasing order, so that no sequence number is in a *)
(* list twice, although data and acks come in any order and repeatedly.    *)
ListsAreSets ==
  /\ \A list \in {writeList, unAckedList, readList, ackList} :
       \A i, j \in 1 .. Len(list) : i < j => list[i].seqNum < list[j].seqNum
  /\ B!SE!ToSet(writeList) = writeBuffer
  /\ B!SE!ToSet(unAckedList) = unAckedMsgBuffer
  /\ B!SE!ToSet(readList) = readBuffer
  /\ B!SE!ToSet(Numbers(ackList)) = latestAckBuffer
=============================================================================
