---------------------------- MODULE ServerProof -----------------------------
(***************************************************************************)
(* Proofs about the two servers that keep tables.                          *)
(*                                                                         *)
(* LspServer, for any clients, limits and orders of packets, calls and     *)
(* epochs: the maps of the server describe the same connections, loss never *)
(* overtakes data, and Close says ok only when all is acked.  The parts of *)
(* the invariant take the maps they are about as arguments.                *)
(*                                                                         *)
(* FlightServer, for any servers, requests, slots and restarts: one        *)
(* execution per request, real-time order, no execution of a refused       *)
(* request, replicas that agree, seats that add up, and canceled flights   *)
(* that are not returned.                                                  *)
(***************************************************************************)
EXTENDS LspServer, FlightServer, FiniteSetTheorems, TLAPS

Basics(al, count, panic) ==
  /\ al \subseteq Client /\ count \in 0 .. MaxConn
  /\ panic \in {"no", "handleCloseConn", "handleClose", "handleEpoch"}

(* The two address maps are inverse.                                       *)
TwoWay(hm, cm) ==
  /\ \A h \in DOMAIN hm : hm[h] \in DOMAIN cm /\ cm[hm[h]] = h
  /\ \A c \in DOMAIN cm : cm[c] \in DOMAIN hm /\ hm[cm[c]] = c

(* No connection has the next connection id yet.                           *)
Addresses(hm, cm, count) ==
  /\ DOMAIN hm \subseteq Client /\ DOMAIN cm \subseteq 1 .. count
  /\ TwoWay(hm, cm)

Buffers(buffers, expected, count) ==
  /\ DOMAIN buffers = DOMAIN expected /\ DOMAIN buffers \subseteq 1 .. count
  /\ \A c \in DOMAIN buffers : buffers[c] \subseteq Nat /\ expected[c] \in Nat

Waiting(waiting, told) == waiting \in Nat /\ told \subseteq ConnId

Counts(cm, unacked, idles) ==
  /\ DOMAIN unacked = DOMAIN cm /\ DOMAIN idles \subseteq DOMAIN cm
  /\ \A c \in DOMAIN unacked : unacked[c] \in Nat
  /\ \A c \in DOMAIN idles : idles[c] \in Nat

(* Until Close is called an active connection has everything it needs.     *)
Equipped(close, act, count, idles, buffers, cm) ==
  /\ act \subseteq 1 .. count
  /\ ~close => act \subseteq DOMAIN idles \cap DOMAIN buffers \cap DOMAIN cm

(* A connection that has an address and is not active was closed, without  *)
(* a read buffer, while messages were pending.                             *)
Parted(cm, act, buffers, unacked) ==
  \A c \in DOMAIN cm :
    IF c \in act THEN c \in DOMAIN buffers
    ELSE c \notin DOMAIN buffers /\ unacked[c] > 0

(* What Close knows of the connections that were lost.                     *)
Noticed(close, lost, run, reply, drop, unacked) ==
  /\ {close, lost, run} \subseteq BOOLEAN /\ reply \in {"none", "ok", "error"} /\ drop \subseteq ConnId
  /\ drop # {} => close /\ lost
  /\ reply # "none" => ~run
  /\ reply = "ok" => drop = {} /\ \A c \in DOMAIN unacked : unacked[c] = 0

IInv ==
  /\ Basics(alive, connId, panicked)
  /\ Addresses(hostportConnIdMap, connIdHostportMap, connId)
  /\ Buffers(readBuffer, expectedSeqNum, connId) /\ Waiting(deferedRead, reported)
  /\ Counts(connIdHostportMap, pending, idle)
  /\ Equipped(deferedClose, activeConn, connId, idle, readBuffer, connIdHostportMap)
  /\ Parted(connIdHostportMap, activeConn, readBuffer, pending)
  /\ Noticed(deferedClose, connLostInClosing, running, closeReply, dropped, pending)

-----------------------------------------------------------------------------
(* Maps.                                                                   *)

(* A new connection keeps the address maps inverse.                        *)
LEMMA InverseWith ==
  ASSUME NEW hm, NEW cm, TwoWay(hm, cm), NEW h, NEW c, h \notin DOMAIN hm, c \notin DOMAIN cm
  PROVE  TwoWay(With(hm, h, c), With(cm, c, h))
<1>. DEFINE hm2 == With(hm, h, c)
            cm2 == With(cm, c, h)
<1>1. DOMAIN hm2 = DOMAIN hm \cup {h} /\ hm2[h] = c /\ \A x \in DOMAIN hm : x # h => hm2[x] = hm[x]
  BY DEF With
<1>2. DOMAIN cm2 = DOMAIN cm \cup {c} /\ cm2[c] = h /\ \A x \in DOMAIN cm : x # c => cm2[x] = cm[x]
  BY DEF With
<1>. HIDE DEF hm2, cm2
<1>3. ASSUME NEW x \in DOMAIN hm2 PROVE hm2[x] \in DOMAIN cm2 /\ cm2[hm2[x]] = x
  <2>1. x # h => x \in DOMAIN hm /\ hm[x] \in DOMAIN cm /\ cm[hm[x]] = x
    BY <1>1, Zenon DEF TwoWay
  <2>2. QED
    BY <1>1, <1>2, <2>1, Zenon
<1>4. ASSUME NEW x \in DOMAIN cm2 PROVE cm2[x] \in DOMAIN hm2 /\ hm2[cm2[x]] = x
  <2>1. x # c => x \in DOMAIN cm /\ cm[x] \in DOMAIN hm /\ hm[cm[x]] = x
    BY <1>2, Zenon DEF TwoWay
  <2>2. QED
    BY <1>1, <1>2, <2>1, Zenon
<1>5. QED
  BY <1>3, <1>4, Zenon DEF TwoWay, hm2, cm2

(* So does one that goes.                                                  *)
LEMMA InverseWithout ==
  ASSUME NEW hm, NEW cm, TwoWay(hm, cm), NEW h \in DOMAIN hm
  PROVE  TwoWay(Without(hm, h), Without(cm, hm[h]))
<1>. DEFINE hm2 == Without(hm, h)
            cm2 == Without(cm, hm[h])
<1>1. DOMAIN hm2 = DOMAIN hm \ {h} /\ \A x \in DOMAIN hm : x # h => hm2[x] = hm[x]
  BY DEF Without
<1>2. DOMAIN cm2 = DOMAIN cm \ {hm[h]} /\ \A x \in DOMAIN cm : x # hm[h] => cm2[x] = cm[x]
  BY DEF Without
<1>. HIDE DEF hm2, cm2
<1>3. ASSUME NEW x \in DOMAIN hm2 PROVE hm2[x] \in DOMAIN cm2 /\ cm2[hm2[x]] = x
  <2>1. x \in DOMAIN hm /\ x # h /\ hm2[x] = hm[x]
    BY <1>1, Zenon
  <2>2. hm[x] \in DOMAIN cm /\ cm[hm[x]] = x /\ cm[hm[h]] = h
    BY <2>1, Zenon DEF TwoWay
  <2>3. QED
    BY <1>2, <2>1, <2>2, Zenon
<1>4. ASSUME NEW x \in DOMAIN cm2 PROVE cm2[x] \in DOMAIN hm2 /\ hm2[cm2[x]] = x
  <2>1. x \in DOMAIN cm /\ x # hm[h] /\ cm2[x] = cm[x]
    BY <1>2, Zenon
  <2>2. cm[x] \in DOMAIN hm /\ hm[cm[x]] = x
    BY <2>1, Zenon DEF TwoWay
  <2>3. QED
    BY <1>1, <2>1, <2>2, Zenon
<1>5. QED
  BY <1>3, <1>4, Zenon DEF TwoWay, hm2, cm2

(* So do many that go.                                                     *)
LEMMA InverseMinus ==
  ASSUME NEW hm, NEW cm, TwoWay(hm, cm), NEW gone \in SUBSET DOMAIN cm
  PROVE  TwoWay([h \in DOMAIN hm \ {cm[c] : c \in gone} |-> hm[h]],
                 [c \in DOMAIN cm \ gone |-> cm[c]])
<1>. DEFINE addr == {cm[c] : c \in gone}
            hm2 == [h \in DOMAIN hm \ addr |-> hm[h]]
            cm2 == [c \in DOMAIN cm \ gone |-> cm[c]]
<1>1. DOMAIN hm2 = DOMAIN hm \ addr /\ \A h \in DOMAIN hm \ addr : hm2[h] = hm[h]
  BY Zenon
<1>2. DOMAIN cm2 = DOMAIN cm \ gone /\ \A c \in DOMAIN cm \ gone : cm2[c] = cm[c]
  BY Zenon
<1>3. \A c \in gone : cm[c] \in addr
  BY Zenon
<1>4. \A h \in addr : \E c \in gone : h = cm[c]
  BY Zenon
<1>. HIDE DEF addr, hm2, cm2
<1>5. \A h \in DOMAIN hm \ addr : hm[h] \in DOMAIN cm \ gone
  BY <1>3, Zenon DEF TwoWay
<1>6. ASSUME NEW c \in DOMAIN cm \ gone PROVE cm[c] \in DOMAIN hm \ addr
  <2>1. cm[c] \in DOMAIN hm /\ hm[cm[c]] = c
    BY Zenon DEF TwoWay
  <2>2. ASSUME NEW d \in gone, cm[c] = cm[d] PROVE FALSE
    <3>1. hm[cm[d]] = d
      BY Zenon DEF TwoWay
    <3>2. QED
      BY <2>1, <2>2, <3>1, Zenon
  <2>3. QED
    BY <1>4, <2>1, <2>2, Zenon
<1>7. \A h \in DOMAIN hm2 : hm2[h] \in DOMAIN cm2 /\ cm2[hm2[h]] = h
  BY <1>1, <1>2, <1>5, Zenon DEF TwoWay
<1>8. \A c \in DOMAIN cm2 : cm2[c] \in DOMAIN hm2 /\ hm2[cm2[c]] = c
  BY <1>1, <1>2, <1>6, Zenon DEF TwoWay
<1>9. QED
  BY <1>7, <1>8, Zenon DEF TwoWay, hm2, cm2, addr

-----------------------------------------------------------------------------
(* Read.                                                                   *)

(* handleRead only takes away the read buffer of a connection that is not  *)
(* active any more.                                                        *)
LEMMA HandleRead ==
  ASSUME NEW buffers, NEW waiting \in Nat, Buffers(buffers, expectedSeqNum, connId),
         reported \subseteq ConnId, connId \in 0 .. MaxConn, handleRead(buffers, waiting)
  PROVE  /\ Buffers(readBuffer', expectedSeqNum', connId) /\ Waiting(deferedRead', reported')
         /\ DOMAIN readBuffer' \subseteq DOMAIN buffers
         /\ DOMAIN buffers \cap activeConn \subseteq DOMAIN readBuffer'
<1>0. 1 .. connId \subseteq ConnId
  BY LimitAssumption DEF ConnId
<1>1. ASSUME NEW c \in ReadyIn(buffers),
             readBuffer' = [buffers EXCEPT ![c] = @ \ {expectedSeqNum[c]}],
             expectedSeqNum' = [expectedSeqNum EXCEPT ![c] = @ + 1]
      PROVE  Buffers(readBuffer', expectedSeqNum', connId) /\ DOMAIN readBuffer' = DOMAIN buffers
  <2>1. c \in DOMAIN buffers
    BY Zenon DEF ReadyIn
  <2>2. QED
    BY <1>1, <2>1 DEF Buffers
<1>2. ASSUME NEW c \in Reportable(buffers), readBuffer' = Without(buffers, c),
             expectedSeqNum' = Without(expectedSeqNum, c)
      PROVE  /\ Buffers(readBuffer', expectedSeqNum', connId) /\ DOMAIN readBuffer' = DOMAIN buffers \ {c}
             /\ c \in ConnId /\ c \notin activeConn
  <2>1. c \in DOMAIN buffers /\ c \notin activeConn
    BY Zenon DEF Reportable
  <2>2. QED
    BY <1>0, <1>2, <2>1 DEF Buffers, Without
<1>3. CASE \E c \in ReadyIn(buffers) :
             /\ readBuffer' = [buffers EXCEPT ![c] = @ \ {expectedSeqNum[c]}]
             /\ expectedSeqNum' = [expectedSeqNum EXCEPT ![c] = @ + 1]
             /\ deferedRead' = waiting /\ reported' = reported
  BY <1>1, <1>3, Zenon DEF Waiting
<1>4. CASE \E c \in Reportable(buffers) :
             /\ readBuffer' = Without(buffers, c) /\ expectedSeqNum' = Without(expectedSeqNum, c)
             /\ reported' = reported \cup {c} /\ deferedRead' = waiting
  BY <1>2, <1>4, Zenon DEF Waiting
<1>5. CASE /\ readBuffer' = buffers /\ expectedSeqNum' = expectedSeqNum
           /\ deferedRead' = waiting + 1 /\ reported' = reported
  <2>1. waiting + 1 \in Nat
    OBVIOUS
  <2>2. QED
    BY <1>5, <2>1, Zenon DEF Waiting
<1>6. QED
  BY <1>3, <1>4, <1>5, Zenon DEF handleRead

(* Steps that only change the read buffers, and those of active            *)
(* connections not for good, and the idle epochs.                          *)
LEMMA BufferStep ==
  ASSUME IInv, UNCHANGED <<alive, connId, hostportConnIdMap, connIdHostportMap, activeConn, pending,
                           closeVars, panicked>>,
         Counts(connIdHostportMap, pending, idle'), DOMAIN idle \subseteq DOMAIN idle',
         Buffers(readBuffer', expectedSeqNum', connId), Waiting(deferedRead', reported'),
         DOMAIN readBuffer' \subseteq DOMAIN readBuffer,
         DOMAIN readBuffer \cap activeConn \subseteq DOMAIN readBuffer'
  PROVE  IInv'
<1>1. /\ alive' = alive /\ connId' = connId /\ hostportConnIdMap' = hostportConnIdMap
      /\ connIdHostportMap' = connIdHostportMap /\ activeConn' = activeConn /\ pending' = pending
      /\ panicked' = panicked
  OBVIOUS
<1>2. /\ deferedClose' = deferedClose /\ connLostInClosing' = connLostInClosing
      /\ running' = running /\ closeReply' = closeReply /\ dropped' = dropped
  BY DEF closeVars
<1>3. Equipped(deferedClose, activeConn, connId, idle', readBuffer', connIdHostportMap)
  BY Zenon DEF IInv, Equipped
<1>4. Parted(connIdHostportMap, activeConn, readBuffer', pending)
  BY Zenon DEF IInv, Parted
<1>5. QED
  BY <1>1, <1>2, <1>3, <1>4, Zenon DEF IInv

(* A call of Read.                                                         *)
LEMMA ReadStep ==
  ASSUME IInv, Read
  PROVE  IInv'
<1>1. handleRead(readBuffer, deferedRead)
  BY Zenon DEF Read
<1>2. /\ UNCHANGED <<alive, connId, hostportConnIdMap, connIdHostportMap, activeConn, pending,
                     closeVars, panicked>>
      /\ idle' = idle
  BY DEF Read, connVars
<1>3. /\ Buffers(readBuffer, expectedSeqNum, connId) /\ deferedRead \in Nat
      /\ reported \subseteq ConnId /\ connId \in 0 .. MaxConn
  BY Zenon DEF IInv, Waiting, Basics
<1>4. Counts(connIdHostportMap, pending, idle')
  BY <1>2, Zenon DEF IInv
<1>5. /\ Buffers(readBuffer', expectedSeqNum', connId) /\ Waiting(deferedRead', reported')
      /\ DOMAIN readBuffer' \subseteq DOMAIN readBuffer
      /\ DOMAIN readBuffer \cap activeConn \subseteq DOMAIN readBuffer'
  BY <1>1, <1>3, HandleRead, Zenon
<1>6. DOMAIN idle \subseteq DOMAIN idle'
  BY <1>2, Zenon
<1>7. QED
  BY <1>2, <1>4, <1>5, <1>6, BufferStep, Zenon

(* A connection that is heard of is not idle.                              *)
LEMMA HeardOf ==
  ASSUME NEW cm, NEW unacked, NEW idles, Counts(cm, unacked, idles), NEW c \in DOMAIN cm
  PROVE  Counts(cm, unacked, With(idles, c, 0)) /\ DOMAIN idles \subseteq DOMAIN With(idles, c, 0)
  BY DEF Counts, With

(* The connection of an address.                                           *)
LEMMA AddressOf ==
  ASSUME IInv, NEW h \in DOMAIN hostportConnIdMap
  PROVE  /\ hostportConnIdMap[h] \in DOMAIN connIdHostportMap
         /\ connIdHostportMap[hostportConnIdMap[h]] = h
  BY Zenon DEF IInv, Addresses, TwoWay

(* Data of a client.                                                       *)
LEMMA ReceiveDataStep ==
  ASSUME IInv, NEW h \in Client, NEW n \in 1 .. MaxData, ReceiveData(h, n)
  PROVE  IInv'
<1>. DEFINE c == hostportConnIdMap[h]
            buffers == [readBuffer EXCEPT ![c] = @ \cup {n}]
<1>1. /\ h \in DOMAIN hostportConnIdMap /\ c \in activeConn /\ idle' = With(idle, c, 0)
      /\ \/ UNCHANGED readVars
         \/ readBuffer' = buffers /\ UNCHANGED <<expectedSeqNum, deferedRead, reported>>
         \/ deferedRead > 0 /\ handleRead(buffers, deferedRead - 1)
  BY Zenon DEF ReceiveData
<1>2. UNCHANGED <<alive, connId, hostportConnIdMap, connIdHostportMap, activeConn, pending,
                  closeVars, panicked>>
  BY DEF ReceiveData
<1>3. c \in DOMAIN connIdHostportMap
  BY <1>1, AddressOf, Zenon
<1>4. Counts(connIdHostportMap, pending, idle') /\ DOMAIN idle \subseteq DOMAIN idle'
  <2>1. Counts(connIdHostportMap, pending, idle)
    BY Zenon DEF IInv
  <2>2. QED
    BY <1>1, <1>3, <2>1, HeardOf, Zenon
<1>5. /\ Buffers(readBuffer, expectedSeqNum, connId) /\ deferedRead \in Nat
      /\ reported \subseteq ConnId /\ connId \in 0 .. MaxConn
  BY Zenon DEF IInv, Waiting, Basics
<1>6. c \in DOMAIN readBuffer
  BY <1>1, <1>3, Zenon DEF IInv, Parted
<1>7. Buffers(buffers, expectedSeqNum, connId) /\ DOMAIN buffers = DOMAIN readBuffer
  <2>1. n \in Nat
    BY LimitAssumption
  <2>2. QED
    BY <1>5, <1>6, <2>1 DEF Buffers
<1>. HIDE DEF buffers, c
<1>8. /\ Buffers(readBuffer', expectedSeqNum', connId) /\ Waiting(deferedRead', reported')
      /\ DOMAIN readBuffer' \subseteq DOMAIN readBuffer
      /\ DOMAIN readBuffer \cap activeConn \subseteq DOMAIN readBuffer'
  <2>1. CASE UNCHANGED readVars
    <3>1. /\ readBuffer' = readBuffer /\ expectedSeqNum' = expectedSeqNum
          /\ deferedRead' = deferedRead /\ reported' = reported
      BY <2>1 DEF readVars
    <3>2. QED
      BY <1>5, <3>1, Zenon DEF Waiting
  <2>2. CASE readBuffer' = buffers /\ UNCHANGED <<expectedSeqNum, deferedRead, reported>>
    <3>1. /\ expectedSeqNum' = expectedSeqNum
          /\ deferedRead' = deferedRead /\ reported' = reported
      BY <2>2
    <3>2. QED
      BY <1>5, <1>7, <2>2, <3>1, Zenon DEF Waiting
  <2>3. CASE deferedRead > 0 /\ handleRead(buffers, deferedRead - 1)
    <3>1. deferedRead - 1 \in Nat
      BY <1>5, <2>3
    <3>2. QED
      BY <1>5, <1>7, <2>3, <3>1, HandleRead, Zenon
  <2>4. QED
    BY <1>1, <2>1, <2>2, <2>3, Zenon
<1>9. QED
  BY <1>2, <1>4, <1>8, BufferStep, Zenon

-----------------------------------------------------------------------------
(* Connections.                                                            *)

(* While requests are handled Close has not returned.                      *)
LEMMA NotReplied ==
  ASSUME IInv, Serving
  PROVE  closeReply = "none"
  BY Zenon DEF IInv, Noticed, Serving

(* Close learns nothing from a step that leaves its variables alone.       *)
LEMMA StillNoticed ==
  ASSUME IInv, Serving, UNCHANGED closeVars
  PROVE  Noticed(deferedClose', connLostInClosing', running', closeReply', dropped', pending')
<1>1. closeReply = "none" /\ closeReply # "ok"
  BY NotReplied
<1>2. /\ deferedClose' = deferedClose /\ connLostInClosing' = connLostInClosing
      /\ running' = running /\ closeReply' = closeReply /\ dropped' = dropped
  BY DEF closeVars
<1>3. QED
  BY <1>1, <1>2, Zenon DEF IInv, Noticed

(* A new connection gets an id of its own.                                 *)
LEMMA ReceiveConnectStep ==
  ASSUME IInv, NEW h \in Client, ReceiveConnect(h)
  PROVE  IInv'
<1>. DEFINE c == connId + 1
<1>1. /\ Serving /\ h \notin DOMAIN hostportConnIdMap /\ c \in ConnId /\ connId' = c
      /\ hostportConnIdMap' = With(hostportConnIdMap, h, c)
      /\ connIdHostportMap' = With(connIdHostportMap, c, h)
      /\ activeConn' = activeConn \cup {c}
  BY Zenon DEF ReceiveConnect, Open
<1>2. /\ readBuffer' = With(readBuffer, c, {}) /\ expectedSeqNum' = With(expectedSeqNum, c, 1)
      /\ pending' = With(pending, c, 0) /\ idle' = With(idle, c, 0)
  BY Zenon DEF ReceiveConnect
<1>3. /\ alive' = alive /\ deferedRead' = deferedRead /\ reported' = reported
      /\ panicked' = panicked /\ UNCHANGED closeVars
  BY DEF ReceiveConnect
<1>4. /\ connId \in 0 .. MaxConn /\ c \in 0 .. MaxConn /\ c \notin 1 .. connId
      /\ 1 .. connId \subseteq 1 .. c /\ c \in 1 .. c
  <2>1. connId \in 0 .. MaxConn
    BY Zenon DEF IInv, Basics
  <2>2. QED
    BY <1>1, <2>1, LimitAssumption DEF ConnId
<1>. HIDE DEF c
<1>5. Basics(alive', connId', panicked')
  BY <1>1, <1>3, <1>4, Zenon DEF IInv, Basics
<1>6. /\ DOMAIN connIdHostportMap \subseteq 1 .. connId /\ c \notin DOMAIN connIdHostportMap
      /\ DOMAIN readBuffer \subseteq 1 .. connId /\ c \notin DOMAIN readBuffer
      /\ activeConn \subseteq 1 .. connId
  BY <1>4, Zenon DEF IInv, Addresses, Buffers, Equipped
<1>7. /\ DOMAIN hostportConnIdMap' = DOMAIN hostportConnIdMap \cup {h}
      /\ DOMAIN connIdHostportMap' = DOMAIN connIdHostportMap \cup {c}
  BY <1>1 DEF With
<1>8. Addresses(hostportConnIdMap', connIdHostportMap', connId')
  <2>1. TwoWay(hostportConnIdMap', connIdHostportMap')
    BY <1>1, <1>6, InverseWith, Zenon DEF IInv, Addresses
  <2>2. QED
    BY <1>1, <1>4, <1>6, <1>7, <2>1, Zenon DEF IInv, Addresses
<1>9. Buffers(readBuffer', expectedSeqNum', connId') /\ DOMAIN readBuffer' = DOMAIN readBuffer \cup {c}
  <2>1. Buffers(readBuffer, expectedSeqNum, connId)
    BY Zenon DEF IInv
  <2>2. DOMAIN readBuffer' = DOMAIN readBuffer \cup {c}
    BY <1>2 DEF With
  <2>3. DOMAIN readBuffer' \subseteq 1 .. c
    BY <1>4, <1>6, <2>2, Zenon
  <2>4. QED
    BY <1>1, <1>2, <2>1, <2>2, <2>3 DEF Buffers, With
<1>10. /\ Counts(connIdHostportMap', pending', idle') /\ DOMAIN idle' = DOMAIN idle \cup {c}
       /\ \A d \in DOMAIN pending : d # c => pending'[d] = pending[d]
  <2>1. Counts(connIdHostportMap, pending, idle)
    BY Zenon DEF IInv
  <2>2. QED
    BY <1>2, <1>7, <2>1 DEF Counts, With
<1>11. Equipped(deferedClose', activeConn', connId', idle', readBuffer', connIdHostportMap')
  <2>1. deferedClose' = deferedClose
    BY <1>3 DEF closeVars
  <2>2. QED
    BY <1>1, <1>4, <1>6, <1>7, <1>9, <1>10, <2>1, Zenon DEF IInv, Equipped
<1>12. Parted(connIdHostportMap', activeConn', readBuffer', pending')
  <2>. SUFFICES ASSUME NEW d \in DOMAIN connIdHostportMap'
               PROVE  IF d \in activeConn' THEN d \in DOMAIN readBuffer'
                      ELSE d \notin DOMAIN readBuffer' /\ pending'[d] > 0
    BY Zenon DEF Parted
  <2>1. CASE d = c
    BY <1>1, <1>9, <2>1, Zenon
  <2>2. CASE d # c
    <3>1. d \in DOMAIN connIdHostportMap /\ d \in DOMAIN pending
      BY <1>7, <2>2, Zenon DEF IInv, Counts
    <3>2. IF d \in activeConn THEN d \in DOMAIN readBuffer
          ELSE d \notin DOMAIN readBuffer /\ pending[d] > 0
      BY <3>1, Zenon DEF IInv, Parted
    <3>3. QED
      BY <1>1, <1>9, <1>10, <2>2, <3>1, <3>2, Zenon
  <2>3. QED
    BY <2>1, <2>2, Zenon
<1>13. Noticed(deferedClose', connLostInClosing', running', closeReply', dropped', pending')
  BY <1>1, <1>3, StillNoticed, Zenon
<1>14. Waiting(deferedRead', reported')
  BY <1>3, Zenon DEF IInv
<1>15. QED
  BY <1>5, <1>8, <1>9, <1>10, <1>11, <1>12, <1>13, <1>14, Zenon DEF IInv

(* A connection goes, and all that is kept for it with it; activeConn may  *)
(* keep it once Close waits.                                               *)
LEMMA GoneStep ==
  ASSUME IInv, Serving, NEW c \in DOMAIN connIdHostportMap,
         hostportConnIdMap' = Without(hostportConnIdMap, connIdHostportMap[c]),
         connIdHostportMap' = Without(connIdHostportMap, c),
         readBuffer' = Without(readBuffer, c), expectedSeqNum' = Without(expectedSeqNum, c),
         pending' = Without(pending, c), idle' = Without(idle, c),
         activeConn' \in {activeConn, activeConn \ {c}}, c \notin activeConn' \/ deferedClose,
         UNCHANGED <<alive, connId, deferedRead, reported, closeVars, panicked>>
  PROVE  IInv'
<1>. DEFINE h == connIdHostportMap[c]
<1>1. /\ alive' = alive /\ connId' = connId /\ deferedRead' = deferedRead /\ reported' = reported
      /\ panicked' = panicked /\ UNCHANGED closeVars /\ deferedClose' = deferedClose
  BY DEF closeVars
<1>2. h \in DOMAIN hostportConnIdMap /\ hostportConnIdMap[h] = c
  BY Zenon DEF IInv, Addresses, TwoWay
<1>3. /\ DOMAIN hostportConnIdMap' = DOMAIN hostportConnIdMap \ {h}
      /\ DOMAIN connIdHostportMap' = DOMAIN connIdHostportMap \ {c}
  BY DEF Without
<1>4. Addresses(hostportConnIdMap', connIdHostportMap', connId')
  <2>1. TwoWay(hostportConnIdMap, connIdHostportMap)
    BY Zenon DEF IInv, Addresses
  <2>2. TwoWay(Without(hostportConnIdMap, h), Without(connIdHostportMap, hostportConnIdMap[h]))
    BY <1>2, <2>1, InverseWithout, Zenon
  <2>3. QED
    BY <1>1, <1>2, <1>3, <2>2, Zenon DEF IInv, Addresses
<1>5. Buffers(readBuffer', expectedSeqNum', connId') /\ DOMAIN readBuffer' = DOMAIN readBuffer \ {c}
  <2>1. Buffers(readBuffer, expectedSeqNum, connId)
    BY Zenon DEF IInv
  <2>2. QED
    BY <1>1, <2>1 DEF Buffers, Without
<1>6. /\ Counts(connIdHostportMap', pending', idle') /\ DOMAIN idle' = DOMAIN idle \ {c}
      /\ \A d \in DOMAIN pending : d # c => pending'[d] = pending[d]
  <2>1. Counts(connIdHostportMap, pending, idle)
    BY Zenon DEF IInv
  <2>2. QED
    BY <1>3, <2>1 DEF Counts, Without
<1>7. Equipped(deferedClose', activeConn', connId', idle', readBuffer', connIdHostportMap')
  BY <1>1, <1>3, <1>5, <1>6, Zenon DEF IInv, Equipped
<1>8. ASSUME NEW d \in DOMAIN connIdHostportMap'
      PROVE  IF d \in activeConn' THEN d \in DOMAIN readBuffer'
             ELSE d \notin DOMAIN readBuffer' /\ pending'[d] > 0
  <2>1. d # c /\ d \in DOMAIN connIdHostportMap /\ d \in DOMAIN pending
    BY <1>3, Zenon DEF IInv, Counts
  <2>2. IF d \in activeConn THEN d \in DOMAIN readBuffer
        ELSE d \notin DOMAIN readBuffer /\ pending[d] > 0
    BY <2>1, Zenon DEF IInv, Parted
  <2>3. QED
    BY <1>5, <1>6, <2>1, <2>2, Zenon
<1>9. Parted(connIdHostportMap', activeConn', readBuffer', pending')
  BY <1>8, Zenon DEF Parted
<1>10. Noticed(deferedClose', connLostInClosing', running', closeReply', dropped', pending')
  BY <1>1, StillNoticed, Zenon
<1>11. Basics(alive', connId', panicked') /\ Waiting(deferedRead', reported')
  BY <1>1, Zenon DEF IInv
<1>12. QED
  BY <1>4, <1>5, <1>6, <1>7, <1>9, <1>10, <1>11, Zenon DEF IInv

(* The counts of pending messages change, and a connection is heard of.    *)
LEMMA CountStep ==
  ASSUME IInv, Serving, NEW c \in DOMAIN connIdHostportMap, NEW left \in Nat,
         pending' = [pending EXCEPT ![c] = left], c \notin activeConn => left > 0,
         idle' = idle \/ idle' = With(idle, c, 0),
         UNCHANGED <<alive, connId, hostportConnIdMap, connIdHostportMap, activeConn, readVars,
                     closeVars, panicked>>
  PROVE  IInv'
<1>1. /\ alive' = alive /\ connId' = connId /\ hostportConnIdMap' = hostportConnIdMap
      /\ connIdHostportMap' = connIdHostportMap /\ activeConn' = activeConn
      /\ panicked' = panicked /\ UNCHANGED closeVars /\ deferedClose' = deferedClose
  BY DEF closeVars
<1>2. /\ readBuffer' = readBuffer /\ expectedSeqNum' = expectedSeqNum
      /\ deferedRead' = deferedRead /\ reported' = reported
  BY DEF readVars
<1>3. Counts(connIdHostportMap, pending, idle)
  BY Zenon DEF IInv
<1>4. /\ Counts(connIdHostportMap, pending', idle) /\ pending'[c] = left
      /\ \A d \in DOMAIN pending : d # c => pending'[d] = pending[d]
  BY <1>3 DEF Counts
<1>5. Counts(connIdHostportMap, pending', idle') /\ DOMAIN idle \subseteq DOMAIN idle'
  BY <1>4, HeardOf, Zenon
<1>6. Equipped(deferedClose, activeConn, connId, idle', readBuffer, connIdHostportMap)
  BY <1>5, Zenon DEF IInv, Equipped
<1>7. ASSUME NEW d \in DOMAIN connIdHostportMap
      PROVE  IF d \in activeConn THEN d \in DOMAIN readBuffer
             ELSE d \notin DOMAIN readBuffer /\ pending'[d] > 0
  <2>1. d \in DOMAIN pending
    BY <1>3, Zenon DEF Counts
  <2>2. IF d \in activeConn THEN d \in DOMAIN readBuffer
        ELSE d \notin DOMAIN readBuffer /\ pending[d] > 0
    BY Zenon DEF IInv, Parted
  <2>3. QED
    BY <1>4, <2>1, <2>2, Zenon
<1>8. Parted(connIdHostportMap, activeConn, readBuffer, pending')
  BY <1>7, Zenon DEF Parted
<1>9. Noticed(deferedClose', connLostInClosing', running', closeReply', dropped', pending')
  BY <1>1, StillNoticed, Zenon
<1>10. QED
  BY <1>1, <1>2, <1>5, <1>6, <1>8, <1>9, Zenon DEF IInv

(* An ack of a client.                                                     *)
LEMMA ReceiveAckStep ==
  ASSUME IInv, NEW h \in Client, NEW msgExist \in BOOLEAN, ReceiveAck(h, msgExist)
  PROVE  IInv'
<1>. DEFINE c == hostportConnIdMap[h]
            left == IF msgExist THEN pending[c] - 1 ELSE pending[c]
            last == msgExist /\ left = 0 /\ (c \notin activeConn \/ deferedClose)
<1>1. Serving /\ h \in DOMAIN hostportConnIdMap /\ (msgExist => pending[c] > 0)
  BY Zenon DEF ReceiveAck
<1>2. c \in DOMAIN connIdHostportMap /\ connIdHostportMap[c] = h
  BY <1>1, AddressOf, Zenon
<1>3. pending[c] \in Nat
  BY <1>2, Zenon DEF IInv, Counts
<1>4. CASE last
  <2>1. /\ hostportConnIdMap' = Without(hostportConnIdMap, connIdHostportMap[c])
        /\ connIdHostportMap' = Without(connIdHostportMap, c)
        /\ readBuffer' = Without(readBuffer, c) /\ expectedSeqNum' = Without(expectedSeqNum, c)
        /\ pending' = Without(pending, c) /\ idle' = Without(idle, c)
        /\ UNCHANGED <<alive, connId, activeConn, deferedRead, reported, closeVars, panicked>>
    BY <1>2, <1>4, Zenon DEF ReceiveAck
  <2>2. activeConn' = activeConn
    BY <2>1
  <2>3. /\ activeConn' \in {activeConn, activeConn \ {c}} /\ (c \notin activeConn' \/ deferedClose)
        /\ UNCHANGED <<alive, connId, deferedRead, reported, closeVars, panicked>>
    BY <1>4, <2>1, <2>2
  <2>4. QED
    BY <1>1, <1>2, <2>1, <2>3, GoneStep, Zenon
<1>5. CASE ~last
  <2>1. pending' = [pending EXCEPT ![c] = left] /\ idle' = With(idle, c, 0)
    BY <1>5, Zenon DEF ReceiveAck
  <2>2. UNCHANGED <<alive, connId, hostportConnIdMap, connIdHostportMap, activeConn, readVars,
                    closeVars, panicked>>
    BY <1>5 DEF ReceiveAck, readVars
  <2>3. c \notin activeConn => pending[c] > 0
    BY <1>2, Zenon DEF IInv, Parted
  <2>4. left \in Nat /\ (c \notin activeConn => left > 0)
    BY <1>1, <1>3, <1>5, <2>3
  <2>. HIDE DEF left
  <2>5. QED
    BY <1>1, <1>2, <2>1, <2>2, <2>4, CountStep, Zenon
<1>6. QED
  BY <1>4, <1>5, Zenon

(* A write to an active connection.                                        *)
LEMMA WriteStep ==
  ASSUME IInv, NEW c \in ConnId, handleWrite(c)
  PROVE  IInv'
<1>1. /\ Serving /\ c \in activeConn /\ c \in DOMAIN connIdHostportMap /\ idle' = idle
      /\ pending' = [pending EXCEPT ![c] = @ + 1]
      /\ UNCHANGED <<alive, connId, hostportConnIdMap, connIdHostportMap, activeConn, readVars,
                     closeVars, panicked>>
  BY DEF handleWrite, Open
<1>2. pending[c] \in Nat
  BY <1>1, Zenon DEF IInv, Counts
<1>. DEFINE left == pending[c] + 1
<1>3. left \in Nat /\ pending' = [pending EXCEPT ![c] = left]
  BY <1>1, <1>2
<1>. HIDE DEF left
<1>4. QED
  BY <1>1, <1>3, CountStep, Zenon

(* The process ends; the state stays.                                      *)
LEMMA PanicStep ==
  ASSUME IInv, NEW handler \in {"handleCloseConn", "handleClose", "handleEpoch"}, Panic(handler)
  PROVE  IInv'
<1>1. /\ alive' = alive /\ connId' = connId /\ hostportConnIdMap' = hostportConnIdMap
      /\ connIdHostportMap' = connIdHostportMap /\ activeConn' = activeConn
      /\ pending' = pending /\ idle' = idle
  BY DEF Panic, connVars
<1>2. /\ readBuffer' = readBuffer /\ expectedSeqNum' = expectedSeqNum
      /\ deferedRead' = deferedRead /\ reported' = reported
  BY DEF Panic, readVars
<1>3. /\ deferedClose' = deferedClose /\ connLostInClosing' = connLostInClosing
      /\ running' = running /\ closeReply' = closeReply /\ dropped' = dropped
  BY DEF Panic, closeVars
<1>4. panicked' \in {"no", "handleCloseConn", "handleClose", "handleEpoch"}
  BY Zenon DEF Panic
<1>5. QED
  BY <1>1, <1>2, <1>3, <1>4, Zenon DEF IInv, Basics

(* CloseConn: with messages pending the connection keeps its address.      *)
LEMMA CloseConnStep ==
  ASSUME IInv, NEW c \in ConnId, handleCloseConn(c)
  PROVE  IInv'
<1>1. Serving /\ c \in activeConn /\ ~deferedClose
  BY Zenon DEF handleCloseConn, Open
<1>2. c \in DOMAIN connIdHostportMap
  BY <1>1, Zenon DEF IInv, Equipped
<1>3. pending[c] \in Nat
  BY <1>2, Zenon DEF IInv, Counts
<1>4. CASE deferedRead > 0
  BY <1>4, PanicStep DEF handleCloseConn
<1>5. CASE ~(deferedRead > 0)
  <2>1. /\ readBuffer' = Without(readBuffer, c) /\ expectedSeqNum' = Without(expectedSeqNum, c)
        /\ idle' = Without(idle, c) /\ activeConn' = activeConn \ {c}
        /\ UNCHANGED <<alive, connId, deferedRead, reported, closeVars, panicked>>
    BY <1>5 DEF handleCloseConn
  <2>2. CASE NothingPending(c)
    <3>1. /\ pending' = Without(pending, c)
          /\ hostportConnIdMap' = Without(hostportConnIdMap, connIdHostportMap[c])
          /\ connIdHostportMap' = Without(connIdHostportMap, c)
      BY <1>5, <2>2, Zenon DEF handleCloseConn
    <3>2. activeConn' \in {activeConn, activeConn \ {c}} /\ c \notin activeConn'
      BY <2>1
    <3>3. QED
      BY <1>1, <1>2, <2>1, <3>1, <3>2, GoneStep, Zenon
  <2>3. CASE ~NothingPending(c)
    <3>1. /\ pending' = pending /\ hostportConnIdMap' = hostportConnIdMap
          /\ connIdHostportMap' = connIdHostportMap
      BY <1>5, <2>3 DEF handleCloseConn
    <3>2. /\ alive' = alive /\ connId' = connId /\ deferedRead' = deferedRead /\ reported' = reported
          /\ panicked' = panicked /\ UNCHANGED closeVars /\ deferedClose' = deferedClose
      BY <2>1 DEF closeVars
    <3>3. Buffers(readBuffer', expectedSeqNum', connId) /\ DOMAIN readBuffer' = DOMAIN readBuffer \ {c}
      <4>1. Buffers(readBuffer, expectedSeqNum, connId)
        BY Zenon DEF IInv
      <4>2. QED
        BY <2>1, <4>1 DEF Buffers, Without
    <3>4. Counts(connIdHostportMap, pending, idle') /\ DOMAIN idle' = DOMAIN idle \ {c}
      <4>1. Counts(connIdHostportMap, pending, idle)
        BY Zenon DEF IInv
      <4>2. QED
        BY <2>1, <4>1 DEF Counts, Without
    <3>5. Equipped(deferedClose, activeConn', connId, idle', readBuffer', connIdHostportMap)
      BY <2>1, <3>3, <3>4, Zenon DEF IInv, Equipped
    <3>6. pending[c] > 0
      BY <1>3, <2>3 DEF NothingPending
    <3>7. Parted(connIdHostportMap, activeConn', readBuffer', pending)
      BY <2>1, <3>3, <3>6, Zenon DEF IInv, Parted
    <3>8. Noticed(deferedClose', connLostInClosing', running', closeReply', dropped', pending')
      BY <1>1, <3>2, StillNoticed, Zenon
    <3>9. QED
      BY <3>1, <3>2, <3>3, <3>4, <3>5, <3>7, <3>8, Zenon DEF IInv
  <2>4. QED
    BY <2>2, <2>3, Zenon
<1>6. QED
  BY <1>4, <1>5, Zenon

(* Close returns at once if nothing is pending.                            *)
LEMMA CloseStep ==
  ASSUME IInv, handleClose
  PROVE  IInv'
<1>1. Serving /\ ~deferedClose
  BY Zenon DEF handleClose, Open
<1>2. CASE deferedRead > 0
  BY <1>2, PanicStep DEF handleClose
<1>3. CASE ~(deferedRead > 0)
  <2>1. /\ \/ /\ \A c \in DOMAIN pending : pending[c] = 0
              /\ closeReply' = "ok" /\ running' = FALSE /\ deferedClose' = deferedClose
           \/ deferedClose' = TRUE /\ closeReply' = closeReply /\ running' = running
        /\ UNCHANGED <<alive, connVars, readVars, connLostInClosing, dropped, panicked>>
    BY <1>3 DEF handleClose
  <2>2. /\ alive' = alive /\ connId' = connId /\ hostportConnIdMap' = hostportConnIdMap
        /\ connIdHostportMap' = connIdHostportMap /\ activeConn' = activeConn
        /\ pending' = pending /\ idle' = idle
    BY <2>1 DEF connVars
  <2>3. /\ readBuffer' = readBuffer /\ expectedSeqNum' = expectedSeqNum
        /\ deferedRead' = deferedRead /\ reported' = reported
        /\ connLostInClosing' = connLostInClosing /\ dropped' = dropped /\ panicked' = panicked
    BY <2>1 DEF readVars
  <2>4. dropped = {} /\ closeReply = "none" /\ connLostInClosing \in BOOLEAN /\ running \in BOOLEAN
        /\ deferedClose \in BOOLEAN
    BY <1>1, NotReplied, Zenon DEF IInv, Noticed
  <2>5. Noticed(deferedClose', connLostInClosing, running', closeReply', dropped, pending)
    BY <2>1, <2>4 DEF Noticed
  <2>6. Equipped(deferedClose', activeConn, connId, idle, readBuffer, connIdHostportMap)
    BY <1>1, Zenon DEF IInv, Equipped
  <2>7. QED
    BY <2>2, <2>3, <2>5, <2>6, Zenon DEF IInv
<1>4. QED
  BY <1>2, <1>3, Zenon

-----------------------------------------------------------------------------
(* The epoch timer.                                                        *)

(* The connections that are told to be lost are no more than the calls of  *)
(* Read that wait.                                                         *)
LEMMA ToldWait ==
  ASSUME NEW unread \in SUBSET ConnId, NEW told \in Told(unread), deferedRead \in Nat
  PROVE  told \subseteq unread /\ deferedRead - Cardinality(told) \in Nat
<1>1. told \subseteq unread /\ (Cardinality(told) <= deferedRead \/ Cardinality(told) = deferedRead)
  BY Zenon DEF Told
<1>2. IsFiniteSet(ConnId)
  BY LimitAssumption, FS_Interval DEF ConnId
<1>3. IsFiniteSet(told)
  BY <1>1, <1>2, FS_Subset
<1>4. Cardinality(told) \in Nat
  BY <1>3, FS_CardinalityType
<1>5. QED
  BY <1>1, <1>4

(* The lost connections are gone.                                          *)
LEMMA CleanUpMaps ==
  ASSUME IInv, NEW told \in SUBSET Lost, CleanUp(told), connId' = connId
  PROVE  /\ Addresses(hostportConnIdMap', connIdHostportMap', connId')
         /\ Buffers(readBuffer', expectedSeqNum', connId')
         /\ Counts(connIdHostportMap', pending', idle')
         /\ Equipped(deferedClose, activeConn', connId', idle', readBuffer', connIdHostportMap')
         /\ Parted(connIdHostportMap', activeConn', readBuffer', pending')
         /\ DOMAIN pending' = DOMAIN pending \ Lost
         /\ \A c \in DOMAIN pending' : pending'[c] = pending[c]
<1>1. /\ hostportConnIdMap' = [h \in DOMAIN hostportConnIdMap \ LostAddress |-> hostportConnIdMap[h]]
      /\ connIdHostportMap' = [c \in DOMAIN connIdHostportMap \ Lost |-> connIdHostportMap[c]]
  BY Zenon DEF CleanUp
<1>2. /\ readBuffer' = [c \in DOMAIN readBuffer \ told |-> readBuffer[c]]
      /\ expectedSeqNum' = [c \in DOMAIN expectedSeqNum \ told |-> expectedSeqNum[c]]
  BY Zenon DEF CleanUp
<1>3. /\ pending' = [c \in DOMAIN pending \ Lost |-> pending[c]]
      /\ idle' = [c \in DOMAIN idle \ Lost |-> idle[c] + 1] /\ activeConn' = activeConn \ Lost
  BY Zenon DEF CleanUp, Aged, StillActive
<1>4. Lost \subseteq DOMAIN idle /\ Counts(connIdHostportMap, pending, idle)
  BY Zenon DEF Lost, IInv
<1>5. Lost \subseteq DOMAIN connIdHostportMap
  BY <1>4, Zenon DEF Counts
<1>. HIDE DEF Lost
<1>6. /\ DOMAIN hostportConnIdMap' = DOMAIN hostportConnIdMap \ LostAddress
      /\ DOMAIN connIdHostportMap' = DOMAIN connIdHostportMap \ Lost
      /\ DOMAIN readBuffer' = DOMAIN readBuffer \ told /\ DOMAIN pending' = DOMAIN pending \ Lost
      /\ DOMAIN idle' = DOMAIN idle \ Lost
  BY <1>1, <1>2, <1>3, Zenon
<1>7. Addresses(hostportConnIdMap', connIdHostportMap', connId')
  <2>1. TwoWay(hostportConnIdMap, connIdHostportMap)
    BY Zenon DEF IInv, Addresses
  <2>2. TwoWay(hostportConnIdMap', connIdHostportMap')
    BY <1>1, <1>5, <2>1, InverseMinus, Zenon DEF LostAddress
  <2>3. QED
    BY <1>6, <2>2, Zenon DEF IInv, Addresses
<1>8. Buffers(readBuffer', expectedSeqNum', connId')
  <2>1. Buffers(readBuffer, expectedSeqNum, connId)
    BY Zenon DEF IInv
  <2>2. QED
    BY <1>2, <2>1 DEF Buffers
<1>9. Counts(connIdHostportMap', pending', idle') /\ \A c \in DOMAIN pending' : pending'[c] = pending[c]
  BY <1>3, <1>4, <1>6 DEF Counts
<1>10. Equipped(deferedClose, activeConn', connId', idle', readBuffer', connIdHostportMap')
  BY <1>3, <1>6, Zenon DEF IInv, Equipped
<1>11. ASSUME NEW c \in DOMAIN connIdHostportMap'
       PROVE  IF c \in activeConn' THEN c \in DOMAIN readBuffer'
              ELSE c \notin DOMAIN readBuffer' /\ pending'[c] > 0
  <2>1. c \in DOMAIN connIdHostportMap /\ c \notin Lost /\ c \notin told
    BY <1>6, Zenon
  <2>2. pending'[c] = pending[c]
    BY <1>4, <1>6, <1>9, <2>1, Zenon DEF Counts
  <2>3. IF c \in activeConn THEN c \in DOMAIN readBuffer
        ELSE c \notin DOMAIN readBuffer /\ pending[c] > 0
    BY <2>1, Zenon DEF IInv, Parted
  <2>4. QED
    BY <1>3, <1>6, <2>1, <2>2, <2>3, Zenon
<1>12. Parted(connIdHostportMap', activeConn', readBuffer', pending')
  BY <1>11, Zenon DEF Parted
<1>13. QED
  BY <1>6, <1>7, <1>8, <1>9, <1>10, <1>12, Zenon

(* An epoch.                                                               *)
LEMMA EpochStep ==
  ASSUME IInv, handleEpoch
  PROVE  IInv'
<1>1. Serving
  BY Zenon DEF handleEpoch
<1>2. CASE \E c \in Lost : c \notin DOMAIN readBuffer
  <2>1. Panic("handleEpoch")
    BY <1>2, Zenon DEF handleEpoch
  <2>2. QED
    BY <2>1, PanicStep
<1>3. CASE ~(\E c \in Lost : c \notin DOMAIN readBuffer)
  <2>1. PICK told \in Told(Lost \ ReadyIn(readBuffer)) : CleanUp(told)
    BY <1>3, Zenon DEF handleEpoch
  <2>2. FinishClose /\ alive' = alive /\ connId' = connId /\ panicked' = panicked
    BY <1>3 DEF handleEpoch
  <2>3. Lost \subseteq 1 .. connId /\ 1 .. connId \subseteq ConnId
    <3>1. Lost \subseteq DOMAIN idle
      BY Zenon DEF Lost
    <3>2. DOMAIN idle \subseteq 1 .. connId /\ connId \in 0 .. MaxConn
      BY Zenon DEF IInv, Counts, Addresses, Basics
    <3>3. QED
      BY <3>1, <3>2, LimitAssumption DEF ConnId
  <2>4. deferedRead \in Nat /\ reported \subseteq ConnId
    BY Zenon DEF IInv, Waiting
  <2>5. told \subseteq Lost /\ deferedRead - Cardinality(told) \in Nat
    <3>1. Lost \ ReadyIn(readBuffer) \in SUBSET ConnId
      BY <2>3, Zenon
    <3>2. told \subseteq Lost \ ReadyIn(readBuffer) /\ deferedRead - Cardinality(told) \in Nat
      BY <2>1, <2>4, <3>1, ToldWait, Zenon
    <3>3. QED
      BY <3>2, Zenon
  <2>6. Waiting(deferedRead', reported')
    BY <2>1, <2>3, <2>4, <2>5, Zenon DEF CleanUp, Waiting
  <2>7. /\ Addresses(hostportConnIdMap', connIdHostportMap', connId')
        /\ Buffers(readBuffer', expectedSeqNum', connId')
        /\ Counts(connIdHostportMap', pending', idle')
        /\ Equipped(deferedClose, activeConn', connId', idle', readBuffer', connIdHostportMap')
        /\ Parted(connIdHostportMap', activeConn', readBuffer', pending')
        /\ DOMAIN pending' = DOMAIN pending \ Lost
        /\ \A c \in DOMAIN pending' : pending'[c] = pending[c]
    BY <2>1, <2>2, <2>5, CleanUpMaps, Zenon
  <2>8. deferedClose' = deferedClose /\ closeReply = "none"
    BY <1>1, <2>2, NotReplied DEF FinishClose
  <2>9. /\ {deferedClose, connLostInClosing, running} \subseteq BOOLEAN
        /\ dropped \subseteq ConnId /\ (dropped # {} => deferedClose /\ connLostInClosing)
    BY Zenon DEF IInv, Noticed
  <2>10. connLostInClosing' = (connLostInClosing \/ (deferedClose /\ Lost # {}))
    BY <2>2, Zenon DEF FinishClose, LostWhileClosing
  <2>11. /\ dropped' \subseteq ConnId /\ (dropped' # {} => deferedClose /\ connLostInClosing')
    <3>1. dropped' = IF deferedClose THEN dropped \cup {c \in Lost : pending[c] > 0} ELSE dropped
      BY <2>2, Zenon DEF FinishClose
    <3>2. CASE ~deferedClose
      BY <2>9, <2>10, <3>1, <3>2, Zenon
    <3>3. CASE deferedClose
      <4>1. dropped' \subseteq dropped \cup Lost
        BY <3>1, <3>3, Zenon
      <4>2. QED
        BY <2>3, <2>9, <2>10, <3>3, <4>1, Zenon
    <3>4. QED
      BY <3>2, <3>3, Zenon
  <2>12. \/ closeReply' = "none" /\ running' = running
         \/ /\ closeReply' = IF connLostInClosing' THEN "error" ELSE "ok"
            /\ running' = FALSE /\ \A c \in DOMAIN pending \ Lost : pending[c] = 0
    BY <2>2, <2>8 DEF FinishClose
  <2>13. connLostInClosing' \in BOOLEAN
    BY <2>10, Zenon
  <2>14. closeReply' = "ok" => dropped' = {} /\ \A c \in DOMAIN pending' : pending'[c] = 0
    <3>. SUFFICES ASSUME closeReply' = "ok"
                 PROVE  dropped' = {} /\ \A c \in DOMAIN pending' : pending'[c] = 0
      BY Zenon
    <3>1. ~connLostInClosing' /\ \A c \in DOMAIN pending \ Lost : pending[c] = 0
      BY <2>12
    <3>2. QED
      BY <2>7, <2>11, <3>1, Zenon
  <2>15. closeReply' \in {"none", "ok", "error"} /\ (closeReply' # "none" => ~running')
         /\ running' \in BOOLEAN
    BY <2>9, <2>12
  <2>16. Noticed(deferedClose', connLostInClosing', running', closeReply', dropped', pending')
    BY <2>8, <2>9, <2>11, <2>13, <2>14, <2>15, Zenon DEF Noticed
  <2>17. QED
    BY <2>2, <2>6, <2>7, <2>8, <2>16, Zenon DEF IInv
<1>4. QED
  BY <1>2, <1>3, Zenon

-----------------------------------------------------------------------------
(* The theorems.                                                           *)

(* The invariant holds at first.                                           *)
LEMMA InitIInv == Init => IInv
<1>. SUFFICES ASSUME Init PROVE IInv
  OBVIOUS
<1>1. /\ DOMAIN hostportConnIdMap = {} /\ DOMAIN connIdHostportMap = {} /\ DOMAIN readBuffer = {}
      /\ DOMAIN expectedSeqNum = {} /\ DOMAIN pending = {} /\ DOMAIN idle = {}
  BY DEF Init, NoEntries
<1>2. Basics(alive, connId, panicked) /\ Waiting(deferedRead, reported)
  BY LimitAssumption DEF Init, Basics, Waiting
<1>3. /\ Addresses(hostportConnIdMap, connIdHostportMap, connId)
      /\ Buffers(readBuffer, expectedSeqNum, connId) /\ Counts(connIdHostportMap, pending, idle)
      /\ Parted(connIdHostportMap, activeConn, readBuffer, pending)
  BY <1>1, Zenon DEF Addresses, TwoWay, Buffers, Counts, Parted
<1>4. Equipped(deferedClose, activeConn, connId, idle, readBuffer, connIdHostportMap)
  BY DEF Init, Equipped
<1>5. Noticed(deferedClose, connLostInClosing, running, closeReply, dropped, pending)
  BY DEF Init, Noticed
<1>6. QED
  BY <1>2, <1>3, <1>4, <1>5, Zenon DEF IInv

(* Steps that change at most the clients that are alive.                   *)
LEMMA DieStep ==
  ASSUME IInv, UNCHANGED <<connVars, readVars, closeVars, panicked>>, alive' \subseteq alive
  PROVE  IInv'
<1>1. /\ connId' = connId /\ hostportConnIdMap' = hostportConnIdMap
      /\ connIdHostportMap' = connIdHostportMap /\ activeConn' = activeConn
      /\ pending' = pending /\ idle' = idle
  BY DEF connVars
<1>2. /\ readBuffer' = readBuffer /\ expectedSeqNum' = expectedSeqNum
      /\ deferedRead' = deferedRead /\ reported' = reported
  BY DEF readVars
<1>3. /\ deferedClose' = deferedClose /\ connLostInClosing' = connLostInClosing
      /\ running' = running /\ closeReply' = closeReply /\ dropped' = dropped /\ panicked' = panicked
  BY DEF closeVars
<1>4. QED
  BY <1>1, <1>2, <1>3, Zenon DEF IInv, Basics

(* The inductive invariant: the parts above hold in every state.           *)
THEOREM PartsAgree == Spec => []IInv
<1>1. ASSUME IInv, [Next]_vars PROVE IInv'
  <2>1. CASE UNCHANGED vars
    <3>1. UNCHANGED <<connVars, readVars, closeVars, panicked>> /\ alive' \subseteq alive
      BY <2>1 DEF vars
    <3>2. QED
      BY <1>1, <3>1, DieStep, Zenon
  <2>2. ASSUME NEW h \in Client, Die(h) PROVE IInv'
    <3>1. UNCHANGED <<connVars, readVars, closeVars, panicked>> /\ alive' \subseteq alive
      BY <2>2 DEF Die
    <3>2. QED
      BY <1>1, <3>1, DieStep, Zenon
  <2>3. CASE Next
    BY <1>1, <2>2, <2>3, ReadStep, CloseStep, EpochStep, ReceiveConnectStep, ReceiveAckStep,
       ReceiveDataStep, WriteStep, CloseConnStep, Zenon DEF Next
  <2>4. QED
    BY <1>1, <2>1, <2>3, Zenon
<1>2. QED
  BY <1>1, InitIInv, PTL DEF Spec

(* The maps of the server describe the same connections.                   *)
THEOREM MapsSafe == Spec => []MapsAgree
<1>1. ASSUME IInv PROVE MapsAgree
  <2>1. 1 .. connId \subseteq ConnId
    <3>1. connId \in 0 .. MaxConn
      BY <1>1, Zenon DEF IInv, Basics
    <3>2. QED
      BY <3>1, LimitAssumption DEF ConnId
  <2>2. /\ TwoWay(hostportConnIdMap, connIdHostportMap)
        /\ DOMAIN hostportConnIdMap \subseteq Client /\ DOMAIN connIdHostportMap \subseteq ConnId
    BY <1>1, <2>1, Zenon DEF IInv, Addresses
  <2>3. /\ \A h \in DOMAIN hostportConnIdMap : hostportConnIdMap[h] \in ConnId
        /\ \A c \in DOMAIN connIdHostportMap : connIdHostportMap[c] \in Client
    BY <2>2, Zenon DEF TwoWay
  <2>4. activeConn \subseteq ConnId /\ DOMAIN readBuffer \subseteq ConnId
    BY <1>1, <2>1, Zenon DEF IInv, Equipped, Buffers
  <2>5. TypeOK
    BY <1>1, <2>2, <2>3, <2>4, Zenon DEF IInv, TypeOK, Basics, Buffers, Counts, Waiting, Noticed
  <2>6. DOMAIN pending = DOMAIN connIdHostportMap /\ DOMAIN idle \subseteq DOMAIN connIdHostportMap
    BY <1>1, Zenon DEF IInv, Counts
  <2>7. \A c \in DOMAIN idle : c \notin DOMAIN readBuffer => c \notin activeConn /\ pending[c] > 0
    BY <1>1, <2>6, Zenon DEF IInv, Parted
  <2>8. ~deferedClose =>
          activeConn \subseteq DOMAIN idle \cap DOMAIN readBuffer \cap DOMAIN connIdHostportMap
    BY <1>1, Zenon DEF IInv, Equipped
  <2>9. QED
    BY <2>2, <2>5, <2>6, <2>7, <2>8, Zenon DEF MapsAgree, TwoWay
<1>2. QED
  BY <1>1, PartsAgree, PTL

(* Close returns without an error only if every message that was pending   *)
(* when it was called, or before on a connection not lost, has been acked. *)
THEOREM CloseOkSafe == Spec => []CloseOkMeansAcked
<1>1. IInv => CloseOkMeansAcked
  BY Zenon DEF IInv, Noticed, CloseOkMeansAcked
<1>2. QED
  BY <1>1, PartsAgree, PTL

(* handleRead tells of a loss only if none of the messages is ready.       *)
LEMMA LossReadLast ==
  ASSUME NEW buffers, NEW waiting, handleRead(buffers, waiting),
         NEW c \in reported' \ reported
  PROVE  c \in DOMAIN buffers /\ c \notin activeConn /\ c \notin ReadyIn(buffers)
<1>1. c \in Reportable(buffers)
  BY DEF handleRead
<1>2. QED
  BY <1>1, Zenon DEF Reportable

(* A Read is told that a connection is lost only when none of its messages *)
(* is ready: loss never overtakes data.                                    *)
THEOREM LossAfterData == Spec => DataBeforeLoss
<1>1. ASSUME [Next]_vars PROVE [\A c \in reported' \ reported : c \notin ReadyIn(readBuffer)]_vars
  <2>. SUFFICES ASSUME Next, NEW c \in reported' \ reported PROVE c \notin ReadyIn(readBuffer)
    BY <1>1, Zenon
  <2>1. CASE Read
    <3>1. handleRead(readBuffer, deferedRead)
      BY <2>1, Zenon DEF Read
    <3>2. QED
      BY <3>1, LossReadLast, Zenon
  <2>2. CASE \E h \in Client, n \in 1 .. MaxData : ReceiveData(h, n)
    <3>1. PICK h \in Client, n \in 1 .. MaxData : ReceiveData(h, n)
      BY <2>2, Zenon
    <3>. DEFINE d == hostportConnIdMap[h]
                buffers == [readBuffer EXCEPT ![d] = @ \cup {n}]
    <3>2. d \in activeConn
      BY <3>1, Zenon DEF ReceiveData
    <3>3. handleRead(buffers, deferedRead - 1)
      BY <3>1 DEF ReceiveData, readVars
    <3>4. DOMAIN buffers = DOMAIN readBuffer /\ \A x \in DOMAIN readBuffer : x # d => buffers[x] = readBuffer[x]
      OBVIOUS
    <3>. HIDE DEF buffers, d
    <3>5. c \in DOMAIN buffers /\ c \notin activeConn /\ c \notin ReadyIn(buffers)
      BY <3>3, LossReadLast, Zenon
    <3>6. QED
      BY <3>2, <3>4, <3>5, Zenon DEF ReadyIn, Ready
  <2>3. CASE handleEpoch
    <3>1. CASE reported' = reported
      BY <3>1, Zenon
    <3>2. ASSUME NEW told \in Told(Lost \ ReadyIn(readBuffer)), CleanUp(told)
          PROVE  c \notin ReadyIn(readBuffer)
      BY <3>2, Zenon DEF CleanUp, Told
    <3>3. QED
      BY <2>3, <3>1, <3>2 DEF handleEpoch, Panic, readVars
  <2>4. CASE \/ handleClose
             \/ \E h \in Client : ReceiveConnect(h) \/ Die(h) \/ \E b \in BOOLEAN : ReceiveAck(h, b)
             \/ \E d \in ConnId : handleWrite(d) \/ handleCloseConn(d)
    <3>1. reported' = reported
      BY <2>4 DEF handleClose, ReceiveConnect, Die, ReceiveAck, handleWrite, handleCloseConn, Panic,
                  readVars
    <3>2. QED
      BY <3>1, Zenon
  <2>5. QED
    BY <2>1, <2>2, <2>3, <2>4, Zenon DEF Next
<1>2. QED
  BY <1>1, PTL DEF Spec, DataBeforeLoss

-----------------------------------------------------------------------------

(* Any operation of the handlers ends with a result that answers the       *)
(* client.                                                                 *)
LEMMA ResultAnswers ==
  ASSUME NEW s, NEW r
  PROVE  Executed(s, r).result \in {"ok", "reject"}
<1>1. \A op, fl, rs : reserveTicketHelper(op, fl, rs).result \in {"ok", "reject"}
  BY Zenon DEF reserveTicketHelper, Done
<1>2. \A op, fl, rs : addFlightHelper(op, fl, rs).result \in {"ok", "reject"}
  BY Zenon DEF addFlightHelper, Done
<1>3. \A op, fl, rs : cancelFlightHelper(op, fl, rs).result \in {"ok", "reject"}
  BY Zenon DEF cancelFlightHelper, Done
<1>4. \A op, fl, rs : editFlightHelper(op, fl, rs).result \in {"ok", "reject"}
  BY Zenon DEF editFlightHelper, Done
<1>5. \A fl, rs : Done(fl, rs, "ok").result \in {"ok", "reject"}
  BY Zenon DEF Done
<1>6. QED
  BY <1>1, <1>2, <1>3, <1>4, <1>5, Zenon DEF Executed, Execute

(* Initially no request was sent and no slot is decided.                   *)
LEMMA InitFlightInv == FlightInit => FlightInv
<1>. SUFFICES ASSUME FlightInit PROVE FlightInv
  OBVIOUS
<1>. USE FlightAssumption DEF FlightInit
<1>1. ControlOK
  BY DEF ControlOK, Slot
<1>2. Answered = {} /\ \A n \in Slot : log[n] = None
  BY Zenon DEF Answered
<1>3. NoHoles
  BY <1>2 DEF NoHoles, Slot
<1>4. InHand
  BY Zenon DEF InHand
<1>5. LostBefore
  BY Zenon DEF LostBefore
<1>6. AnsweredInLog
  BY <1>2, Zenon DEF AnsweredInLog
<1>7. RealTimeOrder
  BY <1>2, Zenon DEF RealTimeOrder
<1>8. QED
  BY <1>1, <1>3, <1>4, <1>5, <1>6, <1>7, Zenon DEF FlightInv

(* A request that is sent has been put forward for no slot.                *)
LEMMA BeginKeepsIInv ==
  ASSUME FlightInv, NEW s \in Server, NEW r \in Req, Begin(s, r)
  PROVE  FlightInv'
<1>. USE FlightAssumption DEF Begin, replicaVars, FlightInv, ControlOK
<1>0. r # None /\ outcome[r] = "new" /\ outcome'[r] = "pending"
  BY Zenon DEF Req
<1>1. ControlOK'
  BY Zenon DEF Answered
<1>2. Answered' = Answered
  BY <1>0, Zenon DEF Answered
<1>3. NoHoles'
  BY Zenon DEF NoHoles
<1>4. \A p \in proposals : p[2] # r
  BY <1>0, Zenon DEF LostBefore
<1>5. InHand'
  <2>1. \A t \in Server : busy[t] # r
    BY <1>0, Zenon DEF InHand
  <2>2. QED
    BY <1>0, <1>4, <2>1 DEF InHand
<1>6. LostBefore'
  BY <1>0, <1>4, Zenon DEF LostBefore
<1>7. AnsweredInLog'
  BY <1>0, <1>2, Zenon DEF AnsweredInLog
<1>8. RealTimeOrder'
  <2>1. \A n \in Slot : log[n] # r
    <3>. SUFFICES ASSUME NEW n \in Slot, log[n] = r PROVE FALSE
      OBVIOUS
    <3>1. <<n, r>> \in proposals /\ <<n, r>>[2] = r
      BY <1>0, Zenon DEF NoHoles
    <3>2. QED
      BY <3>1, <1>4, Zenon
  <2>2. QED
    BY <2>1, Zenon DEF RealTimeOrder
<1>9. QED
  BY <1>1, <1>3, <1>5, <1>6, <1>7, <1>8, Zenon

(* A request is put forward only for the slot at which the server stands.  *)
LEMMA StartKeepsIInv ==
  ASSUME FlightInv, NEW s \in Server, Start(s)
  PROVE  FlightInv'
<1>. USE FlightAssumption DEF Start, replicaVars, FlightInv, ControlOK
<1>. DEFINE new == <<currSlotNum[s], busy[s]>>
<1>0. new \in Slot \X Req /\ new[1] = currSlotNum[s] /\ new[2] = busy[s] /\ busy[s] # None
  BY Zenon DEF Slot
<1>1. ControlOK'
  BY <1>0, Zenon
<1>2. Answered' = Answered
  BY Zenon DEF Answered
<1>3. NoHoles'
  BY <1>0 DEF NoHoles
<1>4. InHand'
  <2>1. \A t \in Server, p \in proposals' : p[2] = busy[t] => p \in proposals \/ (p = new /\ t = s)
    BY <1>0 DEF InHand
  <2>2. QED
    BY <1>0, <2>1 DEF InHand, Slot
<1>5. LostBefore'
  <2>1. outcome[busy[s]] = "pending"
    BY <1>0, Zenon DEF InHand
  <2>2. \A p \in proposals : p[2] = busy[s] => p[1] < currSlotNum[s] /\ log[p[1]] # busy[s]
    BY <1>0 DEF InHand, Slot
  <2>3. QED
    BY <1>0, <2>1, <2>2 DEF LostBefore, Slot
<1>6. AnsweredInLog'
  BY <1>2, Zenon DEF AnsweredInLog
<1>7. RealTimeOrder'
  BY Zenon DEF RealTimeOrder
<1>8. QED
  BY <1>1, <1>3, <1>4, <1>5, <1>6, <1>7, Zenon

(* A handler that ends without an answer leaves the log as it is.          *)
LEMMA GiveUpKeepsIInv ==
  ASSUME FlightInv, NEW s \in Server, busy[s] # None,
         busy' = [busy EXCEPT ![s] = None],
         NEW o \in {"refused", "failed"}, outcome' = [outcome EXCEPT ![busy[s]] = o],
         o = "refused" => proposed[s] = None,
         proposed' = [proposed EXCEPT ![s] = None],
         UNCHANGED <<log, proposals, currSlotNum, before, restarts>>
  PROVE  FlightInv'
<1>. USE FlightAssumption DEF FlightInv, ControlOK
<1>0. busy[s] \in Req /\ outcome[busy[s]] = "pending" /\ None \notin Req
  BY DEF InHand, Req
<1>1. ControlOK'
  BY <1>0, Zenon
<1>2. Answered' = Answered
  BY <1>0, Zenon DEF Answered
<1>3. NoHoles'
  BY Zenon DEF NoHoles
<1>4. InHand'
  BY <1>0 DEF InHand
<1>5. LostBefore'
  <2>1. \A p \in proposals : p[2] = busy[s] /\ proposed[s] = None =>
          log[p[1]] # busy[s] /\ log[p[1]] # None
    BY <1>0 DEF InHand, NoHoles, Slot
  <2>2. QED
    BY <1>0, <2>1, Zenon DEF LostBefore
<1>6. AnsweredInLog'
  BY <1>2, Zenon DEF AnsweredInLog
<1>7. RealTimeOrder'
  BY Zenon DEF RealTimeOrder
<1>8. QED
  BY <1>1, <1>3, <1>4, <1>5, <1>6, <1>7, Zenon

(* Paxos decides a slot.  A request that was put forward for several slots *)
(* lost all but the last, so it is decided once.                           *)
LEMMA ChooseKeepsIInv ==
  ASSUME FlightInv, NEW n \in Slot, NEW r \in Req, Choose(n, r)
  PROVE  FlightInv'
<1>. USE FlightAssumption DEF Choose, replicaVars, FlightInv, ControlOK
<1>0. r # None /\ log[n] = None /\ <<n, r>> \in proposals /\ log'[n] = r
  BY Zenon DEF Req
<1>1. ControlOK'
  OBVIOUS
<1>2. Answered' = Answered
  BY Zenon DEF Answered
<1>3. NoHoles'
  BY <1>0, Zenon DEF NoHoles
<1>4. \A m \in Slot : log[m] # None => m < n /\ log[m] # r
  <2>. SUFFICES ASSUME NEW m \in Slot, log[m] # None PROVE m < n /\ log[m] # r
    OBVIOUS
  <2>1. <<m, log[m]>> \in proposals /\ m # n
    BY <1>0, Zenon DEF NoHoles
  <2>2. ~ (n < m)
    <3>1. <<m, log[m]>>[1] = m
      OBVIOUS
    <3>2. QED
      BY <1>0, <2>1, <3>1, Zenon DEF NoHoles
  <2>3. m < n
    BY <2>1, <2>2 DEF Slot
  <2>4. log[m] # r
    <3>1. SUFFICES ASSUME log[m] = r PROVE FALSE
      OBVIOUS
    <3>2. PICK p \in proposals : p = <<m, r>>
      BY <2>1, <3>1, Zenon
    <3>3. PICK q \in proposals : q = <<n, r>>
      BY <1>0, Zenon
    <3>4. p[1] = m /\ p[2] = r /\ q[1] = n /\ q[2] = r
      BY <3>2, <3>3, Zenon
    <3>5. QED
      BY <2>3, <3>1, <3>4, Zenon DEF LostBefore
  <2>5. QED
    BY <2>3, <2>4, Zenon
<1>5. InHand'
  <2>1. \A s \in Server, p \in proposals :
          p[2] = busy[s] /\ p[1] < currSlotNum[s] => p[1] # n
    BY <1>0, Zenon DEF NoHoles
  <2>2. QED
    BY <2>1 DEF InHand
<1>6. LostBefore'
  <2>1. \A p, q \in proposals : p[1] < q[1] => p[1] # n
    BY <1>0, Zenon DEF NoHoles
  <2>2. \A p \in proposals : outcome[p[2]] = "refused" => p[1] # n
    BY <1>0, Zenon DEF LostBefore
  <2>3. QED
    BY <2>1, <2>2, Zenon DEF LostBefore
<1>7. AnsweredInLog'
  <2>1. \A m \in Slot : log[m] # None => log'[m] = log[m]
    BY <1>0, Zenon
  <2>2. \A a \in Answered : \E m \in Slot : log'[m] = a
    <3>1. \A a \in Answered : a # None
      BY Zenon DEF Answered, Req
    <3>2. QED
      BY <2>1, <3>1, Zenon DEF AnsweredInLog
  <2>3. QED
    BY <1>2, <2>2, Zenon DEF AnsweredInLog
<1>8. RealTimeOrder'
  <2>. SUFFICES ASSUME NEW k \in Slot, NEW m \in Slot,
                       log'[k] # None, log'[m] # None, log'[k] \in before[log'[m]]
                PROVE  k < m
    BY Zenon DEF RealTimeOrder
  <2>1. CASE m = n
    <3>1. k # n
      <4>1. SUFFICES ASSUME k = n PROVE FALSE
        OBVIOUS
      <4>2. r \in Answered
        BY <2>1, <4>1, <1>0, Zenon DEF AnsweredInLog
      <4>3. QED
        BY <4>2, <1>0, <1>4, Zenon DEF AnsweredInLog
    <3>2. QED
      BY <2>1, <3>1, <1>0, <1>4, Zenon
  <2>2. CASE m # n /\ k = n
    <3>1. r \in Answered
      BY <2>2, <1>0 DEF AnsweredInLog
    <3>2. QED
      BY <3>1, <1>0, <1>4, Zenon DEF AnsweredInLog
  <2>3. CASE m # n /\ k # n
    BY <2>3, Zenon DEF RealTimeOrder
  <2>4. QED
    BY <2>1, <2>2, <2>3, Zenon
<1>9. QED
  BY <1>1, <1>3, <1>5, <1>6, <1>7, <1>8, Zenon

(* The request in hand has not been answered.                              *)
LEMMA HandPending ==
  ASSUME FlightInv, NEW t \in Server, busy[t] # None
  PROVE  busy[t] \in Req /\ outcome[busy[t]] = "pending"
<1>1. busy \in [Server -> Req \cup {None}] /\ InHand
  BY Zenon DEF FlightInv, ControlOK
<1>2. busy[t] \in Req
  BY <1>1
<1>3. outcome[busy[t]] = "pending"
  BY <1>1, Zenon DEF InHand
<1>4. QED
  BY <1>2, <1>3, Zenon

(* What is put forward is a request.                                       *)
LEMMA ProposalType ==
  ASSUME FlightInv, NEW p \in proposals
  PROVE  p[2] \in Req /\ p[2] # None
<1>1. proposals \subseteq Slot \X Req
  BY Zenon DEF FlightInv, ControlOK
<1>2. p[2] \in Req
  BY ONLY <1>1, p \in proposals
<1>3. QED
  BY <1>2, FlightAssumption, Zenon DEF Req

(* A server passes a slot that is decided, keeping its request in hand     *)
(* unless the slot holds it.                                               *)
LEMMA ApplyKeepsIInv ==
  ASSUME SameDecoded, FlightInv, NEW s \in Server, Apply(s)
  PROVE  FlightInv'
<1>. USE FlightAssumption DEF FlightInv, ControlOK
<1>. DEFINE n == currSlotNum[s]
            r == log[n]
<1>0. /\ n \in Slot /\ r \in Req /\ r # None /\ busy[s] # None /\ busy[s] \in Req
      /\ currSlotNum' = [currSlotNum EXCEPT ![s] = n + 1]
      /\ proposed' = [proposed EXCEPT ![s] = None]
      /\ UNCHANGED <<log, proposals, before, restarts>>
      /\ outcome[busy[s]] = "pending"
  <2>1. /\ busy[s] # None /\ n \in Slot /\ log[n] # None
        /\ currSlotNum' = [currSlotNum EXCEPT ![s] = n + 1]
        /\ proposed' = [proposed EXCEPT ![s] = None]
        /\ UNCHANGED <<log, proposals, before, restarts>>
    BY Zenon DEF Apply, NextSlot, Decided
  <2>2. log[n] \in Req
    BY <2>1, Zenon
  <2>3. busy[s] \in Req /\ outcome[busy[s]] = "pending"
    BY ONLY FlightInv, s \in Server, <2>1, HandPending, Zenon
  <2>4. QED
    BY ONLY <2>1, <2>2, <2>3, Zenon
<1>1. n + 1 \in 0 .. MaxSlot + 1
  BY <1>0 DEF Slot
<1>2. NoHoles'
  <2>1. \A m \in Slot : m < n + 1 => m < n \/ m = n
    BY <1>0 DEF Slot
  <2>2. QED
    BY <1>0, <1>1, <2>1, Zenon DEF NoHoles
<1>3. RealTimeOrder'
  BY <1>0, Zenon DEF RealTimeOrder
<1>4. CASE /\ r = busy[s]
           /\ busy' = [busy EXCEPT ![s] = None]
           /\ outcome' = [outcome EXCEPT ![r] = Executed(s, r).result]
  <2>. USE <1>0, <1>4
  <2>1. outcome'[r] \in {"ok", "reject"}
    BY ResultAnswers, Zenon
  <2>2. ControlOK'
    BY <1>1, <2>1, Zenon
  <2>3. Answered' = Answered \cup {r}
    BY <2>1, Zenon DEF Answered
  <2>4. InHand'
    <3>1. \A t \in Server : busy'[t] # None => t # s /\ busy'[t] = busy[t] /\ busy[t] # r
      BY Zenon DEF InHand
    <3>2. \A t \in Server : t # s => currSlotNum'[t] = currSlotNum[t] /\ proposed'[t] = proposed[t]
      OBVIOUS
    <3>3. \A t \in Server, p \in proposals : p[2] = busy'[t] => t # s /\ p[2] = busy[t]
      BY <3>1, Zenon DEF Req
    <3>4. \A t \in Server : busy'[t] # None => outcome'[busy'[t]] = "pending"
      <4>1. \A q \in Req : q # r => outcome'[q] = outcome[q]
        BY Zenon
      <4>2. \A t \in Server : busy[t] # None => busy[t] \in Req /\ outcome[busy[t]] = "pending"
        BY ONLY FlightInv, HandPending, Zenon
      <4>3. QED
        BY ONLY <3>1, <4>1, <4>2, Zenon
    <3>5. \A t \in Server : proposed'[t] # None => t # s /\ proposed'[t] = busy'[t]
      BY <3>2, Zenon DEF InHand
    <3>6. \A t, v \in Server : busy'[t] # None /\ busy'[t] = busy'[v] => t = v
      BY <3>1, Zenon DEF InHand
    <3>7. \A t \in Server, p \in proposals : p[2] = busy'[t] =>
            /\ p[1] <= currSlotNum'[t]
            /\ p[1] = currSlotNum'[t] => proposed'[t] # None
            /\ p[1] < currSlotNum'[t] => log'[p[1]] # busy'[t]
      <4>1. SUFFICES ASSUME NEW t \in Server, NEW p \in proposals, p[2] = busy'[t]
                     PROVE  /\ p[1] <= currSlotNum'[t]
                            /\ p[1] = currSlotNum'[t] => proposed'[t] # None
                            /\ p[1] < currSlotNum'[t] => log'[p[1]] # busy'[t]
        BY Zenon
      <4>2. t # s /\ p[2] = busy[t] /\ busy'[t] = busy[t]
        BY <3>3, <4>1, Zenon
      <4>3. currSlotNum'[t] = currSlotNum[t] /\ proposed'[t] = proposed[t]
        BY <3>2, <4>2, Zenon
      <4>4. QED
        BY <4>2, <4>3, Zenon DEF InHand
    <3>8. QED
      BY <3>4, <3>5, <3>6, <3>7, Zenon DEF InHand
  <2>5. LostBefore'
    BY <2>1 DEF LostBefore
  <2>6. AnsweredInLog'
    BY <2>3, Zenon DEF AnsweredInLog
  <2>7. QED
    BY <1>2, <1>3, <2>2, <2>4, <2>5, <2>6, Zenon
<1>5. CASE r # busy[s] /\ UNCHANGED <<busy, outcome>>
  <2>. USE <1>0, <1>5
  <2>1. ControlOK'
    BY <1>1, Zenon
  <2>2. Answered' = Answered
    BY Zenon DEF Answered
  <2>3. InHand'
    BY <1>1 DEF InHand, Slot
  <2>4. LostBefore'
    BY Zenon DEF LostBefore
  <2>5. AnsweredInLog'
    BY <2>2, Zenon DEF AnsweredInLog
  <2>6. QED
    BY <1>2, <1>3, <2>1, <2>3, <2>4, <2>5, Zenon
<1>6. ~ Copied(s)
  BY Zenon DEF Copied
<1>7. QED
  BY <1>4, <1>5, <1>6, Zenon DEF Apply

(* A restart loses the request in hand, which was never answered.          *)
LEMMA RestartKeepsIInv ==
  ASSUME FlightInv, NEW s \in Server, Restart(s)
  PROVE  FlightInv'
<1>. USE FlightAssumption DEF Restart, FlightInv, ControlOK
<1>0. /\ None \notin Req
      /\ \A q \in Req : q = busy[s] => outcome[q] = "pending"
      /\ \A q \in Req : outcome'[q] = IF q = busy[s] THEN "unknown" ELSE outcome[q]
  <2>1. None \notin Req
    BY Zenon DEF Req
  <2>2. \A q \in Req : q = busy[s] => outcome[q] = "pending"
    BY ONLY FlightInv, s \in Server, <2>1, HandPending, Zenon
  <2>3. QED
    BY <2>1, <2>2, Zenon
<1>1. ControlOK'
  BY <1>0
<1>2. Answered' = Answered
  BY <1>0, Zenon DEF Answered
<1>3. NoHoles'
  <2>1. \A t \in Server, n \in Slot : n < currSlotNum'[t] => n < currSlotNum[t]
    BY DEF Slot
  <2>2. QED
    BY <2>1, Zenon DEF NoHoles
<1>4. InHand'
  <2>1. \A t \in Server : busy'[t] # None => t # s /\ busy'[t] = busy[t] /\ busy[t] # busy[s]
    BY Zenon DEF InHand
  <2>2. \A t \in Server : busy'[t] # None => outcome'[busy'[t]] = "pending"
    <3>1. \A t \in Server : busy[t] # None => busy[t] \in Req /\ outcome[busy[t]] = "pending"
      BY ONLY FlightInv, HandPending, Zenon
    <3>2. QED
      BY ONLY <1>0, <2>1, <3>1, Zenon
  <2>3. \A t \in Server : proposed'[t] # None => proposed'[t] = busy'[t]
    BY Zenon DEF InHand
  <2>4. \A t, v \in Server : busy'[t] # None /\ busy'[t] = busy'[v] => t = v
    BY <2>1, Zenon DEF InHand
  <2>5. \A t \in Server, p \in proposals : p[2] = busy'[t] =>
          /\ p[1] <= currSlotNum'[t]
          /\ p[1] = currSlotNum'[t] => proposed'[t] # None
          /\ p[1] < currSlotNum'[t] => log'[p[1]] # busy'[t]
    <3>1. SUFFICES ASSUME NEW t \in Server, NEW p \in proposals, p[2] = busy'[t]
                   PROVE  /\ p[1] <= currSlotNum'[t]
                          /\ p[1] = currSlotNum'[t] => proposed'[t] # None
                          /\ p[1] < currSlotNum'[t] => log'[p[1]] # busy'[t]
      BY Zenon
    <3>2. busy'[t] # None
      BY ONLY FlightInv, <3>1, ProposalType, Zenon
    <3>3. t # s /\ p[2] = busy[t] /\ busy'[t] = busy[t]
      BY <2>1, <3>1, <3>2, Zenon
    <3>4. currSlotNum'[t] = currSlotNum[t] /\ proposed'[t] = proposed[t]
      BY <3>3, Zenon
    <3>5. QED
      BY <3>3, <3>4, Zenon DEF InHand
  <2>6. QED
    BY <2>2, <2>3, <2>4, <2>5, Zenon DEF InHand
<1>5. LostBefore'
  BY <1>0, Zenon DEF LostBefore
<1>6. AnsweredInLog'
  BY <1>2, Zenon DEF AnsweredInLog
<1>7. RealTimeOrder'
  BY Zenon DEF RealTimeOrder
<1>8. QED
  BY <1>1, <1>3, <1>4, <1>5, <1>6, <1>7, Zenon

(* Every step of a server or of Paxos preserves the invariant, where a     *)
(* decoded request is == to the original.                                  *)
LEMMA NextKeepsIInv ==
  ASSUME SameDecoded, FlightInv, [FlightNext]_flightVars
  PROVE  FlightInv'
<1>1. CASE UNCHANGED flightVars
  <2>1. /\ log' = log /\ proposed' = proposed /\ proposals' = proposals
        /\ currSlotNum' = currSlotNum /\ busy' = busy /\ outcome' = outcome
        /\ before' = before /\ restarts' = restarts
    BY <1>1, Zenon DEF flightVars, replicaVars
  <2>2. ControlOK' /\ NoHoles'
    BY <2>1, Zenon DEF FlightInv, ControlOK, NoHoles
  <2>3. InHand' /\ LostBefore'
    BY <2>1, Zenon DEF FlightInv, InHand, LostBefore
  <2>4. AnsweredInLog' /\ RealTimeOrder'
    BY <2>1, Zenon DEF FlightInv, AnsweredInLog, Answered, RealTimeOrder
  <2>5. QED
    BY <2>2, <2>3, <2>4, Zenon DEF FlightInv
<1>2. ASSUME NEW s \in Server, Refuse(s) PROVE FlightInv'
  <2>1. proposed' = [proposed EXCEPT ![s] = None]
    BY <1>2, Zenon DEF Refuse, NotStarted, FlightInv, ControlOK
  <2>2. QED
    BY <1>2, <2>1, GiveUpKeepsIInv, Zenon DEF Refuse, NotStarted, replicaVars
<1>3. ASSUME NEW s \in Server, LockedAfterStart(s) PROVE FlightInv'
  BY <1>3, GiveUpKeepsIInv, Zenon DEF LockedAfterStart, replicaVars
<1>4. QED
  BY <1>1, <1>2, <1>3, BeginKeepsIInv, StartKeepsIInv, ChooseKeepsIInv, ApplyKeepsIInv,
     RestartKeepsIInv DEF FlightNext

(* The invariant of the airline servers.                                   *)
THEOREM Invariant == ASSUME SameDecoded PROVE FlightSpec => []FlightInv
<1>1. QED
  BY InitFlightInv, NextKeepsIInv, PTL DEF FlightSpec

(* However many servers compete for slots and restart, every request is    *)
(* executed at most once.                                                  *)
THEOREM AtMostOnce == ASSUME SameDecoded PROVE FlightSpec => []ExecutedOnce
<1>1. FlightInv => ExecutedOnce
  <2>. SUFFICES ASSUME FlightInv, NEW m \in Slot, NEW n \in Slot,
                       log[m] # None, log[m] = log[n], m < n
                PROVE  FALSE
    BY DEF ExecutedOnce, Slot
  <2>1. PICK p \in proposals : p = <<m, log[m]>>
    BY Zenon DEF FlightInv, NoHoles
  <2>2. PICK q \in proposals : q = <<n, log[m]>>
    BY Zenon DEF FlightInv, NoHoles
  <2>3. p[1] = m /\ p[2] = log[m] /\ q[1] = n /\ q[2] = log[m]
    BY <2>1, <2>2, Zenon
  <2>4. QED
    BY <2>3, Zenon DEF FlightInv, LostBefore
<1>2. QED
  BY <1>1, Invariant, PTL

(* The log of the airline servers respects the real-time order of requests *)
(* and answers.                                                            *)
THEOREM RealTime == ASSUME SameDecoded PROVE FlightSpec => []RealTimeOrder
<1>1. FlightInv => RealTimeOrder
  BY Zenon DEF FlightInv
<1>2. QED
  BY <1>1, Invariant, PTL

(* A request refused for locked peers is never executed, and one that was  *)
(* answered is in the log.                                                 *)
THEOREM Refusals == ASSUME SameDecoded PROVE FlightSpec => []RefusedNeverExecuted
<1>1. FlightInv => RefusedNeverExecuted
  <2>. SUFFICES ASSUME FlightInv PROVE RefusedNeverExecuted
    OBVIOUS
  <2>1. ASSUME NEW n \in Slot, log[n] # None PROVE outcome[log[n]] # "refused"
    <3>1. PICK p \in proposals : p = <<n, log[n]>>
      BY <2>1, Zenon DEF FlightInv, NoHoles
    <3>2. p[1] = n /\ p[2] = log[n]
      BY <3>1, Zenon
    <3>3. QED
      BY <3>2, Zenon DEF FlightInv, LostBefore
  <2>2. QED
    BY <2>1, Zenon DEF FlightInv, AnsweredInLog, RefusedNeverExecuted
<1>2. QED
  BY <1>1, Invariant, PTL

-----------------------------------------------------------------------------
(* Replicas.  A server's state is what executing the slots before its own, *)
(* in order, gives: F[n] is the state after the slots below n.             *)

State(s) == [flights |-> flightStatus[s], reservations |-> reservedFlights[s]]

Blank == [flights |-> NoFlights, reservations |-> NoReservations]

After(r, st) ==
  LET e == Execute(Request[r], st.flights, st.reservations)
  IN  [flights |-> e.flights, reservations |-> e.reservations]

IsReplay(F) ==
  /\ F[0] = Blank
  /\ \A n \in Slot : log[n] # None => F[n + 1] = After(log[n], F[n])
  /\ \A s \in Server : State(s) = F[currSlotNum[s]]

Replayed ==
  /\ DOMAIN flightStatus = Server /\ DOMAIN reservedFlights = Server
  /\ \E F : IsReplay(F)

(* Before any slot is decided all servers are blank.                       *)
LEMMA InitReplayed == FlightInit => Replayed
<1>. SUFFICES ASSUME FlightInit PROVE Replayed
  OBVIOUS
<1>1. IsReplay([n \in {0} |-> Blank])
  BY Zenon DEF FlightInit, IsReplay, State, Blank
<1>2. QED
  BY <1>1, Zenon DEF Replayed, FlightInit

(* A decided slot adds one state to the replay, and no server is past it.  *)
LEMMA ChooseReplayed ==
  ASSUME FlightInv, Replayed, NEW k \in Slot, NEW r \in Req, Choose(k, r)
  PROVE  Replayed'
<1>1. PICK F : IsReplay(F)
  BY Zenon DEF Replayed
<1>. DEFINE G == [n \in 0 .. MaxSlot + 1 |-> IF n = k + 1 THEN After(r, F[k]) ELSE F[n]]
<1>2. k \in 0 .. MaxSlot /\ k + 1 \in 0 .. MaxSlot + 1 /\ MaxSlot \in Nat
  BY FlightAssumption DEF Slot
<1>3. log[k] = None /\ log' = [log EXCEPT ![k] = r] /\ log \in [Slot -> Req \cup {None}]
  BY Zenon DEF Choose, FlightInv, ControlOK
<1>4. \A n \in Slot : log[n] # None => n < k
  <2>. SUFFICES ASSUME NEW n \in Slot, log[n] # None, k < n PROVE FALSE
    BY <1>2, <1>3 DEF Slot
  <2>1. <<n, log[n]>> \in proposals /\ <<n, log[n]>>[1] = n
    BY Zenon DEF FlightInv, NoHoles
  <2>2. QED
    BY <1>3, <2>1, Zenon DEF FlightInv, NoHoles
<1>5. \A s \in Server : currSlotNum[s] \in 0 .. MaxSlot + 1 /\ currSlotNum[s] <= k
  BY <1>2, <1>3 DEF FlightInv, ControlOK, NoHoles
<1>6. G[0] = Blank
  BY <1>1, <1>2 DEF IsReplay
<1>7. ASSUME NEW n \in Slot, log'[n] # None PROVE G[n + 1] = After(log'[n], G[n])
  <2>1. CASE n = k
    <3>1. G[n + 1] = After(r, F[k]) /\ G[n] = F[k] /\ log'[n] = r
      BY <2>1, <1>2, <1>3
    <3>2. QED
      BY <3>1, <2>1, Zenon
  <2>2. CASE n # k
    <3>1. log'[n] = log[n] /\ n < k /\ n \in 0 .. MaxSlot
      BY <2>2, <1>3, <1>4, <1>7, Zenon DEF Slot
    <3>2. G[n + 1] = F[n + 1] /\ G[n] = F[n]
      BY <3>1, <1>2
    <3>3. QED
      BY <3>1, <3>2, <1>1, <1>7, Zenon DEF IsReplay
  <2>3. QED
    BY <2>1, <2>2, Zenon
<1>8. ASSUME NEW s \in Server PROVE State(s)' = G[currSlotNum'[s]]
  <2>1. State(s)' = State(s) /\ currSlotNum' = currSlotNum
    BY Zenon DEF Choose, replicaVars, State
  <2>2. G[currSlotNum[s]] = F[currSlotNum[s]]
    BY <1>2, <1>5
  <2>3. QED
    BY <2>1, <2>2, <1>1, Zenon DEF IsReplay
<1>9. IsReplay(G)'
  BY <1>6, <1>7, <1>8, Zenon DEF IsReplay
<1>10. QED
  BY <1>9, Zenon DEF Replayed, Choose, replicaVars

(* A server that executes a slot moves one state along the replay.         *)
LEMMA ApplyReplayed ==
  ASSUME FlightInv, Replayed, NEW s \in Server, Apply(s)
  PROVE  Replayed'
<1>1. PICK F : IsReplay(F)
  BY Zenon DEF Replayed
<1>2. PICK n \in Slot : n = currSlotNum[s] /\ log[n] # None
  BY Zenon DEF Apply, Decided
<1>3. /\ log' = log /\ currSlotNum' = [currSlotNum EXCEPT ![s] = n + 1]
      /\ flightStatus' = [flightStatus EXCEPT ![s] = Executed(s, log[n]).flights]
      /\ reservedFlights' = [reservedFlights EXCEPT ![s] = Executed(s, log[n]).reservations]
      /\ currSlotNum \in [Server -> 0 .. MaxSlot + 1]
  BY <1>2, Zenon DEF Apply, NextSlot, FlightInv, ControlOK
<1>4. State(s)' = After(log[n], State(s))
  BY <1>3, Zenon DEF State, After, Executed, Replayed
<1>5. State(s)' = F[currSlotNum'[s]]
  BY <1>1, <1>2, <1>3, <1>4, Zenon DEF IsReplay
<1>6. ASSUME NEW t \in Server, t # s PROVE State(t)' = F[currSlotNum'[t]]
  BY <1>1, <1>3, <1>6, Zenon DEF IsReplay, State, Replayed
<1>7. IsReplay(F)'
  BY <1>1, <1>3, <1>5, <1>6, Zenon DEF IsReplay
<1>8. QED
  BY <1>3, <1>7, Zenon DEF Replayed

(* A restarted server is at the start of the replay.                       *)
LEMMA RestartReplayed ==
  ASSUME FlightInv, Replayed, NEW s \in Server, Restart(s)
  PROVE  Replayed'
<1>1. PICK F : IsReplay(F)
  BY DEF Replayed
<1>2. currSlotNum \in [Server -> 0 .. MaxSlot + 1]
  BY Zenon DEF FlightInv, ControlOK
<1>3. State(s)' = F[currSlotNum'[s]]
  BY <1>1, <1>2, Zenon DEF Restart, State, Blank, IsReplay, Replayed
<1>4. ASSUME NEW t \in Server, t # s PROVE State(t)' = F[currSlotNum'[t]]
  BY <1>1, <1>2, <1>4, Zenon DEF Restart, IsReplay, State, Replayed
<1>5. IsReplay(F)'
  BY <1>1, <1>3, <1>4, Zenon DEF IsReplay, Restart
<1>6. QED
  BY <1>5, Zenon DEF Replayed, Restart

(* Servers that have executed the same slots hold the same flights and     *)
(* reservations, for any operations and any restarts.                      *)
THEOREM Replicas == ASSUME SameDecoded PROVE FlightSpec => []ReplicasAgree
<1>1. ASSUME FlightInv, Replayed, [FlightNext]_flightVars PROVE Replayed'
  <2>1. ASSUME UNCHANGED <<log, replicaVars>> PROVE Replayed'
    BY <1>1, <2>1, Zenon DEF Replayed, IsReplay, State, replicaVars
  <2>2. ASSUME NEW s \in Server,
               Start(s) \/ Refuse(s) \/ LockedAfterStart(s) \/ \E r \in Req : Begin(s, r)
        PROVE  Replayed'
    BY <2>1, <2>2, Zenon DEF Start, Refuse, LockedAfterStart, Begin
  <2>3. CASE UNCHANGED flightVars
    BY <2>1, <2>3, Zenon DEF flightVars
  <2>4. QED
    BY <1>1, <2>2, <2>3, ChooseReplayed, ApplyReplayed, RestartReplayed, Zenon DEF FlightNext
<1>2. ASSUME Replayed PROVE ReplicasAgree
  <2>1. PICK F : IsReplay(F)
    BY <1>2, Zenon DEF Replayed
  <2>2. ASSUME NEW s \in Server, NEW t \in Server, currSlotNum[s] = currSlotNum[t]
        PROVE  flightStatus[s] = flightStatus[t] /\ reservedFlights[s] = reservedFlights[t]
    <3>1. State(s) = State(t)
      BY <2>1, <2>2, Zenon DEF IsReplay
    <3>2. QED
      BY <3>1, Zenon DEF State
  <2>3. QED
    BY <2>2, Zenon DEF ReplicasAgree
<1>3. QED
  BY <1>1, <1>2, InitReplayed, Invariant, PTL DEF FlightSpec

-----------------------------------------------------------------------------
(* Seats and canceled flights.  What a server holds after the slots it has *)
(* executed: the seats of a flight that was never canceled and is not      *)
(* there are not sold; every reservation comes from a ReserveTicket of its *)
(* user; and a flight that is there was added after it was last canceled.  *)

ReplicaOK(s) ==
  /\ reservedFlights[s] \in [User -> Seq(Flight)]
  /\ DOMAIN flightStatus[s] \subseteq Flight
  /\ \A f \in DOMAIN flightStatus[s] : flightStatus[s][f] \in Int

(* Some slot that s has executed does this to the flight.                  *)
Did(s, type, f) == \E n \in Passed(s) : Does(n, type, f)

Unsold(s) ==
  \A f \in Flight :
    f \notin DOMAIN flightStatus[s] /\ ~ Did(s, "CancelFlight", f) =>
      Seats(reservedFlights[s], f) = {}

(* Offer n of the flight is what its seats add up to.                      *)
AddsUp(s, n, f) ==
  /\ Does(n, "AddFlight", f)
  /\ flightStatus[s][f] + SeatsSold(s, f) = Request[log[n]].tickets
  /\ Request[log[n]].tickets >= 0 => flightStatus[s][f] >= 0

Sold(s) ==
  \A f \in DOMAIN flightStatus[s] :
    ~ Did(s, "EditFlight", f) /\ ~ Did(s, "CancelFlight", f) =>
      \E n \in Passed(s) : AddsUp(s, n, f)

FiniteSeats(s) == \A f \in Flight : IsFiniteSet(Seats(reservedFlights[s], f))

ReservedBy(s) ==
  \A u \in User : \A i \in DOMAIN reservedFlights[s][u] :
    \E k \in Passed(s) : /\ Does(k, "ReserveTicket", reservedFlights[s][u][i])
                         /\ Request[log[k]].user = u

AddedSince(s) ==
  \A f \in DOMAIN flightStatus[s] : \A n \in Passed(s) :
    Does(n, "CancelFlight", f) => \E j \in Passed(s) : n < j /\ Does(j, "AddFlight", f)

Kept(s) ==
  ReplicaOK(s) /\ FiniteSeats(s) /\ Unsold(s) /\ Sold(s) /\ ReservedBy(s) /\ AddedSince(s)

ReplicaInv ==
  /\ DOMAIN flightStatus = Server /\ DOMAIN reservedFlights = Server
  /\ \A s \in Server : Kept(s)

(* A server at the start or after a restart.                               *)
IsBlank(s) == flightStatus[s] = NoFlights /\ reservedFlights[s] = NoReservations

BlanksKept == \A s \in Server : IsBlank(s) => Kept(s)

(* A blank server has sold nothing.                                        *)
LEMMA BlankKept == BlanksKept
<1>. SUFFICES ASSUME NEW s \in Server, IsBlank(s) PROVE Kept(s)
  BY Zenon DEF BlanksKept
<1>1. DOMAIN flightStatus[s] = {} /\ \A u \in User : reservedFlights[s][u] = <<>>
  BY Zenon DEF IsBlank, NoFlights, NoReservations
<1>2. <<>> \in Seq(Flight) /\ DOMAIN <<>> = {}
  OBVIOUS
<1>3. ReplicaOK(s)
  BY <1>1, <1>2, Zenon DEF IsBlank, ReplicaOK, NoReservations
<1>4. \A f : Seats(reservedFlights[s], f) = {}
  BY <1>1, <1>2, Zenon DEF Seats
<1>5. FiniteSeats(s)
  BY <1>4, FS_EmptySet, Zenon DEF FiniteSeats
<1>6. Unsold(s) /\ Sold(s) /\ ReservedBy(s) /\ AddedSince(s)
  BY <1>1, <1>2, <1>4, Zenon DEF Unsold, Sold, ReservedBy, AddedSince
<1>7. QED
  BY <1>3, <1>5, <1>6, Zenon DEF Kept

(* A server keeps what it holds when neither it nor the log of the slots   *)
(* it has executed changes.                                                *)
LEMMA SameKept ==
  ASSUME NEW s, Kept(s),
         flightStatus'[s] = flightStatus[s], reservedFlights'[s] = reservedFlights[s],
         currSlotNum'[s] = currSlotNum[s], \A n \in Passed(s) : log'[n] = log[n]
  PROVE  Kept(s)'
<1>1. Passed(s)' = Passed(s)
  BY Zenon DEF Passed
<1>2. \A n \in Passed(s) : \A type, f : Does(n, type, f)' <=> Does(n, type, f)
  BY Zenon DEF Does
<1>3. \A type, f : Did(s, type, f)' <=> Did(s, type, f)
  BY <1>1, <1>2, Zenon DEF Did
<1>4. ReplicaOK(s)' /\ FiniteSeats(s)'
  BY Zenon DEF Kept, ReplicaOK, FiniteSeats
<1>5. Unsold(s)'
  BY <1>3, Zenon DEF Kept, Unsold
<1>6. \A n \in Passed(s) : \A f : AddsUp(s, n, f) => AddsUp(s, n, f)'
  BY <1>2, Zenon DEF AddsUp, SeatsSold
<1>7. Sold(s)'
  BY <1>1, <1>3, <1>6, Zenon DEF Kept, Sold
<1>8. ReservedBy(s)'
  <2>. SUFFICES ASSUME NEW u \in User, NEW i \in DOMAIN reservedFlights[s][u]
                PROVE  \E k \in Passed(s)' : /\ Does(k, "ReserveTicket", reservedFlights[s][u][i])'
                                             /\ Request[log'[k]].user = u
    BY Zenon DEF ReservedBy
  <2>1. PICK k \in Passed(s) : /\ Does(k, "ReserveTicket", reservedFlights[s][u][i])
                               /\ Request[log[k]].user = u
    BY Zenon DEF Kept, ReservedBy
  <2>2. Does(k, "ReserveTicket", reservedFlights[s][u][i])'
    BY <2>1, Zenon DEF Does
  <2>3. QED
    BY <1>1, <2>1, <2>2, Zenon
<1>9. AddedSince(s)'
  BY <1>1, <1>2, Zenon DEF Kept, AddedSince
<1>10. QED
  BY <1>4, <1>5, <1>7, <1>8, <1>9, Zenon DEF Kept

(* User u reserves a seat of flight f: the reservations, and the seat.     *)
Taken(rs, u, f) == [rs EXCEPT ![u] = Append(@, f)]

NewSeat(rs, u) == <<u, Len(rs[u]) + 1>>

Reservations == [User -> Seq(Flight)]

(* A reservation takes one seat of its flight and none of the others.      *)
LEMMA SeatTaken ==
  ASSUME NEW rs \in Reservations, NEW u \in User, NEW f \in Flight
  PROVE  /\ Taken(rs, u, f) \in Reservations
         /\ Seats(Taken(rs, u, f), f) = Seats(rs, f) \cup {NewSeat(rs, u)}
         /\ NewSeat(rs, u) \notin Seats(rs, f)
         /\ \A g \in Flight : g # f => Seats(Taken(rs, u, f), g) = Seats(rs, g)
<1>. DEFINE rs2 == Taken(rs, u, f)
            seat == NewSeat(rs, u)
<1>1. /\ \A v \in User : v # u => rs2[v] = rs[v]
      /\ rs2[u] = Append(rs[u], f) /\ rs[u] \in Seq(Flight)
  BY DEF Taken, Reservations
<1>2. /\ DOMAIN rs[u] = 1 .. Len(rs[u]) /\ Len(rs[u]) \in Nat
      /\ DOMAIN rs2[u] = DOMAIN rs[u] \cup {Len(rs[u]) + 1}
      /\ Len(rs[u]) + 1 \notin DOMAIN rs[u]
      /\ \A j \in DOMAIN rs[u] : rs2[u][j] = rs[u][j]
      /\ rs2[u][Len(rs[u]) + 1] = f
  <2>1. PICK l, l2 : l = rs[u] /\ l2 = rs2[u] /\ l \in Seq(Flight) /\ l2 = Append(l, f)
    BY <1>1, Zenon
  <2>2. /\ DOMAIN l = 1 .. Len(l) /\ Len(l) \in Nat
        /\ DOMAIN l2 = DOMAIN l \cup {Len(l) + 1} /\ Len(l) + 1 \notin DOMAIN l
        /\ \A j \in DOMAIN l : l2[j] = l[j]
        /\ l2[Len(l) + 1] = f
    BY ONLY <2>1, f \in Flight
  <2>3. QED
    BY ONLY <2>1, <2>2, Zenon
<1>3. rs2 \in Reservations
  BY DEF Taken, Reservations
<1>s. seat = <<u, Len(rs[u]) + 1>>
  BY Zenon DEF NewSeat
<1>. HIDE DEF rs2, seat
<1>4. ASSUME NEW r, NEW g, NEW p
      PROVE  /\ p \in Seats(r, g) =>
                  \E v \in User : \E i \in DOMAIN r[v] : r[v][i] = g /\ p = <<v, i>>
             /\ \A v \in User : \A i \in DOMAIN r[v] :
                  r[v][i] = g /\ p = <<v, i>> => p \in Seats(r, g)
  BY DEF Seats
<1>5. \A v, w, i, j : <<v, i>> = <<w, j>> => v = w /\ i = j
  OBVIOUS
<1>6. \A g, p : p \in Seats(rs2, g) <=> p \in Seats(rs, g) \/ (g = f /\ p = seat)
  <2>. TAKE g, p
  <2>1. ASSUME p \in Seats(rs2, g) PROVE p \in Seats(rs, g) \/ (g = f /\ p = seat)
    <3>1. PICK v \in User : \E i \in DOMAIN rs2[v] : rs2[v][i] = g /\ p = <<v, i>>
      BY <1>4, <2>1
    <3>2. PICK i \in DOMAIN rs2[v] : rs2[v][i] = g /\ p = <<v, i>>
      BY <3>1, Zenon
    <3>3. CASE v # u
      BY <1>1, <1>4, <3>2, <3>3, Zenon
    <3>4. CASE v = u /\ i \in DOMAIN rs[u]
      BY <1>2, <1>4, <3>2, <3>4, Zenon
    <3>5. CASE v = u /\ i = Len(rs[u]) + 1
      BY <1>2, <1>s, <3>2, <3>5, Zenon
    <3>6. QED
      BY <1>2, <3>2, <3>3, <3>4, <3>5, Zenon
  <2>2. ASSUME p \in Seats(rs, g) PROVE p \in Seats(rs2, g)
    <3>1. PICK v \in User : \E i \in DOMAIN rs[v] : rs[v][i] = g /\ p = <<v, i>>
      BY <1>4, <2>2
    <3>2. \A i \in DOMAIN rs[v] : i \in DOMAIN rs2[v] /\ rs2[v][i] = rs[v][i]
      BY <1>1, <1>2, Zenon
    <3>3. QED
      BY <1>4, <3>1, <3>2
  <2>3. ASSUME g = f, p = seat PROVE p \in Seats(rs2, g)
    BY <1>2, <1>4, <1>s, <2>3, Zenon
  <2>4. QED
    BY <2>1, <2>2, <2>3, Zenon
<1>7. seat \notin Seats(rs, f)
  BY <1>2, <1>4, <1>5, <1>s
<1>8. Seats(rs2, f) = Seats(rs, f) \cup {seat}
  <2>1. \A p : p \in Seats(rs2, f) <=> p \in Seats(rs, f) \cup {seat}
    BY <1>6, Zenon
  <2>2. QED
    BY <2>1, Zenon
<1>9. ASSUME NEW g \in Flight, g # f PROVE Seats(rs2, g) = Seats(rs, g)
  <2>1. \A p : p \in Seats(rs2, g) <=> p \in Seats(rs, g)
    BY <1>6, <1>9, Zenon
  <2>2. QED
    BY <2>1, Zenon
<1>10. QED
  BY <1>3, <1>7, <1>8, <1>9, Zenon DEF rs2, seat

(* Server s executes slot n, the first one it has not passed.              *)
Executes(s, n) ==
  /\ n \in Nat /\ log[n] \in Req /\ log' = log
  /\ Passed(s)' = Passed(s) \cup {n} /\ \A k \in Passed(s) : k < n

(* What has been done by then.                                             *)
LEMMA DidNow ==
  ASSUME NEW s, NEW n, Executes(s, n), NEW type, NEW f
  PROVE  /\ \A k : Does(k, type, f)' <=> Does(k, type, f)
         /\ Did(s, type, f)' <=> Did(s, type, f) \/ Does(n, type, f)
<1>1. \A k : Does(k, type, f)' <=> Does(k, type, f)
  BY Zenon DEF Executes, Does
<1>2. QED
  BY <1>1, Zenon DEF Did, Executes

(* An operation that changes no reservation keeps the invariant: it leaves *)
(* a flight as it was, edits it, adds it or removes it by canceling it.    *)
LEMMA FlightsKept ==
  ASSUME NEW s, NEW n, Kept(s), Executes(s, n),
         reservedFlights'[s] = reservedFlights[s],
         DOMAIN flightStatus'[s] \subseteq Flight,
         \A f \in DOMAIN flightStatus'[s] : flightStatus'[s][f] \in Int,
         \A f \in DOMAIN flightStatus'[s] :
           /\ ~ Does(n, "CancelFlight", f)
           /\ \/ /\ f \in DOMAIN flightStatus[s]
                 /\ flightStatus'[s][f] = flightStatus[s][f] \/ Does(n, "EditFlight", f)
              \/ /\ f \notin DOMAIN flightStatus[s] /\ Does(n, "AddFlight", f)
                 /\ flightStatus'[s][f] = Request[log[n]].tickets,
         \A f \in DOMAIN flightStatus[s] :
           f \in DOMAIN flightStatus'[s] \/ Does(n, "CancelFlight", f)
  PROVE  Kept(s)'
<1>1. /\ ReplicaOK(s) /\ FiniteSeats(s) /\ Unsold(s) /\ Sold(s) /\ ReservedBy(s) /\ AddedSince(s)
      /\ n \in Passed(s)' /\ \A k \in Passed(s) : k \in Passed(s)' /\ k < n
      /\ \A k \in Passed(s)' : k \in Passed(s) \/ k = n
  BY Zenon DEF Kept, Executes
<1>2. ReplicaOK(s)' /\ FiniteSeats(s)'
  BY <1>1, Zenon DEF ReplicaOK, FiniteSeats
<1>3. Unsold(s)'
  BY <1>1, DidNow, Zenon DEF Unsold
<1>4. Sold(s)'
  <2>. SUFFICES ASSUME NEW f \in DOMAIN flightStatus'[s],
                       ~ Did(s, "EditFlight", f)', ~ Did(s, "CancelFlight", f)'
                PROVE  \E k \in Passed(s)' : AddsUp(s, k, f)'
    BY Zenon DEF Sold
  <2>1. ~ Did(s, "EditFlight", f) /\ ~ Did(s, "CancelFlight", f) /\ ~ Does(n, "EditFlight", f)
    BY DidNow, Zenon
  <2>2. CASE f \in DOMAIN flightStatus[s]
    <3>1. PICK k \in Passed(s) : AddsUp(s, k, f)
      BY <1>1, <2>1, <2>2, Zenon DEF Sold
    <3>2. flightStatus'[s][f] = flightStatus[s][f]
      BY <2>1, <2>2, Zenon
    <3>3. Does(k, "AddFlight", f)' /\ log' = log
      BY <3>1, DidNow, Zenon DEF AddsUp, Executes
    <3>4. AddsUp(s, k, f)'
      BY <3>1, <3>2, <3>3, Zenon DEF AddsUp, SeatsSold
    <3>5. QED
      BY <1>1, <3>4, Zenon
  <2>3. CASE f \notin DOMAIN flightStatus[s]
    <3>1. /\ flightStatus'[s][f] = Request[log[n]].tickets /\ Does(n, "AddFlight", f)'
          /\ log' = log /\ f \in Flight
      BY <2>3, DidNow, Zenon DEF Executes
    <3>2. Seats(reservedFlights'[s], f) = {}
      BY <1>1, <2>1, <2>3, <3>1, Zenon DEF Unsold
    <3>3. SeatsSold(s, f)' = 0
      BY <3>2, FS_EmptySet, Zenon DEF SeatsSold
    <3>4. Request[log[n]].tickets \in Int
      BY RequestAssumption, Zenon DEF Executes, Req
    <3>5. Request[log[n]].tickets + 0 = Request[log[n]].tickets
      BY ONLY <3>4
    <3>6. AddsUp(s, n, f)'
      BY <3>1, <3>3, <3>5, Zenon DEF AddsUp
    <3>7. QED
      BY <1>1, <3>6, Zenon
  <2>4. QED
    BY <2>2, <2>3, Zenon
<1>5. ReservedBy(s)'
  <2>1. \A k \in Passed(s) : \A f : Does(k, "ReserveTicket", f) => Does(k, "ReserveTicket", f)'
    BY DidNow, Zenon
  <2>2. log' = log
    BY Zenon DEF Executes
  <2>3. QED
    BY <1>1, <2>1, <2>2 DEF ReservedBy
<1>6. AddedSince(s)'
  <2>. SUFFICES ASSUME NEW f \in DOMAIN flightStatus'[s], NEW k \in Passed(s)',
                       Does(k, "CancelFlight", f)'
                PROVE  \E j \in Passed(s)' : k < j /\ Does(j, "AddFlight", f)'
    BY Zenon DEF AddedSince
  <2>1. k \in Passed(s) /\ Does(k, "CancelFlight", f)
    BY <1>1, DidNow, Zenon
  <2>2. CASE f \in DOMAIN flightStatus[s]
    BY <1>1, <2>1, <2>2, DidNow, Zenon DEF AddedSince
  <2>3. CASE f \notin DOMAIN flightStatus[s]
    BY <1>1, <2>1, <2>3, DidNow, Zenon
  <2>4. QED
    BY <2>2, <2>3, Zenon
<1>7. QED
  BY <1>2, <1>3, <1>4, <1>5, <1>6, Zenon DEF Kept

(* So does a reservation, which takes a seat that was left.                *)
LEMMA ReservationKept ==
  ASSUME NEW s, NEW n, Kept(s), Executes(s, n),
         NEW u \in User, NEW f \in Flight, Does(n, "ReserveTicket", f), Request[log[n]].user = u,
         f \in DOMAIN flightStatus[s], flightStatus[s][f] > 0,
         flightStatus'[s] = [flightStatus[s] EXCEPT ![f] = @ - 1],
         reservedFlights'[s] = Taken(reservedFlights[s], u, f)
  PROVE  Kept(s)'
<1>1. /\ ReplicaOK(s) /\ FiniteSeats(s) /\ Unsold(s) /\ Sold(s) /\ ReservedBy(s) /\ AddedSince(s)
      /\ n \in Passed(s)' /\ \A k \in Passed(s) : k \in Passed(s)' /\ k < n
      /\ \A k \in Passed(s)' : k \in Passed(s) \/ k = n
  BY Zenon DEF Kept, Executes
<1>2. PICK seat : seat = NewSeat(reservedFlights[s], u)
  BY Zenon
<1>3. /\ reservedFlights'[s] \in [User -> Seq(Flight)]
      /\ Seats(reservedFlights'[s], f) = Seats(reservedFlights[s], f) \cup {seat}
      /\ seat \notin Seats(reservedFlights[s], f)
      /\ \A g \in Flight : g # f => Seats(reservedFlights'[s], g) = Seats(reservedFlights[s], g)
  <2>1. PICK rs \in Reservations : rs = reservedFlights[s]
    BY <1>1, Zenon DEF ReplicaOK, Reservations
  <2>2. /\ Taken(rs, u, f) \in Reservations
        /\ Seats(Taken(rs, u, f), f) = Seats(rs, f) \cup {NewSeat(rs, u)}
        /\ NewSeat(rs, u) \notin Seats(rs, f)
        /\ \A g \in Flight : g # f => Seats(Taken(rs, u, f), g) = Seats(rs, g)
    BY ONLY u \in User, f \in Flight, SeatTaken, Zenon
  <2>3. reservedFlights'[s] = Taken(rs, u, f) /\ seat = NewSeat(rs, u)
    BY <1>2, <2>1, Zenon
  <2>4. QED
    BY <2>1, <2>2, <2>3, Zenon DEF Reservations
<1>4. /\ DOMAIN flightStatus'[s] = DOMAIN flightStatus[s]
      /\ \A g \in DOMAIN flightStatus[s] : g # f => flightStatus'[s][g] = flightStatus[s][g]
      /\ flightStatus'[s][f] = flightStatus[s][f] - 1
  BY Zenon
<1>5. ReplicaOK(s)'
  <2>1. flightStatus[s][f] \in Int
    BY <1>1, Zenon DEF ReplicaOK
  <2>2. flightStatus[s][f] - 1 \in Int
    BY ONLY <2>1
  <2>3. QED
    BY <1>1, <1>3, <1>4, <2>2, Zenon DEF ReplicaOK
<1>6. FiniteSeats(s)'
  <2>1. IsFiniteSet(Seats(reservedFlights[s], f) \cup {seat})
    BY <1>1, FS_AddElement, Zenon DEF FiniteSeats
  <2>2. \A g \in Flight : g = f \/ Seats(reservedFlights'[s], g) = Seats(reservedFlights[s], g)
    BY <1>3, Zenon
  <2>3. QED
    BY <1>1, <1>3, <2>1, <2>2, Zenon DEF FiniteSeats
<1>7. Unsold(s)'
  BY <1>1, <1>3, <1>4, DidNow, Zenon DEF Unsold
<1>8. Sold(s)'
  <2>. SUFFICES ASSUME NEW g \in DOMAIN flightStatus'[s],
                       ~ Did(s, "EditFlight", g)', ~ Did(s, "CancelFlight", g)'
                PROVE  \E k \in Passed(s)' : AddsUp(s, k, g)'
    BY Zenon DEF Sold
  <2>1. PICK k \in Passed(s) : AddsUp(s, k, g)
    BY <1>1, <1>4, DidNow, Zenon DEF Sold
  <2>2. Does(k, "AddFlight", g)' /\ log' = log
    BY <2>1, DidNow, Zenon DEF AddsUp, Executes
  <2>3. CASE g # f
    <3>1. flightStatus'[s][g] = flightStatus[s][g] /\ SeatsSold(s, g)' = SeatsSold(s, g)
      BY <1>1, <1>3, <1>4, <2>3, Zenon DEF SeatsSold, ReplicaOK
    <3>2. AddsUp(s, k, g)'
      BY <2>1, <2>2, <3>1, Zenon DEF AddsUp
    <3>3. QED
      BY <1>1, <3>2, Zenon
  <2>4. CASE g = f
    <3>1. SeatsSold(s, f)' = SeatsSold(s, f) + 1 /\ SeatsSold(s, f) \in Nat
      BY <1>1, <1>3, FS_AddElement, FS_CardinalityType, Zenon DEF FiniteSeats, SeatsSold
    <3>2. /\ flightStatus[s][f] \in Int /\ flightStatus[s][f] > 0
          /\ flightStatus'[s][f] = flightStatus[s][f] - 1
      BY <1>1, <1>4, Zenon DEF ReplicaOK
    <3>3. /\ flightStatus'[s][f] + SeatsSold(s, f)' = flightStatus[s][f] + SeatsSold(s, f)
          /\ flightStatus'[s][f] >= 0
      BY ONLY <3>1, <3>2
    <3>4. AddsUp(s, k, f)'
      BY <2>1, <2>2, <2>4, <3>3, Zenon DEF AddsUp
    <3>5. QED
      BY <1>1, <2>4, <3>4, Zenon
  <2>5. QED
    BY <2>3, <2>4, Zenon
<1>9. ReservedBy(s)'
  <2>. SUFFICES ASSUME NEW v \in User, NEW i \in DOMAIN reservedFlights'[s][v]
                PROVE  \E k \in Passed(s)' :
                         /\ Does(k, "ReserveTicket", reservedFlights[s][v][i])'
                         /\ Request[log'[k]].user = v
    BY Zenon DEF ReservedBy
  <2>1. \/ /\ i \in DOMAIN reservedFlights[s][v]
           /\ reservedFlights'[s][v][i] = reservedFlights[s][v][i]
        \/ v = u /\ reservedFlights'[s][v][i] = f
    <3>1. reservedFlights[s][v] \in Seq(Flight) /\ reservedFlights[s] \in [User -> Seq(Flight)]
      BY <1>1, Zenon DEF ReplicaOK
    <3>2. CASE v # u
      BY <3>1, <3>2, Zenon DEF Taken
    <3>3. CASE v = u
      <4>1. reservedFlights'[s][v] = Append(reservedFlights[s][v], f)
        BY <3>1, <3>3, Zenon DEF Taken
      <4>2. /\ reservedFlights'[s][v] = Append(reservedFlights[s][v], f)
            /\ reservedFlights[s][v] \in Seq(Flight) /\ i \in DOMAIN reservedFlights'[s][v]
        BY <3>1, <4>1, Zenon
      <4>3. \/ /\ i \in DOMAIN reservedFlights[s][v]
               /\ reservedFlights'[s][v][i] = reservedFlights[s][v][i]
            \/ reservedFlights'[s][v][i] = f
        BY ONLY <4>2
      <4>4. QED
        BY <3>3, <4>3, Zenon
    <3>4. QED
      BY <3>2, <3>3, Zenon
  <2>2. PICK k \in Passed(s)' : /\ Does(k, "ReserveTicket", reservedFlights'[s][v][i])
                                /\ Request[log[k]].user = v
    BY <1>1, <2>1, Zenon DEF ReservedBy
  <2>3. log' = log
    BY Zenon DEF Executes
  <2>4. QED
    BY <2>2, <2>3, Zenon DEF Does
<1>10. AddedSince(s)'
  <2>1. \A g : ~ Does(n, "CancelFlight", g)
    BY Zenon DEF Does
  <2>2. QED
    BY <1>1, <1>4, <2>1, DidNow, Zenon DEF AddedSince
<1>11. QED
  BY <1>5, <1>6, <1>7, <1>8, <1>9, <1>10, Zenon DEF Kept

(* What an operation may do to the flights and reservations.               *)
ChangesNothing(op, fl, rs, e) ==
  /\ e.flights = fl /\ e.reservations = rs
  /\ op.type = "CancelFlight" => op.flight \notin DOMAIN fl

Reserves(op, fl, rs, e) ==
  /\ op.type = "ReserveTicket" /\ Available(fl, op.flight)
  /\ e.flights = Reserved(fl, op.flight) /\ e.reservations = Taken(rs, op.user, op.flight)

Adds(op, fl, rs, e) ==
  /\ op.type = "AddFlight" /\ op.flight \notin DOMAIN fl /\ e.reservations = rs
  /\ DOMAIN e.flights = DOMAIN fl \cup {op.flight} /\ e.flights[op.flight] = op.tickets
  /\ \A f \in DOMAIN fl : e.flights[f] = fl[f]

Cancels(op, fl, rs, e) ==
  /\ op.type = "CancelFlight" /\ op.flight \in DOMAIN fl /\ e.reservations = rs
  /\ DOMAIN e.flights = DOMAIN fl \ {op.flight}
  /\ \A f \in DOMAIN e.flights : e.flights[f] = fl[f]

Edits(op, fl, rs, e) ==
  /\ op.type = "EditFlight" /\ op.flight \in DOMAIN fl /\ e.reservations = rs
  /\ DOMAIN e.flights = DOMAIN fl /\ e.flights[op.flight] = op.tickets
  /\ \A f \in DOMAIN fl : f # op.flight => e.flights[f] = fl[f]

(* It does one of these.                                                   *)
LEMMA Effects ==
  ASSUME NEW op, NEW fl, NEW rs, NEW e, e = Execute(op, fl, rs)
  PROVE  \/ ChangesNothing(op, fl, rs, e) \/ Reserves(op, fl, rs, e)
         \/ Adds(op, fl, rs, e) \/ Cancels(op, fl, rs, e) \/ Edits(op, fl, rs, e)
<1>1. CASE op.type = "ReserveTicket"
  <2>1. e = reserveTicketHelper(op, fl, rs)
    BY <1>1, Zenon DEF Execute
  <2>2. QED
    BY ONLY <1>1, <2>1 DEF reserveTicketHelper, Done, Taken, ChangesNothing, Reserves
<1>2. CASE op.type = "AddFlight"
  <2>1. e = addFlightHelper(op, fl, rs)
    BY <1>2 DEF Execute
  <2>2. QED
    BY <1>2, <2>1 DEF addFlightHelper, Done, ChangesNothing, Adds
<1>3. CASE op.type = "CancelFlight"
  <2>1. e = cancelFlightHelper(op, fl, rs)
    BY <1>3 DEF Execute
  <2>2. QED
    BY <1>3, <2>1 DEF cancelFlightHelper, Done, ChangesNothing, Cancels
<1>4. CASE op.type = "EditFlight"
  <2>1. e = editFlightHelper(op, fl, rs)
    BY <1>4 DEF Execute
  <2>2. QED
    BY <1>4, <2>1 DEF editFlightHelper, Done, ChangesNothing, Edits
<1>5. CASE op.type \notin {"ReserveTicket", "AddFlight", "CancelFlight", "EditFlight"}
  BY <1>5, Zenon DEF Execute, Done, ChangesNothing
<1>6. QED
  BY <1>1, <1>2, <1>3, <1>4, <1>5, Zenon

(* A server that executes a slot keeps the invariant.                      *)
LEMMA ApplyKept ==
  ASSUME FlightInv, ReplicaInv, NEW s \in Server, Apply(s)
  PROVE  Kept(s)'
<1>1. PICK n \in Slot : n = currSlotNum[s] /\ log[n] # None
  BY Zenon DEF Apply, Decided
<1>2. n \in Nat /\ log[n] \in Req /\ log' = log /\ currSlotNum'[s] = n + 1
  <2>1. n \in Nat
    BY FlightAssumption DEF Slot
  <2>2. QED
    BY <1>1, <2>1, Zenon DEF Apply, NextSlot, FlightInv, ControlOK
<1>3. Passed(s) = 0 .. n - 1 /\ Passed(s)' = 0 .. (n + 1) - 1
  BY <1>1, <1>2, Zenon DEF Passed
<1>4. Executes(s, n)
  BY <1>2, <1>3 DEF Executes
<1>5. PICK e : e = Execute(Request[log[n]], flightStatus[s], reservedFlights[s])
  BY Zenon
<1>6. flightStatus'[s] = e.flights /\ reservedFlights'[s] = e.reservations
  BY <1>1, <1>5, Zenon DEF Apply, Executed, ReplicaInv
<1>7. PICK op : op = Request[log[n]]
  BY Zenon
<1>8. /\ op.flight \in Flight /\ op.tickets \in Int
      /\ op.type = "ReserveTicket" => op.user \in User
  BY <1>2, <1>7, RequestAssumption, Zenon DEF Req
<1>9. \A type, f : Does(n, type, f) <=> op.type = type /\ op.flight = f
  BY <1>7, Zenon DEF Does
<1>10. Kept(s) /\ ReplicaOK(s)
  BY Zenon DEF ReplicaInv, Kept
<1>11. CASE ChangesNothing(op, flightStatus[s], reservedFlights[s], e)
  BY <1>4, <1>6, <1>9, <1>10, <1>11, FlightsKept, Zenon DEF ReplicaOK, ChangesNothing
<1>12. CASE Reserves(op, flightStatus[s], reservedFlights[s], e)
  <2>1. /\ Does(n, "ReserveTicket", op.flight) /\ Request[log[n]].user = op.user
        /\ op.user \in User /\ op.flight \in Flight
        /\ op.flight \in DOMAIN flightStatus[s] /\ flightStatus[s][op.flight] > 0
        /\ flightStatus'[s] = [flightStatus[s] EXCEPT ![op.flight] = @ - 1]
        /\ reservedFlights'[s] = Taken(reservedFlights[s], op.user, op.flight)
    BY <1>6, <1>7, <1>8, <1>9, <1>12, Zenon DEF Reserves, Available, Reserved
  <2>2. QED
    BY <1>4, <1>10, <2>1, ReservationKept, Zenon
<1>13. CASE Adds(op, flightStatus[s], reservedFlights[s], e)
  <2>1. /\ op.type = "AddFlight" /\ op.flight \notin DOMAIN flightStatus[s]
        /\ reservedFlights'[s] = reservedFlights[s]
        /\ DOMAIN flightStatus'[s] = DOMAIN flightStatus[s] \cup {op.flight}
        /\ flightStatus'[s][op.flight] = op.tickets
        /\ \A f \in DOMAIN flightStatus[s] : flightStatus'[s][f] = flightStatus[s][f]
    BY <1>6, <1>13, Zenon DEF Adds
  <2>2. DOMAIN flightStatus'[s] \subseteq Flight
    BY <1>8, <1>10, <2>1, Zenon DEF ReplicaOK
  <2>3. \A f \in DOMAIN flightStatus'[s] : flightStatus'[s][f] \in Int
    BY <1>8, <1>10, <2>1, Zenon DEF ReplicaOK
  <2>4. \A f \in DOMAIN flightStatus'[s] :
          /\ ~ Does(n, "CancelFlight", f)
          /\ \/ /\ f \in DOMAIN flightStatus[s]
                /\ flightStatus'[s][f] = flightStatus[s][f] \/ Does(n, "EditFlight", f)
             \/ /\ f \notin DOMAIN flightStatus[s] /\ Does(n, "AddFlight", f)
                /\ flightStatus'[s][f] = Request[log[n]].tickets
    <3>1. \A f \in DOMAIN flightStatus'[s] : ~ Does(n, "CancelFlight", f)
      <4>1. op.type = "AddFlight"
        BY <2>1, Zenon
      <4>2. op.type # "CancelFlight"
        BY ONLY <4>1
      <4>3. QED
        BY ONLY <1>9, <4>2, Zenon
    <3>2. Does(n, "AddFlight", op.flight) /\ flightStatus'[s][op.flight] = Request[log[n]].tickets
      BY <1>7, <1>9, <2>1, Zenon
    <3>3. \A f \in DOMAIN flightStatus'[s] : f \in DOMAIN flightStatus[s] \/ f = op.flight
      BY <2>1, Zenon
    <3>4. ASSUME NEW f \in DOMAIN flightStatus'[s]
          PROVE  \/ /\ f \in DOMAIN flightStatus[s]
                    /\ flightStatus'[s][f] = flightStatus[s][f] \/ Does(n, "EditFlight", f)
                 \/ /\ f \notin DOMAIN flightStatus[s] /\ Does(n, "AddFlight", f)
                    /\ flightStatus'[s][f] = Request[log[n]].tickets
      <4>1. CASE f \in DOMAIN flightStatus[s]
        BY <2>1, <4>1, Zenon
      <4>2. CASE f = op.flight
        BY <2>1, <3>2, <4>2, Zenon
      <4>3. QED
        BY <3>3, <3>4, <4>1, <4>2, Zenon
    <3>5. QED
      BY ONLY <3>1, <3>4, Zenon
  <2>5. \A f \in DOMAIN flightStatus[s] :
          f \in DOMAIN flightStatus'[s] \/ Does(n, "CancelFlight", f)
    BY <1>9, <2>1, Zenon
  <2>6. QED
    BY <1>4, <1>10, <2>1, <2>2, <2>3, <2>4, <2>5, FlightsKept, Zenon
<1>14. CASE Cancels(op, flightStatus[s], reservedFlights[s], e)
  <2>1. /\ op.type = "CancelFlight" /\ op.flight \in DOMAIN flightStatus[s]
        /\ reservedFlights'[s] = reservedFlights[s]
        /\ DOMAIN flightStatus'[s] = DOMAIN flightStatus[s] \ {op.flight}
        /\ \A f \in DOMAIN flightStatus'[s] : flightStatus'[s][f] = flightStatus[s][f]
    BY <1>6, <1>14, Zenon DEF Cancels
  <2>2. DOMAIN flightStatus'[s] \subseteq Flight
    BY <1>8, <1>10, <2>1, Zenon DEF ReplicaOK
  <2>3. \A f \in DOMAIN flightStatus'[s] : flightStatus'[s][f] \in Int
    BY <1>8, <1>10, <2>1, Zenon DEF ReplicaOK
  <2>4. \A f \in DOMAIN flightStatus'[s] :
          /\ ~ Does(n, "CancelFlight", f)
          /\ \/ /\ f \in DOMAIN flightStatus[s]
                /\ flightStatus'[s][f] = flightStatus[s][f] \/ Does(n, "EditFlight", f)
             \/ /\ f \notin DOMAIN flightStatus[s] /\ Does(n, "AddFlight", f)
                /\ flightStatus'[s][f] = Request[log[n]].tickets
    BY <1>7, <1>9, <2>1, Zenon
  <2>5. \A f \in DOMAIN flightStatus[s] :
          f \in DOMAIN flightStatus'[s] \/ Does(n, "CancelFlight", f)
    BY <1>9, <2>1, Zenon
  <2>6. QED
    BY <1>4, <1>10, <2>1, <2>2, <2>3, <2>4, <2>5, FlightsKept, Zenon
<1>15. CASE Edits(op, flightStatus[s], reservedFlights[s], e)
  <2>1. /\ op.type = "EditFlight" /\ op.flight \in DOMAIN flightStatus[s]
        /\ reservedFlights'[s] = reservedFlights[s]
        /\ DOMAIN flightStatus'[s] = DOMAIN flightStatus[s]
        /\ flightStatus'[s][op.flight] = op.tickets
        /\ \A f \in DOMAIN flightStatus[s] : f # op.flight => flightStatus'[s][f] = flightStatus[s][f]
    BY <1>6, <1>15, Zenon DEF Edits
  <2>2. DOMAIN flightStatus'[s] \subseteq Flight
    BY <1>8, <1>10, <2>1, Zenon DEF ReplicaOK
  <2>3. \A f \in DOMAIN flightStatus'[s] : flightStatus'[s][f] \in Int
    BY <1>8, <1>10, <2>1, Zenon DEF ReplicaOK
  <2>4. \A f \in DOMAIN flightStatus'[s] :
          /\ ~ Does(n, "CancelFlight", f)
          /\ \/ /\ f \in DOMAIN flightStatus[s]
                /\ flightStatus'[s][f] = flightStatus[s][f] \/ Does(n, "EditFlight", f)
             \/ /\ f \notin DOMAIN flightStatus[s] /\ Does(n, "AddFlight", f)
                /\ flightStatus'[s][f] = Request[log[n]].tickets
    <3>1. \A f \in DOMAIN flightStatus'[s] : ~ Does(n, "CancelFlight", f)
      <4>1. op.type = "EditFlight"
        BY <2>1, Zenon
      <4>2. op.type # "CancelFlight"
        BY ONLY <4>1
      <4>3. QED
        BY ONLY <1>9, <4>2, Zenon
    <3>2. Does(n, "EditFlight", op.flight)
      BY <1>9, <2>1, Zenon
    <3>3. ASSUME NEW f \in DOMAIN flightStatus'[s]
          PROVE  f \in DOMAIN flightStatus[s]
                 /\ (flightStatus'[s][f] = flightStatus[s][f] \/ Does(n, "EditFlight", f))
      <4>1. f \in DOMAIN flightStatus[s]
        BY <2>1, <3>3, Zenon
      <4>2. CASE f = op.flight
        BY <3>2, <4>1, <4>2, Zenon
      <4>3. CASE f # op.flight
        BY <2>1, <4>1, <4>3, Zenon
      <4>4. QED
        BY <4>2, <4>3, Zenon
    <3>4. QED
      BY ONLY <3>1, <3>3, Zenon
  <2>5. \A f \in DOMAIN flightStatus[s] :
          f \in DOMAIN flightStatus'[s] \/ Does(n, "CancelFlight", f)
    BY <1>9, <2>1, Zenon
  <2>6. QED
    BY <1>4, <1>10, <2>1, <2>2, <2>3, <2>4, <2>5, FlightsKept, Zenon
<1>16. QED
  BY <1>5, <1>7, <1>11, <1>12, <1>13, <1>14, <1>15, Effects, Zenon

(* What each server holds agrees with the slots it has executed, for any   *)
(* users, flights, requests and restarts.                                  *)
THEOREM ReplicaInvariant == ASSUME SameDecoded PROVE FlightSpec => []ReplicaInv
<1>1. ASSUME FlightInit PROVE ReplicaInv
  BY <1>1, BlankKept, Zenon DEF BlanksKept, FlightInit, IsBlank, ReplicaInv
<1>2. ASSUME FlightInv, ReplicaInv, [FlightNext]_flightVars PROVE ReplicaInv'
  <2>1. ASSUME UNCHANGED replicaVars, \A s \in Server : \A n \in Passed(s) : log'[n] = log[n]
        PROVE  ReplicaInv'
    BY <1>2, <2>1, SameKept, Zenon DEF ReplicaInv, replicaVars
  <2>2. ASSUME NEW s \in Server,
               Start(s) \/ Refuse(s) \/ LockedAfterStart(s) \/ \E r \in Req : Begin(s, r)
        PROVE  ReplicaInv'
    BY <2>1, <2>2, Zenon DEF Start, Refuse, LockedAfterStart, Begin
  <2>3. CASE UNCHANGED flightVars
    BY <2>1, <2>3, Zenon DEF flightVars
  <2>4. ASSUME NEW k \in Slot, NEW r \in Req, Choose(k, r) PROVE ReplicaInv'
    <3>1. log[k] = None /\ log' = [log EXCEPT ![k] = r] /\ DOMAIN log = Slot /\ UNCHANGED replicaVars
      BY <1>2, <2>4, Zenon DEF Choose, FlightInv, ControlOK
    <3>2. ASSUME NEW s \in Server, NEW n \in Passed(s) PROVE n \in Slot /\ log[n] # None
      <4>1. currSlotNum[s] \in 0 .. MaxSlot + 1 /\ MaxSlot \in Nat
        BY <1>2, FlightAssumption, Zenon DEF FlightInv, ControlOK
      <4>2. n \in Slot /\ n < currSlotNum[s]
        BY <4>1 DEF Passed, Slot
      <4>3. QED
        BY <1>2, <4>2, Zenon DEF FlightInv, NoHoles
    <3>3. QED
      BY <2>1, <3>1, <3>2, Zenon
  <2>5. ASSUME NEW s \in Server, Apply(s) PROVE ReplicaInv'
    <3>1. /\ DOMAIN flightStatus' = Server /\ DOMAIN reservedFlights' = Server /\ log' = log
          /\ \A t \in Server : t # s =>
               /\ flightStatus'[t] = flightStatus[t] /\ reservedFlights'[t] = reservedFlights[t]
               /\ currSlotNum'[t] = currSlotNum[t]
      BY <1>2, <2>5, Zenon DEF Apply, ReplicaInv, FlightInv, ControlOK
    <3>2. \A t \in Server : t # s => Kept(t)'
      BY <1>2, <3>1, SameKept, Zenon DEF ReplicaInv
    <3>3. QED
      BY <1>2, <2>5, <3>1, <3>2, ApplyKept, Zenon DEF ReplicaInv
  <2>6. ASSUME NEW s \in Server, Restart(s) PROVE ReplicaInv'
    <3>1. /\ DOMAIN flightStatus' = Server /\ DOMAIN reservedFlights' = Server /\ log' = log
          /\ \A t \in Server : t # s =>
               /\ flightStatus'[t] = flightStatus[t] /\ reservedFlights'[t] = reservedFlights[t]
               /\ currSlotNum'[t] = currSlotNum[t]
          /\ flightStatus'[s] = NoFlights /\ reservedFlights'[s] = NoReservations
      BY <1>2, <2>6, Zenon DEF Restart, ReplicaInv, FlightInv, ControlOK
    <3>2. \A t \in Server : t # s => Kept(t)'
      BY <1>2, <3>1, SameKept, Zenon DEF ReplicaInv
    <3>3. BlanksKept'
      BY BlankKept, PTL
    <3>4. QED
      BY <3>1, <3>2, <3>3, Zenon DEF BlanksKept, IsBlank, ReplicaInv
  <2>7. QED
    BY <1>2, <2>2, <2>3, <2>4, <2>5, <2>6, Zenon DEF FlightNext
<1>3. QED
  BY <1>1, <1>2, Invariant, PTL DEF FlightSpec

(* Seats are neither lost nor sold twice, whatever servers compete, fail   *)
(* and replay.                                                             *)
THEOREM SeatsSafe == ASSUME SameDecoded PROVE FlightSpec => []SeatsAddUp
<1>1. ASSUME ReplicaInv, NEW s \in Server, NEW f \in DOMAIN flightStatus[s],
             \A op \in History(s) : op.flight = f => op.type \notin {"EditFlight", "CancelFlight"}
      PROVE  \E op \in History(s) :
               /\ op.type = "AddFlight" /\ op.flight = f
               /\ flightStatus[s][f] + SeatsSold(s, f) = op.tickets
               /\ op.tickets >= 0 => flightStatus[s][f] >= 0
  <2>1. \A n \in Passed(s) : Request[log[n]] \in History(s)
    BY Zenon DEF History
  <2>2. ~ Did(s, "EditFlight", f) /\ ~ Did(s, "CancelFlight", f)
    BY <1>1, <2>1, Zenon DEF Did, Does
  <2>3. PICK n \in Passed(s) : AddsUp(s, n, f)
    BY <1>1, <2>2, Zenon DEF ReplicaInv, Kept, Sold
  <2>4. QED
    BY <2>1, <2>3, Zenon DEF AddsUp, Does
<1>2. ReplicaInv => SeatsAddUp
  BY <1>1, Zenon DEF SeatsAddUp
<1>3. QED
  BY <1>2, ReplicaInvariant, PTL

(* MyReservation returns what the user reserved and nothing that was       *)
(* canceled and not added again.                                           *)
THEOREM CanceledSafe == ASSUME SameDecoded PROVE FlightSpec => []CanceledNotReturned
<1>1. ASSUME FlightInv, ReplicaInv, NEW s \in Server, NEW u \in User,
             NEW i \in DOMAIN MyReservation(s, u)
      PROVE  StillReserved(s, u, MyReservation(s, u)[i])
  <2>. DEFINE f == MyReservation(s, u)[i]
              last == currSlotNum[s] - 1
  <2>1. /\ i \in DOMAIN reservedFlights[s][u] /\ f = reservedFlights[s][u][i]
        /\ f \in DOMAIN flightStatus[s]
    BY <1>1, Zenon DEF MyReservation
  <2>2. Passed(s) = 0 .. last /\ last \in Int
    BY <1>1 DEF Passed, FlightInv, ControlOK
  <2>. HIDE DEF f, last
  <2>k. ReservedBy(s) /\ AddedSince(s)
    BY <1>1, Zenon DEF ReplicaInv, Kept
  <2>3. PICK k \in Passed(s) : Does(k, "ReserveTicket", f) /\ Request[log[k]].user = u
    BY <2>1, <2>k, Zenon DEF ReservedBy
  <2>4. ASSUME NEW n \in k + 1 .. last, Does(n, "CancelFlight", f)
        PROVE  \E j \in n + 1 .. last : Does(j, "AddFlight", f)
    <3>1. n \in Passed(s) /\ n \in Int
      BY <2>2
    <3>2. PICK j \in Passed(s) : n < j /\ Does(j, "AddFlight", f)
      BY <2>1, <2>4, <2>k, <3>1, Zenon DEF AddedSince
    <3>3. j \in n + 1 .. last
      BY <2>2, <3>1, <3>2
    <3>4. QED
      BY <3>2, <3>3, Zenon
  <2>5. QED
    BY <2>2, <2>3, <2>4, Zenon DEF StillReserved, f, last
<1>2. FlightInv /\ ReplicaInv => CanceledNotReturned
  BY <1>1, Zenon DEF CanceledNotReturned
<1>3. QED
  BY <1>2, Invariant, ReplicaInvariant, PTL
=============================================================================
