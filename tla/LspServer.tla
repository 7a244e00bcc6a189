----------------------------- MODULE LspServer -----------------------------
(***************************************************************************)
(* The connections of an LSP server (lsp/server_impl.go): how they begin,  *)
(* get lost, are closed and are cleaned up, and what that does to the      *)
(* calls of Read and Close that wait.  One event handler owns the state,   *)
(* so each handler is one action; user calls and packets reach it in any   *)
(* order.  The sliding window is in LspStream: here pending counts the     *)
(* messages of unAckedMsgBuffer and writeBuffer of a connection, and an    *)
(* ack removes one of them or none.                                        *)
(*                                                                         *)
(* A map with entries that come and go is a function whose domain is the   *)
(* set of keys it has.  A nil dereference ends the process: it is recorded *)
(* in panicked, after which nothing happens.                               *)
(***************************************************************************)
EXTENDS Integers, FiniteSets

CONSTANTS Client,      \* addresses of clients
          EpochLimit,  \* params.EpochLimit
          MaxConn,     \* bound: connections
          MaxData,     \* bound: data messages a client sends
          MaxPending,  \* bound: messages of a connection not yet acked
          MaxReads     \* bound: calls of Read that wait at the same time

ASSUME LimitAssumption ==
  /\ EpochLimit \in Nat \ {0} /\ MaxConn \in Nat
  /\ MaxData \in Nat /\ MaxPending \in Nat /\ MaxReads \in Nat

VARIABLES
  alive,              \* clients whose packets still arrive
  connId,             \* s.connId
  hostportConnIdMap, connIdHostportMap, activeConn,
  readBuffer,         \* sequence numbers of the messages that wait for Read
  expectedSeqNum,
  pending,            \* unAckedMsgBuffer and writeBuffer
  idle,               \* s.currEpoch - latestActiveEpoch[c]
  deferedRead,        \* how many calls of Read wait
  deferedClose,       \* a call of Close waits
  connLostInClosing,
  running,            \* s.serverRunning
  panicked,           \* the handler that dereferenced nil, or "no"
  reported,           \* connections a Read was told to be lost
  dropped,            \* connections lost with pending messages during Close
  closeReply          \* what Close returned

connVars == <<connId, hostportConnIdMap, connIdHostportMap, activeConn, pending, idle>>
readVars == <<readBuffer, expectedSeqNum, deferedRead, reported>>
closeVars == <<deferedClose, connLostInClosing, running, closeReply, dropped>>
vars == <<alive, connVars, readVars, closeVars, panicked>>

ConnId == 1 .. MaxConn

(* A map without an entry.                                                 *)
Without(f, k) == [x \in DOMAIN f \ {k} |-> f[x]]

(* A map with an entry, new or overwritten.                                *)
With(f, k, v) == [x \in DOMAIN f \cup {k} |-> IF x = k THEN v ELSE f[x]]

NoEntries == [x \in {} |-> 0]

Init ==
  /\ alive = Client
  /\ connId = 0
  /\ hostportConnIdMap = NoEntries /\ connIdHostportMap = NoEntries
  /\ activeConn = {}
  /\ readBuffer = NoEntries /\ expectedSeqNum = NoEntries
  /\ pending = NoEntries /\ idle = NoEntries
  /\ deferedRead = 0 /\ deferedClose = FALSE /\ connLostInClosing = FALSE
  /\ running = TRUE /\ panicked = "no"
  /\ reported = {} /\ dropped = {} /\ closeReply = "none"

(* The event handler takes a request.                                      *)
Serving == running /\ panicked = "no"

(* The API lets nobody call the server after Close.                        *)
Open == Serving /\ ~deferedClose

Panic(handler) ==
  /\ panicked' = handler
  /\ UNCHANGED <<alive, connVars, readVars, closeVars>>

-----------------------------------------------------------------------------
(* Read.                                                                   *)

(* The front of the connection's read buffer is the expected message.      *)
Ready(buffers, c) ==
  /\ expectedSeqNum[c] \in buffers[c]
  /\ \A n \in buffers[c] : expectedSeqNum[c] <= n

ReadyIn(buffers) == {c \in DOMAIN buffers : Ready(buffers, c)}

(* Variant: a lost connection is reported before its messages are read.    *)
ReportableAny(buffers) == DOMAIN buffers \ activeConn

(* The lost connections a Read is told of, once no message is ready.       *)
Reportable(buffers) ==
  IF ReadyIn(buffers) = {} THEN DOMAIN buffers \ activeConn ELSE {}

(* handleRead with these read buffers while other calls wait: a message    *)
(* that is ready, of any connection; or else the news that a connection is *)
(* lost; or else the call waits.                                           *)
handleRead(buffers, waiting) ==
  \/ /\ \E c \in ReadyIn(buffers) :
          /\ readBuffer' = [buffers EXCEPT ![c] = @ \ {expectedSeqNum[c]}]
          /\ expectedSeqNum' = [expectedSeqNum EXCEPT ![c] = @ + 1]
     /\ deferedRead' = waiting
     /\ UNCHANGED reported
  \/ /\ \E c \in Reportable(buffers) :
          /\ readBuffer' = Without(buffers, c)
          /\ expectedSeqNum' = Without(expectedSeqNum, c)
          /\ reported' = reported \cup {c}
     /\ deferedRead' = waiting
  \/ /\ ReadyIn(buffers) = {} /\ Reportable(buffers) = {}
     /\ readBuffer' = buffers
     /\ deferedRead' = waiting + 1
     /\ UNCHANGED <<expectedSeqNum, reported>>

Read ==
  /\ Open /\ deferedRead < MaxReads
  /\ handleRead(readBuffer, deferedRead)
  /\ UNCHANGED <<alive, connVars, closeVars, panicked>>

-----------------------------------------------------------------------------
(* Packets of a client.                                                    *)

ReceiveConnect(h) ==
  LET c == connId + 1
  IN  /\ Open /\ h \in alive
      /\ h \notin DOMAIN hostportConnIdMap
      /\ c \in ConnId
      /\ connId' = c
      /\ hostportConnIdMap' = With(hostportConnIdMap, h, c)
      /\ connIdHostportMap' = With(connIdHostportMap, c, h)
      /\ readBuffer' = With(readBuffer, c, {})
      /\ expectedSeqNum' = With(expectedSeqNum, c, 1)
      /\ pending' = With(pending, c, 0)
      /\ idle' = With(idle, c, 0)
      /\ activeConn' = activeConn \cup {c}
      /\ UNCHANGED <<alive, deferedRead, reported, closeVars, panicked>>

(* An ack of a pending message (msgExist), or of none.  It makes the       *)
(* connection active again, also one that CloseConn has left behind.  With *)
(* the last pending message a closed connection is cleaned up; activeConn  *)
(* keeps it.                                                               *)
ReceiveAck(h, msgExist) ==
  LET c == hostportConnIdMap[h]
      left == IF msgExist THEN pending[c] - 1 ELSE pending[c]
  IN  /\ Serving /\ h \in alive
      /\ h \in DOMAIN hostportConnIdMap
      /\ msgExist => pending[c] > 0
      /\ IF msgExist /\ left = 0 /\ (c \notin activeConn \/ deferedClose)
         THEN /\ hostportConnIdMap' = Without(hostportConnIdMap, h)
              /\ connIdHostportMap' = Without(connIdHostportMap, c)
              /\ readBuffer' = Without(readBuffer, c)
              /\ expectedSeqNum' = Without(expectedSeqNum, c)
              /\ pending' = Without(pending, c)
              /\ idle' = Without(idle, c)
         ELSE /\ pending' = [pending EXCEPT ![c] = left]
              /\ idle' = With(idle, c, 0)
              /\ UNCHANGED <<hostportConnIdMap, connIdHostportMap, readBuffer, expectedSeqNum>>
      /\ UNCHANGED <<alive, connId, activeConn, deferedRead, reported, closeVars, panicked>>

(* Data wakes a call of Read if it is the message expected next.           *)
ReceiveData(h, n) ==
  LET c == hostportConnIdMap[h]
      buffers == [readBuffer EXCEPT ![c] = @ \cup {n}]
  IN  /\ Open /\ h \in alive
      /\ h \in DOMAIN hostportConnIdMap
      /\ c \in activeConn
      /\ idle' = With(idle, c, 0)
      /\ \/ /\ n < expectedSeqNum[c]
            /\ UNCHANGED readVars
         \/ /\ n >= expectedSeqNum[c]
            /\ ~(n = expectedSeqNum[c] /\ deferedRead > 0)
            /\ readBuffer' = buffers
            /\ UNCHANGED <<expectedSeqNum, deferedRead, reported>>
         \/ /\ n = expectedSeqNum[c] /\ deferedRead > 0
            /\ handleRead(buffers, deferedRead - 1)
      /\ UNCHANGED <<alive, connId, hostportConnIdMap, connIdHostportMap, activeConn, pending,
                     closeVars, panicked>>

Die(h) ==
  /\ Serving /\ h \in alive
  /\ alive' = alive \ {h}
  /\ UNCHANGED <<connVars, readVars, closeVars, panicked>>

-----------------------------------------------------------------------------
(* The user's other calls.                                                 *)

(* Write to a connection that is closed or lost only returns an error.     *)
handleWrite(c) ==
  /\ Open /\ c \in activeConn /\ c \in DOMAIN connIdHostportMap
  /\ pending[c] < MaxPending
  /\ pending' = [pending EXCEPT ![c] = @ + 1]
  /\ UNCHANGED <<alive, connId, hostportConnIdMap, connIdHostportMap, activeConn, idle,
                 readVars, closeVars, panicked>>

NothingPending(c) == pending[c] = 0

(* A Read that waits is to be woken, but the request is taken from the     *)
(* front of deferedClose, which is empty.  The address and the pending     *)
(* messages of the connection stay if there are any.                       *)
handleCloseConn(c) ==
  /\ Open /\ c \in activeConn
  /\ IF deferedRead > 0 THEN Panic("handleCloseConn") ELSE
       /\ IF NothingPending(c)
          THEN /\ pending' = Without(pending, c)
               /\ hostportConnIdMap' = Without(hostportConnIdMap, connIdHostportMap[c])
               /\ connIdHostportMap' = Without(connIdHostportMap, c)
          ELSE UNCHANGED <<pending, hostportConnIdMap, connIdHostportMap>>
       /\ readBuffer' = Without(readBuffer, c)
       /\ expectedSeqNum' = Without(expectedSeqNum, c)
       /\ idle' = Without(idle, c)
       /\ activeConn' = activeConn \ {c}
       /\ UNCHANGED <<alive, connId, deferedRead, reported, closeVars, panicked>>

(* The same slip with the calls of Read that wait.                         *)
handleClose ==
  /\ Open
  /\ IF deferedRead > 0 THEN Panic("handleClose") ELSE
       /\ IF \A c \in DOMAIN pending : pending[c] = 0
          THEN /\ closeReply' = "ok"
               /\ running' = FALSE
               /\ UNCHANGED deferedClose
          ELSE /\ deferedClose' = TRUE
               /\ UNCHANGED <<closeReply, running>>
       /\ UNCHANGED <<alive, connVars, readVars, connLostInClosing, dropped, panicked>>

-----------------------------------------------------------------------------
(* The epoch timer.                                                        *)

(* The connections that have been idle for too long by this epoch.         *)
Lost == {c \in DOMAIN idle : idle[c] + 1 >= EpochLimit}

StillActive == activeConn \ Lost

(* Variant: the addresses of the lost connections stay.                    *)
LostAddressNone == {}

LostAddress == {connIdHostportMap[c] : c \in Lost}

(* Variant: the epochs are not counted.                                    *)
AgedNot(c) == idle[c]

Aged(c) == idle[c] + 1

(* The lost connections, some of which answer a call of Read that waits,   *)
(* are gone but for the messages a Read may still want.                    *)
CleanUp(told) ==
  /\ activeConn' = StillActive
  /\ readBuffer' = [c \in DOMAIN readBuffer \ told |-> readBuffer[c]]
  /\ expectedSeqNum' = [c \in DOMAIN expectedSeqNum \ told |-> expectedSeqNum[c]]
  /\ deferedRead' = deferedRead - Cardinality(told)
  /\ reported' = reported \cup told
  /\ hostportConnIdMap' =
       [h \in DOMAIN hostportConnIdMap \ LostAddress |-> hostportConnIdMap[h]]
  /\ connIdHostportMap' = [c \in DOMAIN connIdHostportMap \ Lost |-> connIdHostportMap[c]]
  /\ pending' = [c \in DOMAIN pending \ Lost |-> pending[c]]
  /\ idle' = [c \in DOMAIN idle \ Lost |-> Aged(c)]

(* Variant: the loss of a connection is not noted for Close.               *)
LostWhileClosingNever == FALSE

LostWhileClosing == deferedClose /\ Lost # {}

(* Close returns when nothing is pending any more.                         *)
FinishClose ==
  /\ connLostInClosing' = (connLostInClosing \/ LostWhileClosing)
  /\ dropped' = IF deferedClose THEN dropped \cup {c \in Lost : pending[c] > 0} ELSE dropped
  /\ IF deferedClose /\ \A c \in DOMAIN pending \ Lost : pending[c] = 0
     THEN /\ closeReply' = IF connLostInClosing' THEN "error" ELSE "ok"
          /\ running' = FALSE
     ELSE UNCHANGED <<closeReply, running>>
  /\ UNCHANGED deferedClose

(* The map of idle connections is walked in any order: any of the lost     *)
(* connections without a message to read may answer a call that waits.     *)
Told(unread) ==
  {told \in SUBSET unread : \/ told = unread /\ Cardinality(told) <= deferedRead
                           \/ Cardinality(told) = deferedRead}

handleEpoch ==
  /\ Serving
  /\ IF \E c \in Lost : c \notin DOMAIN readBuffer THEN Panic("handleEpoch") ELSE
       /\ \E told \in Told(Lost \ ReadyIn(readBuffer)) : CleanUp(told)
       /\ FinishClose
       /\ UNCHANGED <<alive, connId, panicked>>

-----------------------------------------------------------------------------

Next ==
  \/ Read \/ handleClose \/ handleEpoch
  \/ \E h \in Client :
       \/ ReceiveConnect(h) \/ Die(h)
       \/ \E msgExist \in BOOLEAN : ReceiveAck(h, msgExist)
       \/ \E n \in 1 .. MaxData : ReceiveData(h, n)
  \/ \E c \in ConnId : handleWrite(c) \/ handleCloseConn(c)

Spec == Init /\ [][Next]_vars

(* The epoch timer fires as long as the server runs, and a client that is  *)
(* alive acks what is sent to it at every epoch.                           *)
Fairness == WF_vars(handleEpoch) /\ \A h \in Client : WF_vars(ReceiveAck(h, TRUE))

FairSpec == Spec /\ Fairness

-----------------------------------------------------------------------------

TypeOK ==
  /\ alive \subseteq Client /\ connId \in 0 .. MaxConn
  /\ DOMAIN hostportConnIdMap \subseteq Client
  /\ \A h \in DOMAIN hostportConnIdMap : hostportConnIdMap[h] \in ConnId
  /\ DOMAIN connIdHostportMap \subseteq ConnId
  /\ \A c \in DOMAIN connIdHostportMap : connIdHostportMap[c] \in Client
  /\ activeConn \subseteq ConnId
  /\ DOMAIN readBuffer = DOMAIN expectedSeqNum /\ DOMAIN readBuffer \subseteq ConnId
  /\ \A c \in DOMAIN readBuffer : readBuffer[c] \subseteq Nat /\ expectedSeqNum[c] \in Nat
  /\ \A c \in DOMAIN pending : pending[c] \in Nat
  /\ \A c \in DOMAIN idle : idle[c] \in Nat
  /\ deferedRead \in Nat
  /\ {deferedClose, connLostInClosing, running} \subseteq BOOLEAN
  /\ panicked \in {"no", "handleCloseConn", "handleClose", "handleEpoch"}
  /\ reported \subseteq ConnId /\ dropped \subseteq ConnId
  /\ closeReply \in {"none", "ok", "error"}

(* The maps describe the same connections: the two address maps are        *)
(* inverse, the buffers of unacked messages exist for exactly the          *)
(* connections with an address, and only these are watched for loss.       *)
(* Until Close is called an active connection has everything it needs and  *)
(* is watched.  A connection that is watched has a read buffer, which      *)
(* handleEpoch dereferences when it is lost, unless it was closed by       *)
(* CloseConn with messages pending and an ack came later.                  *)
MapsAgree ==
  /\ TypeOK
  /\ \A h \in DOMAIN hostportConnIdMap :
       /\ hostportConnIdMap[h] \in DOMAIN connIdHostportMap
       /\ connIdHostportMap[hostportConnIdMap[h]] = h
  /\ \A c \in DOMAIN connIdHostportMap :
       /\ connIdHostportMap[c] \in DOMAIN hostportConnIdMap
       /\ hostportConnIdMap[connIdHostportMap[c]] = c
  /\ DOMAIN pending = DOMAIN connIdHostportMap
  /\ DOMAIN idle \subseteq DOMAIN connIdHostportMap
  /\ ~deferedClose =>
       activeConn \subseteq DOMAIN idle \cap DOMAIN readBuffer \cap DOMAIN connIdHostportMap
  /\ \A c \in DOMAIN idle :
       c \notin DOMAIN readBuffer => c \notin activeConn /\ pending[c] > 0

(* A Read is told that a connection is lost only when none of its messages *)
(* is ready: loss never overtakes data.                                    *)
DataBeforeLoss ==
  [][\A c \in reported' \ reported : c \notin ReadyIn(readBuffer)]_vars

(* Close returns without an error only if every message that was pending   *)
(* when it was called, or before on a connection not lost, has been acked. *)
CloseOkMeansAcked ==
  closeReply = "ok" => dropped = {} /\ \A c \in DOMAIN pending : pending[c] = 0

Stopped == panicked # "no" \/ closeReply # "none"

(* Close returns, also when clients die, if every pending message belongs  *)
(* to a connection that has not been closed before.                        *)
CloseReturnsForActive ==
  deferedClose /\ DOMAIN pending \subseteq activeConn ~> Stopped
=============================================================================
