----------------------------- MODULE LspClient -----------------------------
(***************************************************************************)
(* The goroutines of an LSP client (lsp/client_impl.go): the event         *)
(* handler, the epoch timer (epoch_timer.go), the network handler          *)
(* (network.go) and the user's calls, which meet on channels.  requestc is *)
(* buffered and blocks its senders when it is full; closeSignal, of which  *)
(* the timer and the network handler have one each, is not buffered: to    *)
(* shut down, the event handler waits until they take it.                  *)
(*                                                                         *)
(* Messages are counted: pending ones are those of unAckedMsgBuffer and    *)
(* writeBuffer, the connection request among them; readable ones are those *)
(* a Read can return.  LspStream has the rest.  The server's goroutines    *)
(* and shutDown are the same.                                              *)
(***************************************************************************)
EXTENDS Integers, Sequences, FiniteSets

CONSTANTS Capacity,    \* of requestc: 100 in the code
          EpochLimit,  \* params.EpochLimit
          MaxPackets,  \* bound: packets the network handler receives
          MaxPending,  \* bound: messages not yet acked
          EpochLag     \* bound: epochs not yet handled when the next one fires

ASSUME ClientAssumption ==
  Capacity \in Nat \ {0} /\ EpochLimit \in Nat \ {0} /\ EpochLag \in Nat

VARIABLES
  requestc,        \* kinds of the requests in the channel
  handler,         \* where the event handler is
  timer, net,      \* where the epoch timer and the network handler are
  call,            \* where the user's calls are
  deferedRead, deferedClose,
  connected,       \* c.connId > 0
  connLost,
  connLostSignal,  \* the buffer of that channel is full
  idle,            \* c.currEpoch - c.latestActiveEpoch
  pending, readable,
  packets          \* packets still to come

channelVars == <<requestc, timer, net, packets>>
deferVars == <<deferedRead, deferedClose>>
connVars == <<connected, connLost, connLostSignal, idle, pending, readable>>
vars == <<handler, call, channelVars, deferVars, connVars>>

Packet == {"ack", "data", "other"}

Init ==
  /\ requestc = <<>>
  /\ handler = "loop" /\ timer = "wait" /\ net = "read"
  /\ call = [new |-> "calling", read |-> "out", write |-> "out", close |-> "out"]
  /\ deferedRead = FALSE /\ deferedClose = FALSE
  /\ connected = FALSE /\ connLost = FALSE /\ connLostSignal = FALSE
  /\ idle = 0 /\ pending = 0 /\ readable = 0
  /\ packets = MaxPackets

-----------------------------------------------------------------------------
(* The other goroutines.  doRequest first sends the request.               *)

HasRoom == Len(requestc) < Capacity

Submit(op, request) ==
  /\ call[op] = "calling" /\ HasRoom
  /\ requestc' = Append(requestc, request)
  /\ call' = [call EXCEPT ![op] = "queued"]
  /\ UNCHANGED <<handler, timer, net, packets, deferVars, connVars>>

(* The API lets nobody call the client after Close.                        *)
Call(op) ==
  /\ call.new = "ok" /\ call.close = "out" /\ call[op] = "out"
  /\ op = "write" => pending < MaxPending
  /\ call' = [call EXCEPT ![op] = "calling"]
  /\ UNCHANGED <<handler, channelVars, deferVars, connVars>>

(* NewClient has sent its connection request and waits for either signal.  *)
NewClientReturns ==
  /\ call.new = "select"
  /\ \/ connected /\ call' = [call EXCEPT !.new = "ok"] /\ UNCHANGED connLostSignal
     \/ /\ connLostSignal /\ connLostSignal' = FALSE
        /\ call' = [call EXCEPT !.new = "error"]
  /\ UNCHANGED <<handler, channelVars, deferVars, connected, connLost, idle, pending, readable>>

(* The epochs the event handler has not finished with.                     *)
Lag ==
  Cardinality({i \in DOMAIN requestc : requestc[i] = "epoch"})
    + IF handler = "loop" THEN 0 ELSE 1

EpochFires ==
  /\ timer = "wait" /\ Lag <= EpochLag
  /\ timer' = "send"
  /\ UNCHANGED <<handler, call, requestc, net, packets, deferVars, connVars>>

EpochSends ==
  /\ timer = "send" /\ HasRoom
  /\ requestc' = Append(requestc, "epoch")
  /\ timer' = "wait"
  /\ UNCHANGED <<handler, call, net, packets, deferVars, connVars>>

(* The socket is closed before the network handler is told.                *)
SocketOpen == handler \notin {"closeNet", "closeTimer"}

PacketArrives(p) ==
  /\ net = "read" /\ SocketOpen /\ packets > 0
  /\ net' = p
  /\ packets' = packets - 1
  /\ UNCHANGED <<handler, call, requestc, timer, deferVars, connVars>>

PacketSends ==
  /\ net \in Packet /\ HasRoom
  /\ requestc' = Append(requestc, net)
  /\ net' = "read"
  /\ UNCHANGED <<handler, call, timer, packets, deferVars, connVars>>

-----------------------------------------------------------------------------
(* The event handler.  Its loop serves a deferred request that can be      *)
(* answered before it takes the next one from requestc.                    *)

Reply(op, result) == call' = [call EXCEPT ![op] = result]

GivesUp ==
  /\ handler = "loop" /\ ~connected /\ connLost
  /\ handler' = "gone"
  /\ UNCHANGED <<call, channelVars, deferVars, connVars>>

Loop == handler = "loop" /\ ~(~connected /\ connLost)

(* handleRead: an error if the client is closed or there is nothing to     *)
(* read, which for a deferred call means that the connection is lost.      *)
handleRead ==
  /\ Reply("read", "out")
  /\ readable' = IF ~deferedClose /\ readable > 0 THEN readable - 1 ELSE readable
  /\ UNCHANGED <<connected, connLost, connLostSignal, idle, pending>>

(* Variant: the loss of the connection does not wake a Read.               *)
ReadUndeferredByData == deferedRead /\ (readable > 0 \/ deferedClose)

ReadUndeferred == deferedRead /\ (readable > 0 \/ connLost \/ deferedClose)

UndeferRead ==
  /\ Loop /\ ReadUndeferred
  /\ handleRead
  /\ deferedRead' = FALSE
  /\ UNCHANGED <<handler, channelVars, deferedClose>>

(* Variant: Close does not look for messages that are lost.                *)
VerdictOk == "ok"

Verdict == IF pending > 0 THEN "error" ELSE "ok"

(* handleClose shuts the other goroutines down, unless the loss of the     *)
(* connection has done that before, and replies; the loop then ends.       *)
handleClose ==
  IF connLost
  THEN /\ Reply("close", Verdict)
       /\ handler' = "gone"
  ELSE handler' = "closeNet" /\ UNCHANGED call

(* Variant: the loss of the connection does not wake a Close.              *)
CloseUndeferredByAck == deferedClose /\ pending = 0

CloseUndeferred == deferedClose /\ (pending = 0 \/ connLost)

UndeferClose ==
  /\ Loop /\ ~ReadUndeferred /\ CloseUndeferred
  /\ handleClose
  /\ deferedClose' = FALSE
  /\ UNCHANGED <<channelVars, deferedRead, connVars>>

(* The loop takes the next request, of this kind, from requestc.           *)
Takes(kind) ==
  /\ Loop /\ ~ReadUndeferred /\ ~CloseUndeferred
  /\ requestc # <<>> /\ Head(requestc) = kind
  /\ requestc' = Tail(requestc)
  /\ UNCHANGED <<timer, net, packets>>

TakeRead ==
  /\ Takes("read")
  /\ IF readable = 0
     THEN deferedRead' = TRUE /\ UNCHANGED <<call, connVars>>
     ELSE handleRead /\ UNCHANGED deferedRead
  /\ UNCHANGED <<handler, deferedClose>>

TakeClose ==
  /\ Takes("close")
  /\ IF pending > 0
     THEN deferedClose' = TRUE /\ UNCHANGED <<handler, call>>
     ELSE handleClose /\ UNCHANGED deferedClose
  /\ UNCHANGED <<deferedRead, connVars>>

TakeWrite ==
  /\ Takes("write")
  /\ Reply("write", "out")
  /\ pending' = IF connLost \/ deferedClose THEN pending ELSE pending + 1
  /\ UNCHANGED <<handler, deferVars, connected, connLost, connLostSignal, idle, readable>>

TakeConnect ==
  /\ Takes("connect")
  /\ Reply("new", "select")
  /\ pending' = 1
  /\ UNCHANGED <<handler, deferVars, connected, connLost, connLostSignal, idle, readable>>

(* handleEpoch.  A connection idle for too long is lost; the signal of it  *)
(* is for NewClient, and nobody else takes it out of its channel.          *)
TakeEpoch ==
  /\ Takes("epoch")
  /\ IF idle + 1 >= EpochLimit
     THEN /\ connLost' = TRUE
          /\ handler' = "lostSignal"
          /\ UNCHANGED idle
     ELSE idle' = idle + 1 /\ UNCHANGED <<handler, connLost>>
  /\ UNCHANGED <<call, deferVars, connected, connLostSignal, pending, readable>>

LostSignalSent ==
  /\ handler = "lostSignal" /\ ~connLostSignal
  /\ connLostSignal' = TRUE
  /\ handler' = "closeNet"
  /\ UNCHANGED <<call, channelVars, deferVars, connected, connLost, idle, pending, readable>>

(* handleReceivedMsg.  The first ack is that of the connection request.    *)
TakePacket ==
  /\ \E p \in Packet :
       /\ Takes(p)
       /\ \/ p = "ack" /\ pending > 0 /\ pending' = pending - 1 /\ connected' = TRUE
             /\ UNCHANGED readable
          \/ p = "ack" /\ pending = 0 /\ UNCHANGED <<pending, connected, readable>>
          \/ p = "data" /\ UNCHANGED <<pending, connected>>
             /\ readable' = IF connected /\ ~deferedClose THEN readable + 1 ELSE readable
          \/ p = "other" /\ UNCHANGED <<pending, connected, readable>>
  /\ idle' = 0
  /\ UNCHANGED <<handler, call, deferVars, connLost, connLostSignal>>

(* shutDown: first the network handler takes its signal, then the timer.   *)
NetCloses ==
  /\ handler = "closeNet" /\ net = "read"
  /\ net' = "gone" /\ handler' = "closeTimer"
  /\ UNCHANGED <<call, requestc, timer, packets, deferVars, connVars>>

(* The timer takes its signal; handleEpoch goes back to the loop,          *)
(* handleClose replies and ends it.                                        *)
TimerCloses ==
  /\ handler = "closeTimer" /\ timer = "wait"
  /\ timer' = "gone"
  /\ IF connLost
     THEN handler' = "loop" /\ UNCHANGED call
     ELSE handler' = "gone" /\ Reply("close", Verdict)
  /\ UNCHANGED <<requestc, net, packets, deferVars, connVars>>

EventHandler ==
  \/ GivesUp \/ UndeferRead \/ UndeferClose
  \/ TakeRead \/ TakeClose \/ TakeWrite \/ TakeConnect \/ TakeEpoch \/ TakePacket
  \/ LostSignalSent

Next ==
  \/ EventHandler \/ NetCloses \/ TimerCloses
  \/ Submit("new", "connect") \/ NewClientReturns
  \/ \E op \in {"read", "write", "close"} : Call(op) \/ Submit(op, op)
  \/ EpochFires \/ EpochSends \/ PacketSends
  \/ \E p \in Packet : PacketArrives(p)

Spec == Init /\ [][Next]_vars

(* Every goroutine runs, and the timer fires for as long as it lives.  No  *)
(* packet has to arrive and nobody has to call.                            *)
Fairness ==
  /\ WF_vars(EventHandler) /\ WF_vars(NetCloses) /\ WF_vars(TimerCloses)
  /\ WF_vars(EpochFires) /\ WF_vars(EpochSends) /\ WF_vars(PacketSends)
  /\ WF_vars(NewClientReturns) /\ WF_vars(Submit("new", "connect"))
  /\ \A op \in {"read", "write", "close"} : WF_vars(Submit(op, op))

FairSpec == Spec /\ Fairness

-----------------------------------------------------------------------------

(* Close returns without an error only when nothing is pending, and with   *)
(* one only when the connection is lost.                                   *)
CloseVerdict ==
  /\ call.close = "ok" => pending = 0
  /\ call.close = "error" => connLost /\ pending > 0

(* The event handler waits forever: for somebody to take a second signal   *)
(* of the loss, or for the network handler or the timer to take the signal *)
(* to stop, which waits itself for room in requestc.                       *)
Stuck ==
  \/ handler = "lostSignal" /\ connLostSignal /\ call.new # "select"
  \/ handler = "closeNet" /\ net \in Packet /\ ~HasRoom
  \/ handler = "closeTimer" /\ timer = "send" /\ ~HasRoom

(* Read returns, with data or because the connection is lost, as long as   *)
(* nobody calls Close and the event handler is not stuck: there are no     *)
(* other ways for the goroutines to wait for each other.                   *)
ReadReturnsWhileOpen ==
  call.read = "queued" ~> call.read = "out" \/ call.close # "out" \/ Stuck

(* Close returns, when all is acked or because the connection is lost, if  *)
(* the event handler does not get stuck.                                   *)
CloseReturns ==
  call.close = "queued" ~> call.close \in {"ok", "error"} \/ Stuck
=============================================================================
