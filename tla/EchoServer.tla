----------------------------- MODULE EchoServer -----------------------------
(***************************************************************************)
(* The multi-client echo server (p0, server_impl.go): the goroutine that   *)
(* accepts connections, the master, and a reader and a writer for every    *)
(* connection, with the channels between them.  A line is <<c, n>>, the    *)
(* n-th line of client c.  Every client connects at most once.             *)
(***************************************************************************)
EXTENDS Integers, Sequences, FiniteSets

CONSTANTS Conn,          \* the clients and their connections
          None,
          OutSize,       \* OUTGOING_MESSAGE_QUEUE_SIZE
          BroadcastSize, \* BROADCAST_MESSAGE_QUEUE_SIZE
          MaxLines,      \* bound: lines each client sends
          MayHang,       \* the clients that may close their connection
          MayClose       \* whether the server may be closed

ASSUME EchoAssumption ==
  /\ OutSize \in Nat \ {0} /\ BroadcastSize \in Nat \ {0} /\ MaxLines \in [Conn -> Nat]
  /\ MayHang \subseteq Conn /\ MayClose \in BOOLEAN
  /\ None \notin Conn /\ None \notin Conn \X Nat

VARIABLES
  client, out,               \* clients: state, lines received
  acc, incoming,             \* acceptConnections and the connection in its hands
  master, left, cur,         \* masterRoutine, its loop over connections, the line or connection
  active, broadcast,         \* activeConnections, broadcastMessageQueue
  reader, taken,             \* handleConnection, and the lines it has read
  writer, hand,              \* writeOutgoingQueueToSocket, and the line it writes
  queue, queueClosed,        \* outgoingMessageQueue
  socket, closeSignal,       \* the server's end of the connection; closeSignal
  closing,                   \* steps Close has done
  log, since                 \* lines broadcast, and how many before c was registered

clientVars == <<client, out>>
accVars == <<acc, incoming>>
masterVars == <<master, left, cur, active, log, since>>
connVars == <<queue, queueClosed, socket, closeSignal>>
vars == <<clientVars, accVars, masterVars, broadcast, reader, taken, writer, hand, connVars,
          closing>>

Init ==
  /\ client = [c \in Conn |-> "out"]
  /\ out = [c \in Conn |-> <<>>]
  /\ acc = "loop" /\ incoming = None
  /\ master = "select" /\ left = {} /\ cur = None
  /\ active = {} /\ broadcast = <<>>
  /\ reader = [c \in Conn |-> "none"]
  /\ taken = [c \in Conn |-> 0]
  /\ writer = [c \in Conn |-> "none"]
  /\ hand = [c \in Conn |-> None]
  /\ queue = [c \in Conn |-> <<>>]
  /\ queueClosed = [c \in Conn |-> FALSE]
  /\ socket = [c \in Conn |-> FALSE]
  /\ closeSignal = [c \in Conn |-> FALSE]
  /\ closing = 0
  /\ log = <<>>
  /\ since = [c \in Conn |-> 0]

-----------------------------------------------------------------------------
(* Clients.                                                                *)

Listening == closing < 2

Connect(c) ==
  /\ client[c] = "out" /\ Listening
  /\ client' = [client EXCEPT ![c] = "dialed"]
  /\ socket' = [socket EXCEPT ![c] = TRUE]
  /\ UNCHANGED <<out, accVars, masterVars, broadcast, reader, taken, writer, hand,
                 queue, queueClosed, closeSignal, closing>>

Hang(c) ==
  /\ c \in MayHang /\ client[c] = "in"
  /\ client' = [client EXCEPT ![c] = "hung"]
  /\ UNCHANGED <<out, accVars, masterVars, broadcast, reader, taken, writer, hand,
                 connVars, closing>>

-----------------------------------------------------------------------------
(* Close: the signal to the master, the listener, the signal to            *)
(* acceptConnections.  Both signals are buffered.                          *)
Close ==
  /\ MayClose /\ closing < 3
  /\ closing' = closing + 1
  /\ UNCHANGED <<clientVars, accVars, masterVars, broadcast, reader, taken, writer, hand,
                 connVars>>

(* acceptConnections.                                                      *)
AcceptLoop ==
  /\ acc = "loop"
  /\ acc' = IF closing = 3 THEN "exit" ELSE "accept"
  /\ UNCHANGED <<clientVars, incoming, masterVars, broadcast, reader, taken, writer, hand,
                 connVars, closing>>

Accept(c) ==
  /\ acc = "accept" /\ Listening /\ client[c] = "dialed"
  /\ acc' = "register" /\ incoming' = c
  /\ client' = [client EXCEPT ![c] = "in"]
  /\ UNCHANGED <<out, masterVars, broadcast, reader, taken, writer, hand, connVars,
                 closing>>

AcceptFails ==
  /\ acc = "accept" /\ ~ Listening
  /\ acc' = "loop"
  /\ UNCHANGED <<clientVars, incoming, masterVars, broadcast, reader, taken, writer, hand,
                 connVars, closing>>

-----------------------------------------------------------------------------
(* handleConnection.  A client may send its next line at any time: the     *)
(* line shows when it is read.                                             *)

ReadLine(c) ==
  /\ reader[c] = "read" /\ socket[c] /\ taken[c] < MaxLines[c]
  /\ reader' = [reader EXCEPT ![c] = "send"]
  /\ taken' = [taken EXCEPT ![c] = @ + 1]
  /\ UNCHANGED <<clientVars, accVars, masterVars, broadcast, writer, hand, connVars, closing>>

Broadcast(c) ==
  /\ reader[c] = "send" /\ Len(broadcast) < BroadcastSize
  /\ broadcast' = Append(broadcast, <<c, taken[c]>>)
  /\ reader' = [reader EXCEPT ![c] = "read"]
  /\ UNCHANGED <<clientVars, accVars, masterVars, taken, writer, hand, connVars, closing>>

AfterReadFails(c) == IF closeSignal[c] THEN "exit" ELSE "closing"

(* ReadBytes fails: the select on closeSignal, and close of the queue.     *)
ReadFails(c) ==
  /\ reader[c] = "read" /\ (~ socket[c] \/ client[c] = "hung")
  /\ reader' = [reader EXCEPT ![c] = AfterReadFails(c)]
  /\ queueClosed' = [queueClosed EXCEPT ![c] = TRUE]
  /\ closeSignal' = [closeSignal EXCEPT ![c] = FALSE]
  /\ UNCHANGED <<clientVars, accVars, masterVars, broadcast, taken, writer, hand, queue,
                 socket, closing>>

(* connection.Close, before the reader waits for the master.               *)
CloseSocket(c) ==
  /\ reader[c] = "closing"
  /\ reader' = [reader EXCEPT ![c] = "unregister"]
  /\ socket' = [socket EXCEPT ![c] = FALSE]
  /\ UNCHANGED <<clientVars, accVars, masterVars, broadcast, taken, writer, hand, queue,
                 queueClosed, closeSignal, closing>>

-----------------------------------------------------------------------------
(* writeOutgoingQueueToSocket.                                             *)

TakeMessage(c) ==
  /\ writer[c] = "range" /\ queue[c] # <<>>
  /\ writer' = [writer EXCEPT ![c] = "write"]
  /\ hand' = [hand EXCEPT ![c] = Head(queue[c])]
  /\ queue' = [queue EXCEPT ![c] = Tail(@)]
  /\ UNCHANGED <<clientVars, accVars, masterVars, broadcast, reader, taken, queueClosed,
                 socket, closeSignal, closing>>

RangeEnds(c) ==
  /\ writer[c] = "range" /\ queue[c] = <<>> /\ queueClosed[c]
  /\ writer' = [writer EXCEPT ![c] = "exit"]
  /\ UNCHANGED <<clientVars, accVars, masterVars, broadcast, reader, taken, hand, connVars,
                 closing>>

(* Write returns when the client has read the line ...                     *)
Deliver(c) ==
  /\ writer[c] = "write" /\ socket[c] /\ client[c] = "in"
  /\ writer' = [writer EXCEPT ![c] = "range"]
  /\ out' = [out EXCEPT ![c] = Append(@, hand[c])]
  /\ hand' = [hand EXCEPT ![c] = None]
  /\ UNCHANGED <<client, accVars, masterVars, broadcast, reader, taken, connVars, closing>>

(* ... or the connection is gone.                                          *)
WriteFails(c) ==
  /\ writer[c] = "write" /\ (~ socket[c] \/ client[c] = "hung")
  /\ writer' = [writer EXCEPT ![c] = "range"]
  /\ hand' = [hand EXCEPT ![c] = None]
  /\ UNCHANGED <<clientVars, accVars, masterVars, broadcast, reader, taken, connVars, closing>>

-----------------------------------------------------------------------------
(* masterRoutine.                                                          *)

Register ==
  /\ master = "select" /\ acc = "register"
  /\ active' = active \cup {incoming}
  /\ reader' = [reader EXCEPT ![incoming] = "read"]
  /\ writer' = [writer EXCEPT ![incoming] = "range"]
  /\ since' = [since EXCEPT ![incoming] = Len(log)]
  /\ acc' = "loop" /\ incoming' = None
  /\ UNCHANGED <<clientVars, master, left, cur, log, broadcast, taken, hand, connVars, closing>>

Unregister(c) ==
  /\ master = "select" /\ reader[c] = "unregister"
  /\ active' = active \ {c}
  /\ reader' = [reader EXCEPT ![c] = "exit"]
  /\ UNCHANGED <<clientVars, accVars, master, left, cur, log, since, broadcast, taken, writer,
                 hand, connVars, closing>>

BroadcastBegins ==
  /\ master = "select" /\ broadcast # <<>>
  /\ master' = "broadcast" /\ left' = active /\ cur' = Head(broadcast)
  /\ broadcast' = Tail(broadcast)
  /\ log' = Append(log, cur')
  /\ UNCHANGED <<clientVars, accVars, active, since, reader, taken, writer, hand, connVars,
                 closing>>

(* Variant: the newest line first.                                         *)
EnqueuedFirst(q, line) == <<line>> \o q

Enqueued(q, line) == Append(q, line)

HasRoom(q) == Len(q) < OutSize

(* The select with a default.  A send on a closed channel panics.          *)
Enqueue(c) ==
  /\ master = "broadcast" /\ c \in left
  /\ queueClosed[c] \/ HasRoom(queue[c])
  /\ left' = left \ {c}
  /\ master' = IF queueClosed[c] THEN "panic" ELSE master
  /\ queue' = IF queueClosed[c] THEN queue ELSE [queue EXCEPT ![c] = Enqueued(@, cur)]
  /\ UNCHANGED <<clientVars, accVars, cur, active, log, since, broadcast, reader, taken, writer,
                 hand, queueClosed, socket, closeSignal, closing>>

(* Variant: the select has no default.                                     *)
DropNever(c) == FALSE

Drop(c) ==
  /\ master = "broadcast" /\ c \in left
  /\ ~ queueClosed[c] /\ ~ HasRoom(queue[c])
  /\ left' = left \ {c}
  /\ UNCHANGED <<clientVars, accVars, master, cur, active, log, since, broadcast, reader, taken,
                 writer, hand, connVars, closing>>

BroadcastEnds ==
  /\ master = "broadcast" /\ left = {}
  /\ master' = "select" /\ cur' = None
  /\ UNCHANGED <<clientVars, accVars, left, active, log, since, broadcast, reader, taken, writer,
                 hand, connVars, closing>>

CloseBegins ==
  /\ master = "select" /\ closing > 0
  /\ master' = "close"
  /\ UNCHANGED <<clientVars, accVars, left, cur, active, log, since, broadcast, reader, taken,
                 writer, hand, connVars, closing>>

(* connection.Close, then the signal, which is buffered.                   *)
CloseConn(c) ==
  /\ master = "close" /\ c \in active
  /\ master' = "signal" /\ cur' = c
  /\ socket' = [socket EXCEPT ![c] = FALSE]
  /\ UNCHANGED <<clientVars, accVars, left, active, log, since, broadcast, reader, taken, writer,
                 hand, queue, queueClosed, closeSignal, closing>>

SignalConn ==
  /\ master = "signal"
  /\ master' = "close" /\ cur' = None
  /\ closeSignal' = [closeSignal EXCEPT ![cur] = TRUE]
  /\ active' = active \ {cur}
  /\ UNCHANGED <<clientVars, accVars, left, log, since, broadcast, reader, taken, writer, hand,
                 queue, queueClosed, socket, closing>>

(* Variant: the master stops without a look at its connections.            *)
CloseDoneEarly == TRUE

CloseDone == active = {}

MasterExits ==
  /\ master = "close" /\ CloseDone
  /\ master' = "exit"
  /\ UNCHANGED <<clientVars, accVars, left, cur, active, log, since, broadcast, reader, taken,
                 writer, hand, connVars, closing>>

-----------------------------------------------------------------------------

AcceptStep == AcceptLoop \/ AcceptFails \/ \E c \in Conn : Accept(c)
ReaderStep(c) == ReadLine(c) \/ Broadcast(c) \/ ReadFails(c) \/ CloseSocket(c)
WriterStep(c) == TakeMessage(c) \/ RangeEnds(c) \/ WriteFails(c)
MasterStep ==
  \/ Register \/ BroadcastBegins \/ BroadcastEnds \/ CloseBegins \/ SignalConn \/ MasterExits
  \/ \E c \in Conn : Unregister(c) \/ Enqueue(c) \/ Drop(c) \/ CloseConn(c)

Alive == master # "panic"

Next ==
  /\ Alive
  /\ \/ Close \/ AcceptStep \/ MasterStep
     \/ \E c \in Conn : \/ Connect(c) \/ Hang(c) \/ Deliver(c)
                        \/ ReaderStep(c) \/ WriterStep(c)

Spec == Init /\ [][Next]_vars

-----------------------------------------------------------------------------

(* The lines on their way to client c, and those that have arrived.        *)
Passed(c) == out[c] \o (IF hand[c] = None THEN <<>> ELSE <<hand[c]>>) \o queue[c]

Position(line) == CHOOSE i \in 1 .. Len(log) : log[i] = line

(* Every client sees the lines in the order in which the master took them, *)
(* none twice and none from before it was registered, and the lines of one *)
(* client come in the order in which it sent them.                         *)
Ordered ==
  /\ \A i, j \in 1 .. Len(log) : i < j /\ log[i][1] = log[j][1] => log[i][2] < log[j][2]
  /\ \A c \in Conn :
       LET p == Passed(c)
       IN  /\ \A i \in 1 .. Len(p) : Position(p[i]) > since[c]
           /\ \A i, j \in 1 .. Len(p) : i < j => Position(p[i]) < Position(p[j])

(* When the master is gone, so are the connections it has registered, the  *)
(* ones whose clients left at that moment included.                        *)
ClosedAll ==
  master = "exit" => \A c \in Conn : reader[c] # "none" => ~ socket[c]

(* A client that does not read keeps nobody waiting: outside its select    *)
(* the master can always take a step, so that the next line, connection or *)
(* departure is looked at.                                                 *)
MasterNeverWaits == master \in {"broadcast", "close", "signal"} => ENABLED MasterStep

=============================================================================
