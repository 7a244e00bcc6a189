-------------------------- MODULE EchoServerProof --------------------------
(***************************************************************************)
(* Proofs about EchoServer, for any clients, sizes of the channels and     *)
(* interleavings of the goroutines: the order of the lines that a client   *)
(* sees, and that no connection survives the master.                       *)
(***************************************************************************)
EXTENDS EchoServer, SequenceTheorems, TLAPS

Line == Conn \X Nat

TypeOK ==
  /\ client \in [Conn -> {"out", "dialed", "in", "hung"}] /\ out \in [Conn -> Seq(Line)]
  /\ left \subseteq Conn /\ active \subseteq Conn /\ broadcast \in Seq(Line)
  /\ reader \in [Conn -> {"none", "read", "send", "closing", "unregister", "exit"}]
  /\ taken \in [Conn -> Nat]
  /\ writer \in [Conn -> {"none", "range", "write", "exit"}] /\ hand \in [Conn -> Line \cup {None}]
  /\ queue \in [Conn -> Seq(Line)] /\ socket \in [Conn -> BOOLEAN]
  /\ log \in Seq(Line) /\ since \in [Conn -> Nat]

-----------------------------------------------------------------------------
(* The order of the lines.                                                 *)

(* Line y was taken by the master after line x.                            *)
Before(l, x, y) == \E i, j \in 1 .. Len(l) : i < j /\ l[i] = x /\ l[j] = y

(* Line x was not among the first s lines.                                 *)
Since(l, s, x) == \E i \in 1 .. Len(l) : i > s /\ l[i] = x

(* Line x is not the last one.                                             *)
Older(l, x) == \E i \in 1 .. Len(l) - 1 : l[i] = x

(* The lines that a client has read, the one its writer has, and those in  *)
(* its queue, for a client that was registered after s lines.              *)
InOrder(l, s, o, h, q) ==
  /\ \A i \in 1 .. Len(o) : Since(l, s, o[i])
  /\ \A i \in 1 .. Len(q) : Since(l, s, q[i])
  /\ \A i, j \in 1 .. Len(o) : i < j => Before(l, o[i], o[j])
  /\ \A i, j \in 1 .. Len(q) : i < j => Before(l, q[i], q[j])
  /\ \A i \in 1 .. Len(o), j \in 1 .. Len(q) : Before(l, o[i], q[j])
  /\ h # None => /\ Since(l, s, h)
                 /\ \A i \in 1 .. Len(o) : Before(l, o[i], h)
                 /\ \A i \in 1 .. Len(q) : Before(l, h, q[i])

(* The client has not been sent the last line yet.                         *)
Behind(l, s, o, h, q) ==
  /\ s < Len(l)
  /\ \A i \in 1 .. Len(o) : Older(l, o[i])
  /\ \A i \in 1 .. Len(q) : Older(l, q[i])
  /\ h # None => Older(l, h)

(* Lines of one client go up.                                              *)
Rising(l) == \A i, j \in 1 .. Len(l) : i < j /\ l[i][1] = l[j][1] => l[i][2] < l[j][2]

(* The lines in l have been taken from their clients, and a line that a    *)
(* reader is about to send is newer.                                       *)
Taken(l, tk, rd) ==
  \A i \in 1 .. Len(l) :
    /\ l[i][2] <= tk[l[i][1]]
    /\ rd[l[i][1]] = "send" => l[i][2] < tk[l[i][1]]

Numbers ==
  /\ Rising(log) /\ Rising(broadcast) /\ Taken(log, taken, reader) /\ Taken(broadcast, taken, reader)
  /\ \A i \in 1 .. Len(log), j \in 1 .. Len(broadcast) :
       log[i][1] = broadcast[j][1] => log[i][2] < broadcast[j][2]

Lines ==
  /\ \A c \in Conn : /\ since[c] <= Len(log)
                     /\ InOrder(log, since[c], out[c], hand[c], queue[c])
  /\ master = "broadcast" =>
       /\ left \subseteq active /\ Len(log) > 0 /\ cur = log[Len(log)]
       /\ \A c \in left : Behind(log, since[c], out[c], hand[c], queue[c])

-----------------------------------------------------------------------------
(* The goroutines of a connection.                                         *)

(* Nothing happens before the connection is registered, which happens once.*)
Unregistered ==
  /\ \A c \in Conn : reader[c] = "none" =>
       /\ writer[c] = "none" /\ c \notin active
       /\ out[c] = <<>> /\ hand[c] = None /\ queue[c] = <<>>
  /\ \A c \in Conn : client[c] \in {"out", "dialed"} => reader[c] = "none"
  /\ acc = "register" =>
       /\ incoming \in Conn /\ reader[incoming] = "none"
       /\ client[incoming] \notin {"out", "dialed"}

Writing == \A c \in Conn : IF writer[c] = "write" THEN hand[c] \in Line ELSE hand[c] = None

(* A connection leaves activeConnections only when it is closed.           *)
Departed ==
  /\ \A c \in Conn : reader[c] # "none" /\ c \notin active => ~socket[c]
  /\ \A c \in Conn : reader[c] = "unregister" => ~socket[c]
  /\ master = "signal" => cur \in active /\ ~socket[cur]
  /\ master = "exit" => active = {}

IInv == TypeOK /\ Numbers /\ Lines /\ Unregistered /\ Writing /\ Departed

-----------------------------------------------------------------------------
(* What happens to the order of one client's lines.                        *)

(* The order in which the master took two lines is never undone, and a     *)
(* line it took earlier is not its last one.                               *)
LEMMA OrderGrows ==
  ASSUME NEW l \in Seq(Line), NEW x \in Line, NEW a, NEW b, NEW s \in Nat
  PROVE  /\ Before(l, a, b) => Before(Append(l, x), a, b)
         /\ Since(l, s, a) => Since(Append(l, x), s, a) /\ Older(Append(l, x), a)
<1> DEFINE m == Append(l, x)
<1>1. m \in Seq(Line) /\ Len(l) \in Nat /\ Len(m) = Len(l) + 1 /\ \A i \in 1 .. Len(l) : m[i] = l[i]
  BY AppendProperties, LenProperties
<1> HIDE DEF m
<1>2. Before(l, a, b) => Before(m, a, b)
  BY <1>1 DEF Before
<1>3. Since(l, s, a) => Since(m, s, a) /\ Older(m, a)
  BY <1>1 DEF Since, Older
<1> QED  BY <1>2, <1>3 DEF m

(* The master's next line leaves the lines of a client in order, and the   *)
(* client one line behind.                                                 *)
LEMMA LogGrows ==
  ASSUME NEW l \in Seq(Line), NEW x \in Line, NEW s \in Nat, NEW o \in Seq(Line),
         NEW h \in Line \cup {None}, NEW q \in Seq(Line), InOrder(l, s, o, h, q), s <= Len(l)
  PROVE  /\ InOrder(Append(l, x), s, o, h, q)
         /\ Behind(Append(l, x), s, o, h, q)
<1> DEFINE m == Append(l, x)
<1>1. s < Len(m)
  BY AppendProperties, LenProperties
<1>2. \A a, b : Before(l, a, b) => Before(m, a, b)
  BY OrderGrows
<1>3. \A a : Since(l, s, a) => Since(m, s, a) /\ Older(m, a)
  BY OrderGrows
<1> HIDE DEF m
<1>4. InOrder(m, s, o, h, q)
  BY <1>2, <1>3, Zenon DEF InOrder
<1>5. Behind(m, s, o, h, q)
  BY <1>1, <1>3, Zenon DEF InOrder, Behind
<1> QED  BY <1>4, <1>5 DEF m

(* The writer takes the first line of the queue.                           *)
LEMMA TakeOrder ==
  ASSUME NEW l \in Seq(Line), NEW s \in Nat, NEW o \in Seq(Line), NEW q \in Seq(Line), q # <<>>
  PROVE  /\ InOrder(l, s, o, None, q) => InOrder(l, s, o, Head(q), Tail(q))
         /\ Behind(l, s, o, None, q) => Behind(l, s, o, Head(q), Tail(q))
<1> DEFINE t == Tail(q)
<1> DEFINE h == Head(q)
<1>1. /\ t \in Seq(Line) /\ h = q[1] /\ Len(q) \in Nat /\ Len(q) > 0 /\ Len(t) = Len(q) - 1
      /\ \A i \in 1 .. Len(t) : t[i] = q[i + 1]
  BY HeadTailProperties, LenProperties, EmptySeq
<1>2. 1 \in 1 .. Len(q) /\ \A i \in 1 .. Len(t) : i + 1 \in 1 .. Len(q) /\ 1 < i + 1
  BY <1>1
<1>3. \A i, j \in 1 .. Len(t) : i < j => i + 1 < j + 1
  BY <1>1
<1> HIDE DEF t, h
<1>4. ASSUME InOrder(l, s, o, None, q)  PROVE InOrder(l, s, o, h, t)
  BY <1>1, <1>2, <1>3, <1>4 DEF InOrder
<1>5. ASSUME Behind(l, s, o, None, q)  PROVE Behind(l, s, o, h, t)
  BY <1>1, <1>2, <1>5, Zenon DEF Behind
<1> QED  BY <1>4, <1>5 DEF t, h

(* The client reads the line that the writer has.                          *)
LEMMA DeliverOrder ==
  ASSUME NEW l \in Seq(Line), NEW s \in Nat, NEW o \in Seq(Line), NEW h \in Line, h # None,
         NEW q \in Seq(Line)
  PROVE  /\ InOrder(l, s, o, h, q) => InOrder(l, s, Append(o, h), None, q)
         /\ Behind(l, s, o, h, q) => Behind(l, s, Append(o, h), None, q)
<1> DEFINE p == Append(o, h)
<1>1. /\ p \in Seq(Line) /\ Len(o) \in Nat /\ Len(p) = Len(o) + 1 /\ p[Len(p)] = h
      /\ \A i \in 1 .. Len(o) : p[i] = o[i]
  BY AppendProperties, LenProperties
<1> HIDE DEF p
<1>2. \A i \in 1 .. Len(p) : i \in 1 .. Len(o) \/ i = Len(p)
  BY <1>1
<1>3. \A i, j \in 1 .. Len(p) : i < j => i \in 1 .. Len(o)
  BY <1>1
<1>4. ASSUME InOrder(l, s, o, h, q)  PROVE InOrder(l, s, p, None, q)
  <2>1. \A i \in 1 .. Len(p) : Since(l, s, p[i])
    BY <1>1, <1>2, <1>4, Zenon DEF InOrder
  <2>2. \A i, j \in 1 .. Len(p) : i < j => Before(l, p[i], p[j])
    BY <1>1, <1>2, <1>3, <1>4, Zenon DEF InOrder
  <2>3. \A i \in 1 .. Len(p), j \in 1 .. Len(q) : Before(l, p[i], q[j])
    BY <1>1, <1>2, <1>4, Zenon DEF InOrder
  <2> QED  BY <1>4, <2>1, <2>2, <2>3, Zenon DEF InOrder
<1>5. ASSUME Behind(l, s, o, h, q)  PROVE Behind(l, s, p, None, q)
  BY <1>1, <1>2, <1>5, Zenon DEF Behind
<1> QED  BY <1>4, <1>5 DEF p

(* The master puts its line at the end of the queue of a client that has   *)
(* not been sent it.                                                       *)
LEMMA EnqueueOrder ==
  ASSUME NEW l \in Seq(Line), NEW s \in Nat, NEW o \in Seq(Line), NEW h \in Line \cup {None},
         NEW q \in Seq(Line), NEW x \in Line, InOrder(l, s, o, h, q), Behind(l, s, o, h, q),
         Len(l) > 0, x = l[Len(l)]
  PROVE  InOrder(l, s, o, h, Append(q, x))
<1> DEFINE p == Append(q, x)
<1>1. /\ p \in Seq(Line) /\ Len(q) \in Nat /\ Len(p) = Len(q) + 1 /\ p[Len(p)] = x
      /\ \A i \in 1 .. Len(q) : p[i] = q[i]
  BY AppendProperties, LenProperties
<1> HIDE DEF p
<1>2. \A i \in 1 .. Len(p) : i \in 1 .. Len(q) \/ i = Len(p)
  BY <1>1
<1>3. \A i, j \in 1 .. Len(p) : i < j => i \in 1 .. Len(q)
  BY <1>1
<1>4. Len(l) \in Nat /\ \A a : Older(l, a) => Before(l, a, x)
  BY LenProperties DEF Older, Before
<1>5. Since(l, s, x)
  BY <1>4 DEF Since, Behind
<1>6. \A i \in 1 .. Len(p) : Since(l, s, p[i])
  BY <1>1, <1>2, <1>5, Zenon DEF InOrder
<1>7. \A i, j \in 1 .. Len(p) : i < j => Before(l, p[i], p[j])
  BY <1>1, <1>2, <1>3, <1>4, Zenon DEF InOrder, Behind
<1>8. \A i \in 1 .. Len(o), j \in 1 .. Len(p) : Before(l, o[i], p[j])
  BY <1>1, <1>2, <1>4, Zenon DEF InOrder, Behind
<1>9. h # None => \A j \in 1 .. Len(p) : Before(l, h, p[j])
  BY <1>1, <1>2, <1>4, Zenon DEF InOrder, Behind
<1> QED  BY <1>6, <1>7, <1>8, <1>9, Zenon DEF InOrder, p

-----------------------------------------------------------------------------
(* What happens to the numbers of the lines.                               *)

(* A longer sequence still rises when its new line is its client's newest. *)
LEMMA RisingAppend ==
  ASSUME NEW l \in Seq(Line), NEW x \in Line, Rising(l),
         \A i \in 1 .. Len(l) : l[i][1] = x[1] => l[i][2] < x[2]
  PROVE  Rising(Append(l, x))
<1> DEFINE m == Append(l, x)
<1>1. /\ m \in Seq(Line) /\ Len(l) \in Nat /\ Len(m) = Len(l) + 1 /\ m[Len(m)] = x
      /\ \A i \in 1 .. Len(l) : m[i] = l[i]
  BY AppendProperties, LenProperties
<1> HIDE DEF m
<1>2. \A i, j \in 1 .. Len(m) : i < j => i \in 1 .. Len(l) /\ (j \in 1 .. Len(l) \/ j = Len(m))
  BY <1>1
<1>3. Rising(m)
  BY <1>1, <1>2, Zenon DEF Rising
<1> QED  BY <1>3 DEF m

(* Lines that their clients were ahead of stay so, whatever a reader does  *)
(* other than to pick its line up again.                                   *)
LEMMA TakenReader ==
  ASSUME NEW l \in Seq(Line), NEW tk, NEW rd, NEW c \in Conn, NEW v, v # "send", DOMAIN rd = Conn,
         Taken(l, tk, rd)
  PROVE  Taken(l, tk, [rd EXCEPT ![c] = v])
<1>1. \A d \in Conn : [rd EXCEPT ![c] = v][d] = "send" => rd[d] = "send"
  OBVIOUS
<1>2. \A i \in 1 .. Len(l) : l[i] \in Line
  BY ElementOfSeq
<1>3. \A i \in 1 .. Len(l) : l[i][1] \in Conn
  BY <1>2 DEF Line
<1> QED  BY <1>1, <1>3, Zenon DEF Taken

(* The reader has read the next line of its client.                        *)
LEMMA TakenNext ==
  ASSUME NEW l \in Seq(Line), NEW tk \in [Conn -> Nat], NEW rd, NEW c \in Conn, NEW v,
         Taken(l, tk, rd), DOMAIN rd = Conn
  PROVE  Taken(l, [tk EXCEPT ![c] = @ + 1], [rd EXCEPT ![c] = v])
<1>1. \A i \in 1 .. Len(l) : l[i] \in Line
  BY ElementOfSeq
<1>2. \A i \in 1 .. Len(l) : l[i][1] \in Conn /\ l[i][2] \in Nat
  BY <1>1 DEF Line
<1> QED  BY <1>2 DEF Taken

(* The numbers after a step that only moves a reader.                      *)
LEMMA NumbersReader ==
  ASSUME TypeOK, Numbers, NEW c \in Conn, NEW v, v # "send",
         UNCHANGED <<log, broadcast, taken>>, reader' = [reader EXCEPT ![c] = v]
  PROVE  Numbers'
<1>1. log \in Seq(Line) /\ broadcast \in Seq(Line) /\ DOMAIN reader = Conn
  BY DEF TypeOK
<1>2. Taken(log, taken, reader') /\ Taken(broadcast, taken, reader')
  BY <1>1, TakenReader, Zenon DEF Numbers
<1> QED  BY <1>2, Zenon DEF Numbers

(* The numbers after a step of no reader.                                  *)
LEMMA NumbersFrame ==
  ASSUME Numbers, UNCHANGED <<log, broadcast, taken, reader>>
  PROVE  Numbers'
BY Zenon DEF Numbers

(* The numbers when a reader has read a line.                              *)
LEMMA NumbersRead ==
  ASSUME TypeOK, Numbers, NEW c \in Conn, ReadLine(c)
  PROVE  Numbers'
<1>1. log \in Seq(Line) /\ broadcast \in Seq(Line) /\ DOMAIN reader = Conn /\ taken \in [Conn -> Nat]
  BY DEF TypeOK
<1>2. /\ log' = log /\ broadcast' = broadcast /\ reader' = [reader EXCEPT ![c] = "send"]
      /\ taken' = [taken EXCEPT ![c] = @ + 1]
  BY DEF ReadLine, masterVars
<1>3. Taken(log, taken', reader') /\ Taken(broadcast, taken', reader')
  BY <1>1, <1>2, TakenNext DEF Numbers
<1> QED  BY <1>2, <1>3, Zenon DEF Numbers

(* The numbers when a reader has sent its line to the master.              *)
LEMMA NumbersSent ==
  ASSUME TypeOK, Numbers, NEW c \in Conn, Broadcast(c)
  PROVE  Numbers'
<1> DEFINE x == <<c, taken[c]>>
<1> DEFINE b == Append(broadcast, x)
<1>1. /\ log \in Seq(Line) /\ broadcast \in Seq(Line) /\ DOMAIN reader = Conn
      /\ taken \in [Conn -> Nat] /\ x \in Line
  BY DEF TypeOK, Line
<1>2. /\ log' = log /\ broadcast' = b /\ reader' = [reader EXCEPT ![c] = "read"]
      /\ taken' = taken /\ reader[c] = "send" /\ reader'[c] = "read"
  BY <1>1 DEF Broadcast, masterVars
<1>3. x[1] = c /\ x[2] = taken[c]
  OBVIOUS
<1>4. /\ b \in Seq(Line) /\ Len(broadcast) \in Nat /\ Len(b) = Len(broadcast) + 1 /\ b[Len(b)] = x
      /\ \A i \in 1 .. Len(broadcast) : b[i] = broadcast[i]
  BY <1>1, AppendProperties, LenProperties
<1>5. \A i \in 1 .. Len(b) : i \in 1 .. Len(broadcast) \/ i = Len(b)
  BY <1>4
<1> HIDE DEF x
<1>6. /\ \A i \in 1 .. Len(broadcast) : broadcast[i][1] = x[1] => broadcast[i][2] < x[2]
      /\ \A i \in 1 .. Len(log) : log[i][1] = x[1] => log[i][2] < x[2]
  BY <1>2, <1>3, Zenon DEF Numbers, Taken
<1>7. Rising(b)
  BY <1>1, <1>6, RisingAppend DEF Numbers
<1> HIDE DEF b
<1>8. Taken(log, taken, reader') /\ Taken(broadcast, taken, reader')
  BY <1>1, <1>2, TakenReader, Zenon DEF Numbers
<1>9. x[2] <= taken[x[1]] /\ reader'[x[1]] # "send"
  BY <1>1, <1>2, <1>3
<1>10. Taken(b, taken, reader')
  BY <1>4, <1>5, <1>8, <1>9, Zenon DEF Taken
<1>11. \A i \in 1 .. Len(log), j \in 1 .. Len(b) : log[i][1] = b[j][1] => log[i][2] < b[j][2]
  BY <1>4, <1>5, <1>6, Zenon DEF Numbers
<1> QED  BY <1>2, <1>7, <1>8, <1>10, <1>11, Zenon DEF Numbers

(* The numbers when the master takes the next line.                        *)
LEMMA NumbersTaken ==
  ASSUME TypeOK, Numbers, BroadcastBegins
  PROVE  Numbers'
<1> DEFINE x == Head(broadcast)
<1> DEFINE b == Tail(broadcast)
<1> DEFINE m == Append(log, x)
<1>1. log \in Seq(Line) /\ broadcast \in Seq(Line) /\ broadcast # <<>>
  BY DEF TypeOK, BroadcastBegins
<1>2. log' = m /\ broadcast' = b /\ reader' = reader /\ taken' = taken
  BY DEF BroadcastBegins
<1>3. /\ x \in Line /\ x = broadcast[1] /\ b \in Seq(Line) /\ Len(broadcast) \in Nat /\ Len(broadcast) > 0
      /\ Len(b) = Len(broadcast) - 1 /\ \A i \in 1 .. Len(b) : b[i] = broadcast[i + 1]
  BY <1>1, HeadTailProperties, LenProperties, EmptySeq
<1>4. /\ 1 \in 1 .. Len(broadcast)
      /\ \A i \in 1 .. Len(b) : i + 1 \in 1 .. Len(broadcast) /\ 1 < i + 1
      /\ \A i, j \in 1 .. Len(b) : i < j => i + 1 < j + 1
  BY <1>3
<1> HIDE DEF x, b
<1>5. /\ m \in Seq(Line) /\ Len(log) \in Nat /\ Len(m) = Len(log) + 1 /\ m[Len(m)] = x
      /\ \A i \in 1 .. Len(log) : m[i] = log[i]
  BY <1>1, <1>3, AppendProperties, LenProperties
<1>6. \A i \in 1 .. Len(m) : i \in 1 .. Len(log) \/ i = Len(m)
  BY <1>5
<1>7. Rising(m)
  BY <1>1, <1>3, <1>4, RisingAppend DEF Numbers
<1> HIDE DEF m
<1>8. Rising(b)
  BY <1>3, <1>4, Zenon DEF Numbers, Rising
<1>9. Taken(b, taken, reader)
  BY <1>3, <1>4, Zenon DEF Numbers, Taken
<1>10. Taken(m, taken, reader)
  BY <1>3, <1>4, <1>5, <1>6, Zenon DEF Numbers, Taken
<1>11. \A i \in 1 .. Len(m), j \in 1 .. Len(b) : m[i][1] = b[j][1] => m[i][2] < b[j][2]
  <2> SUFFICES ASSUME NEW i \in 1 .. Len(m), NEW j \in 1 .. Len(b), m[i][1] = b[j][1]
               PROVE  m[i][2] < b[j][2]
    OBVIOUS
  <2>1. b[j] = broadcast[j + 1] /\ j + 1 \in 1 .. Len(broadcast) /\ 1 < j + 1
    BY <1>3, <1>4, Zenon
  <2>2. CASE i \in 1 .. Len(log)
    BY <1>5, <2>1, <2>2, Zenon DEF Numbers
  <2>3. CASE i = Len(m)
    <3>1. m[i] = broadcast[1]
      BY <1>3, <1>5, <2>3, Zenon
    <3>2. Rising(broadcast)
      BY Zenon DEF Numbers
    <3> QED  BY <1>4, <2>1, <3>1, <3>2, Zenon DEF Rising
  <2> QED  BY <1>6, <2>2, <2>3, Zenon
<1> QED  BY <1>2, <1>7, <1>8, <1>9, <1>10, <1>11, Zenon DEF Numbers

-----------------------------------------------------------------------------
(* The lines of the clients after a step.                                  *)

(* A step that moves no line, and in which the master at most skips some   *)
(* clients or ends its loop.                                               *)
LEMMA LinesFrame ==
  ASSUME Lines, UNCHANGED <<out, hand, queue, log, since>>,
         master' = "broadcast" => /\ master = "broadcast" /\ cur' = cur
                                  /\ left' \subseteq left /\ active' = active
  PROVE  Lines'
<1>1. \A c \in Conn : /\ since'[c] <= Len(log')
                      /\ InOrder(log', since'[c], out'[c], hand'[c], queue'[c])
  BY Zenon DEF Lines
<1>2. ASSUME master' = "broadcast"
      PROVE  /\ left' \subseteq active' /\ Len(log') > 0 /\ cur' = log'[Len(log')]
             /\ \A c \in left' : Behind(log', since'[c], out'[c], hand'[c], queue'[c])
  BY <1>2, Zenon DEF Lines
<1> QED  BY <1>1, <1>2, Zenon DEF Lines

(* A step that moves lines of one client.                                  *)
LEMMA LinesOne ==
  ASSUME TypeOK, Lines, NEW c \in Conn, UNCHANGED <<log, since, cur, active>>,
         master' = "broadcast" => master = "broadcast", left' \subseteq left,
         \A d \in Conn \ {c} : out'[d] = out[d] /\ hand'[d] = hand[d] /\ queue'[d] = queue[d],
         InOrder(log, since[c], out'[c], hand'[c], queue'[c]),
         c \in left' /\ Behind(log, since[c], out[c], hand[c], queue[c])
           => Behind(log, since[c], out'[c], hand'[c], queue'[c])
  PROVE  Lines'
<1>1. \A d \in Conn : /\ since'[d] <= Len(log')
                      /\ InOrder(log', since'[d], out'[d], hand'[d], queue'[d])
  <2> TAKE d \in Conn
  <2>1. CASE d = c
    BY <2>1, Zenon DEF Lines
  <2>2. CASE d # c
    <3>1. out'[d] = out[d] /\ hand'[d] = hand[d] /\ queue'[d] = queue[d]
      BY <2>2, Zenon
    <3> QED  BY <3>1, Zenon DEF Lines
  <2> QED  BY <2>1, <2>2
<1>2. ASSUME master' = "broadcast"
      PROVE  /\ left' \subseteq active' /\ Len(log') > 0 /\ cur' = log'[Len(log')]
             /\ \A d \in left' : Behind(log', since'[d], out'[d], hand'[d], queue'[d])
  <2>1. /\ left \subseteq active /\ Len(log) > 0 /\ cur = log[Len(log)] /\ left' \subseteq left
        /\ \A d \in left : Behind(log, since[d], out[d], hand[d], queue[d])
    BY <1>2, Zenon DEF Lines
  <2>2. ASSUME NEW d \in left'  PROVE Behind(log', since'[d], out'[d], hand'[d], queue'[d])
    <3>1. d \in left /\ d \in Conn
      BY <2>1, <2>2, Zenon DEF TypeOK
    <3>2. CASE d = c
      BY <2>1, <2>2, <3>1, <3>2, Zenon
    <3>3. CASE d # c
      <4>1. out'[d] = out[d] /\ hand'[d] = hand[d] /\ queue'[d] = queue[d]
        BY <3>1, <3>3, Zenon
      <4> QED  BY <2>1, <3>1, <4>1, Zenon
    <3> QED  BY <3>2, <3>3
  <2> QED  BY <2>1, <2>2, Zenon
<1> QED  BY <1>1, <1>2, Zenon DEF Lines

(* The facts about one client's connection that the steps below use.       *)
LEMMA ConnTypes ==
  ASSUME TypeOK, NEW c \in Conn
  PROVE  /\ log \in Seq(Line) /\ broadcast \in Seq(Line) /\ since[c] \in Nat /\ out[c] \in Seq(Line)
         /\ hand[c] \in Line \cup {None} /\ queue[c] \in Seq(Line) /\ None \notin Line
BY EchoAssumption DEF TypeOK, Line

-----------------------------------------------------------------------------
(* The clients, Close and acceptConnections.                               *)

(* Connect: the server's end of the connection is open and has no reader.  *)
LEMMA ConnectStep ==
  ASSUME IInv, NEW c \in Conn, Connect(c)
  PROVE  IInv'
<1> USE DEF Connect, accVars, masterVars
<1>1. TypeOK'
  BY DEF IInv, TypeOK
<1>2. /\ client[c] = "out" /\ \A d \in Conn \ {c} : client'[d] = client[d] /\ socket'[d] = socket[d]
      /\ client'[c] = "dialed"
  BY DEF IInv, TypeOK
<1>3. reader[c] = "none" /\ c \notin active
  BY <1>2, Zenon DEF IInv, Unregistered
<1>4. UNCHANGED <<out, acc, incoming, master, left, cur, active, log, since, broadcast, reader, taken,
                  writer, hand, queue>>
  OBVIOUS
<1> HIDE DEF Connect, accVars, masterVars
<1>5. Numbers' /\ Lines'
  BY <1>4, NumbersFrame, LinesFrame, Zenon DEF IInv
<1>6. Unregistered'
  <2>1. \A d \in Conn : client'[d] \in {"out", "dialed"} => reader[d] = "none"
    BY <1>2, <1>3, Zenon DEF IInv, Unregistered
  <2>2. acc = "register" => incoming # c
    BY <1>2, Zenon DEF IInv, Unregistered
  <2>3. acc = "register" => client'[incoming] \notin {"out", "dialed"}
    BY <1>2, <2>2, Zenon DEF IInv, Unregistered
  <2> QED  BY <1>4, <2>1, <2>3, Zenon DEF IInv, Unregistered
<1>7. Writing'
  BY <1>4, Zenon DEF IInv, Writing
<1>8. Departed'
  <2>1. \A d \in Conn : reader[d] # "none" => socket'[d] = socket[d]
    BY <1>2, <1>3, Zenon
  <2>2. \A d \in active : d \in Conn /\ socket'[d] = socket[d]
    BY <1>2, <1>3, Zenon DEF IInv, TypeOK
  <2> QED  BY <1>4, <2>1, <2>2, Zenon DEF IInv, Departed
<1> QED  BY <1>1, <1>5, <1>6, <1>7, <1>8 DEF IInv

(* Hang: a client that was accepted is gone.                               *)
LEMMA HangStep ==
  ASSUME IInv, NEW c \in Conn, Hang(c)
  PROVE  IInv'
<1>1. TypeOK'
  BY DEF IInv, TypeOK, Hang, accVars, masterVars, connVars
<1>2. UNCHANGED <<out, acc, incoming, master, left, cur, active, log, since, broadcast, reader, taken,
                  writer, hand, queue, socket>>
  BY DEF Hang, accVars, masterVars, connVars
<1>3. client'[c] = "hung" /\ \A d \in Conn \ {c} : client'[d] = client[d]
  BY DEF IInv, TypeOK, Hang
<1>4. Numbers' /\ Lines'
  BY <1>2, NumbersFrame, LinesFrame, Zenon DEF IInv
<1>5. \A d \in Conn : client'[d] \in {"out", "dialed"} => client[d] \in {"out", "dialed"}
  BY <1>3, "hung" # "out", "hung" # "dialed"
<1>6. Unregistered'
  BY <1>2, <1>5, Zenon DEF IInv, Unregistered
<1>7. Writing' /\ Departed'
  BY <1>2, Zenon DEF IInv, Writing, Departed
<1> QED  BY <1>1, <1>4, <1>6, <1>7 DEF IInv

(* The steps that move no line and no connection: of Close, of the         *)
(* goroutine that accepts, and of the master between its loops.            *)
LEMMA QuietStep ==
  ASSUME IInv,
         UNCHANGED <<client, out, active, log, since, broadcast, reader, taken, writer, hand, queue,
                     socket>>,
         acc' = "register" => acc = "register" /\ incoming' = incoming,
         left' \subseteq left,
         master' = "broadcast" => master = "broadcast" /\ cur' = cur,
         master' = "signal" => master = "signal" /\ cur' = cur,
         master' = "exit" => master = "exit" \/ active = {}
  PROVE  IInv'
<1>1. TypeOK'
  BY Zenon DEF IInv, TypeOK
<1>2. Numbers' /\ Lines'
  BY NumbersFrame, LinesFrame, Zenon DEF IInv
<1>3. Unregistered'
  BY Zenon DEF IInv, Unregistered
<1>4. Writing'
  BY Zenon DEF IInv, Writing
<1>5. Departed'
  BY Zenon DEF IInv, Departed
<1> QED  BY <1>1, <1>2, <1>3, <1>4, <1>5 DEF IInv

(* Close.                                                                  *)
LEMMA CloseStep ==
  ASSUME IInv, Close
  PROVE  IInv'
<1>1. UNCHANGED <<client, out, active, log, since, broadcast, reader, taken, writer, hand, queue,
                  socket, acc, incoming, left, master, cur>>
  BY DEF Close, clientVars, accVars, masterVars, connVars
<1> QED  BY <1>1, QuietStep, Zenon

(* acceptConnections without a connection.                                 *)
LEMMA AcceptLoopStep ==
  ASSUME IInv, AcceptLoop \/ AcceptFails
  PROVE  IInv'
<1>1. UNCHANGED <<client, out, active, log, since, broadcast, reader, taken, writer, hand, queue,
                  socket, left, master, cur>>
  BY DEF AcceptLoop, AcceptFails, clientVars, masterVars, connVars
<1>2. acc' # "register"
  BY DEF AcceptLoop, AcceptFails
<1> QED  BY <1>1, <1>2, QuietStep, Zenon

(* Drop: a client whose queue is full does not get the line.               *)
LEMMA DropStep ==
  ASSUME IInv, NEW c \in Conn, Drop(c)
  PROVE  IInv'
<1>1. UNCHANGED <<client, out, active, log, since, broadcast, reader, taken, writer, hand, queue,
                  socket, acc, incoming, master, cur>>
  BY DEF Drop, clientVars, accVars, connVars
<1>2. left' \subseteq left
  BY Zenon DEF Drop
<1> QED  BY <1>1, <1>2, QuietStep, Zenon

(* The ends of the master's loops, and the start of its last one.          *)
LEMMA MasterLoopStep ==
  ASSUME IInv, BroadcastEnds \/ CloseBegins \/ MasterExits
  PROVE  IInv'
<1>1. UNCHANGED <<client, out, active, log, since, broadcast, reader, taken, writer, hand, queue,
                  socket, acc, incoming, left>>
  BY DEF BroadcastEnds, CloseBegins, MasterExits, clientVars, accVars, connVars
<1>2. /\ master' # "broadcast" /\ master' # "signal"
      /\ master' = "exit" => active = {}
  BY DEF BroadcastEnds, CloseBegins, MasterExits, CloseDone
<1> QED  BY <1>1, <1>2, QuietStep, Zenon

(* Accept: a client that has no reader yet is handed to the master.        *)
LEMMA AcceptStepLemma ==
  ASSUME IInv, NEW c \in Conn, Accept(c)
  PROVE  IInv'
<1>1. TypeOK'
  BY DEF IInv, TypeOK, Accept, masterVars, connVars
<1>2. UNCHANGED <<out, master, left, cur, active, log, since, broadcast, reader, taken, writer, hand,
                  queue, socket>>
  BY DEF Accept, masterVars, connVars
<1>3. /\ client[c] = "dialed" /\ client'[c] = "in" /\ incoming' = c
      /\ \A d \in Conn \ {c} : client'[d] = client[d]
  BY DEF IInv, TypeOK, Accept
<1>4. Numbers' /\ Lines'
  BY <1>2, NumbersFrame, LinesFrame, Zenon DEF IInv
<1>5. \A d \in Conn : client'[d] \in {"out", "dialed"} => client[d] \in {"out", "dialed"}
  BY <1>3
<1>6. reader[c] = "none" /\ client'[c] \notin {"out", "dialed"}
  BY <1>3 DEF IInv, Unregistered
<1>7. Unregistered'
  BY <1>2, <1>3, <1>5, <1>6, Zenon DEF IInv, Unregistered
<1>8. Writing' /\ Departed'
  BY <1>2, Zenon DEF IInv, Writing, Departed
<1> QED  BY <1>1, <1>4, <1>7, <1>8 DEF IInv

-----------------------------------------------------------------------------
(* handleConnection.                                                       *)

(* A step of a reader between "none" and "unregister": its connection is   *)
(* neither registered nor forgotten.                                       *)
LEMMA ReaderMoves ==
  ASSUME IInv, NEW c \in Conn, NEW v \in {"read", "send", "closing", "exit"}, reader[c] # "none",
         reader' = [reader EXCEPT ![c] = v],
         UNCHANGED <<client, out, acc, incoming, master, left, cur, active, log, since, writer, hand,
                     queue, socket>>
  PROVE  Lines' /\ Unregistered' /\ Writing' /\ Departed'
<1>1. reader'[c] = v /\ v # "none" /\ v # "unregister" /\ \A d \in Conn \ {c} : reader'[d] = reader[d]
  BY DEF IInv, TypeOK
<1>2. \A d \in Conn : /\ reader'[d] = "none" <=> reader[d] = "none"
                      /\ reader'[d] = "unregister" => reader[d] = "unregister"
  BY <1>1, Zenon
<1>3. Lines'
  BY LinesFrame, Zenon DEF IInv
<1>4. Unregistered'
  BY <1>2, Zenon DEF IInv, Unregistered
<1>5. Writing'
  BY Zenon DEF IInv, Writing
<1>6. Departed'
  BY <1>2, Zenon DEF IInv, Departed
<1> QED  BY <1>3, <1>4, <1>5, <1>6

(* ReadLine.                                                               *)
LEMMA ReadLineStep ==
  ASSUME IInv, NEW c \in Conn, ReadLine(c)
  PROVE  IInv'
<1>1. TypeOK'
  BY DEF IInv, TypeOK, ReadLine, clientVars, masterVars, connVars
<1>2. /\ UNCHANGED <<client, out, acc, incoming, master, left, cur, active, log, since, writer, hand,
                     queue, socket>>
      /\ reader[c] # "none" /\ reader' = [reader EXCEPT ![c] = "send"]
  BY DEF ReadLine, clientVars, accVars, masterVars, connVars
<1>3. Lines' /\ Unregistered' /\ Writing' /\ Departed'
  BY <1>2, ReaderMoves, Zenon
<1>4. Numbers'
  BY NumbersRead, Zenon DEF IInv
<1> QED  BY <1>1, <1>3, <1>4 DEF IInv

(* Broadcast: the reader's line goes to the master.                        *)
LEMMA BroadcastStep ==
  ASSUME IInv, NEW c \in Conn, Broadcast(c)
  PROVE  IInv'
<1>1. TypeOK'
  <2>1. <<c, taken[c]>> \in Line
    BY DEF IInv, TypeOK, Line
  <2>2. broadcast' \in Seq(Line)
    BY <2>1, AppendProperties DEF IInv, TypeOK, Broadcast
  <2> QED  BY <2>2 DEF IInv, TypeOK, Broadcast, clientVars, masterVars, connVars
<1>2. /\ UNCHANGED <<client, out, acc, incoming, master, left, cur, active, log, since, writer, hand,
                     queue, socket>>
      /\ reader[c] # "none" /\ reader' = [reader EXCEPT ![c] = "read"]
  BY DEF Broadcast, clientVars, accVars, masterVars, connVars
<1>3. Lines' /\ Unregistered' /\ Writing' /\ Departed'
  BY <1>2, ReaderMoves, Zenon
<1>4. Numbers'
  BY NumbersSent, Zenon DEF IInv
<1> QED  BY <1>1, <1>3, <1>4 DEF IInv

(* ReadFails.                                                              *)
LEMMA ReadFailsStep ==
  ASSUME IInv, NEW c \in Conn, ReadFails(c)
  PROVE  IInv'
<1>1. PICK v \in {"closing", "exit"} : reader' = [reader EXCEPT ![c] = v]
  BY DEF ReadFails, AfterReadFails
<1>2. TypeOK'
  BY <1>1 DEF IInv, TypeOK, ReadFails, clientVars, masterVars
<1>3. /\ UNCHANGED <<client, out, acc, incoming, master, left, cur, active, log, since, broadcast,
                     taken, writer, hand, queue, socket>>
      /\ reader[c] # "none"
  BY DEF ReadFails, clientVars, accVars, masterVars
<1>4. v \in {"read", "send", "closing", "exit"} /\ v # "send"
  BY <1>1
<1>5. Lines' /\ Unregistered' /\ Writing' /\ Departed'
  BY <1>1, <1>3, <1>4, ReaderMoves, Zenon
<1>6. Numbers'
  BY <1>1, <1>3, <1>4, NumbersReader, Zenon DEF IInv
<1> QED  BY <1>2, <1>5, <1>6 DEF IInv

(* CloseSocket: the connection is closed before the master hears of it.    *)
LEMMA CloseSocketStep ==
  ASSUME IInv, NEW c \in Conn, CloseSocket(c)
  PROVE  IInv'
<1>1. TypeOK'
  BY DEF IInv, TypeOK, CloseSocket, clientVars, masterVars
<1>2. /\ UNCHANGED <<client, out, acc, incoming, master, left, cur, active, log, since, broadcast,
                     taken, writer, hand, queue>>
      /\ reader[c] = "closing" /\ reader' = [reader EXCEPT ![c] = "unregister"]
  BY DEF CloseSocket, clientVars, accVars, masterVars
<1>3. /\ reader'[c] = "unregister" /\ ~socket'[c]
      /\ \A d \in Conn \ {c} : reader'[d] = reader[d] /\ socket'[d] = socket[d]
  BY DEF IInv, TypeOK, CloseSocket
<1>4. reader'[c] # "none" /\ reader[c] # "none"
  BY <1>2, <1>3
<1>5. Numbers'
  BY <1>2, NumbersReader DEF IInv
<1>6. Lines'
  BY <1>2, LinesFrame, Zenon DEF IInv
<1>7. \A d \in Conn : /\ reader'[d] = "none" <=> reader[d] = "none"
                      /\ socket'[d] => socket[d]
                      /\ reader'[d] = "unregister" => reader[d] = "unregister" \/ ~socket'[d]
  BY <1>3, <1>4, Zenon
<1>8. Unregistered'
  BY <1>2, <1>7, Zenon DEF IInv, Unregistered
<1>9. Writing'
  BY <1>2, Zenon DEF IInv, Writing
<1>10. Departed'
  <2>1. \A d \in active : d \in Conn
    BY Zenon DEF IInv, TypeOK
  <2> QED  BY <1>2, <1>7, <2>1, Zenon DEF IInv, Departed
<1> QED  BY <1>1, <1>5, <1>6, <1>8, <1>9, <1>10 DEF IInv

-----------------------------------------------------------------------------
(* writeOutgoingQueueToSocket.                                             *)

(* A step of the writer, or of the client that reads from it: what it does *)
(* to its own lines decides.                                               *)
LEMMA WriterMoves ==
  ASSUME IInv, TypeOK', NEW c \in Conn, reader[c] # "none",
         UNCHANGED <<client, acc, incoming, master, left, cur, active, log, since, broadcast, reader,
                     taken, socket>>,
         \A d \in Conn \ {c} : /\ out'[d] = out[d] /\ hand'[d] = hand[d] /\ queue'[d] = queue[d]
                              /\ writer'[d] = writer[d],
         IF writer'[c] = "write" THEN hand'[c] \in Line ELSE hand'[c] = None,
         InOrder(log, since[c], out'[c], hand'[c], queue'[c]),
         Behind(log, since[c], out[c], hand[c], queue[c])
           => Behind(log, since[c], out'[c], hand'[c], queue'[c])
  PROVE  IInv'
<1>1. Numbers'
  BY NumbersFrame, Zenon DEF IInv
<1>2. Lines'
  BY LinesOne, Zenon DEF IInv
<1>3. Unregistered'
  <2>1. \A d \in Conn : reader'[d] = "none" =>
          /\ writer'[d] = "none" /\ d \notin active'
          /\ out'[d] = <<>> /\ hand'[d] = None /\ queue'[d] = <<>>
    <3> SUFFICES ASSUME NEW d \in Conn, reader'[d] = "none"
                 PROVE  /\ writer'[d] = "none" /\ d \notin active'
                        /\ out'[d] = <<>> /\ hand'[d] = None /\ queue'[d] = <<>>
      OBVIOUS
    <3>1. reader[d] = "none" /\ d # c
      BY Zenon
    <3>2. /\ out'[d] = out[d] /\ hand'[d] = hand[d] /\ queue'[d] = queue[d]
          /\ writer'[d] = writer[d]
      BY <3>1, Zenon
    <3> QED  BY <3>1, <3>2, Zenon DEF IInv, Unregistered
  <2> QED  BY <2>1, Zenon DEF IInv, Unregistered
<1>4. Writing'
  <2> SUFFICES ASSUME NEW d \in Conn
               PROVE  IF writer'[d] = "write" THEN hand'[d] \in Line ELSE hand'[d] = None
    BY Zenon DEF Writing
  <2>1. CASE d = c
    BY <2>1
  <2>2. CASE d # c
    <3>1. hand'[d] = hand[d] /\ writer'[d] = writer[d]
      BY <2>2, Zenon
    <3> QED  BY <3>1, Zenon DEF IInv, Writing
  <2> QED  BY <2>1, <2>2
<1>5. Departed'
  BY Zenon DEF IInv, Departed
<1> QED  BY <1>1, <1>2, <1>3, <1>4, <1>5 DEF IInv

(* TakeMessage.                                                            *)
LEMMA TakeMessageStep ==
  ASSUME IInv, NEW c \in Conn, TakeMessage(c)
  PROVE  IInv'
<1> DEFINE q == queue[c]
<1>1. /\ writer[c] = "range" /\ q # <<>> /\ q \in Seq(Line)
      /\ UNCHANGED <<client, out, acc, incoming, master, left, cur, active, log, since, broadcast,
                     reader, taken, socket>>
  BY DEF IInv, TypeOK, TakeMessage, clientVars, accVars, masterVars
<1>2. Head(q) \in Line /\ Tail(q) \in Seq(Line)
  BY <1>1, HeadTailProperties
<1>3. TypeOK'
  BY <1>1, <1>2 DEF IInv, TypeOK, TakeMessage
<1>4. /\ writer'[c] = "write" /\ hand'[c] = Head(q) /\ queue'[c] = Tail(q)
      /\ \A d \in Conn \ {c} : /\ hand'[d] = hand[d] /\ queue'[d] = queue[d]
                               /\ writer'[d] = writer[d]
  BY DEF IInv, TypeOK, TakeMessage
<1> HIDE DEF q
<1>5. hand[c] = None /\ reader[c] # "none"
  BY <1>1 DEF IInv, Writing, Unregistered
<1>6. log \in Seq(Line) /\ since[c] \in Nat /\ out[c] \in Seq(Line)
  BY ConnTypes DEF IInv
<1>7. InOrder(log, since[c], out[c], None, q)
  BY <1>5, Zenon DEF IInv, Lines, q
<1>8. /\ InOrder(log, since[c], out[c], Head(q), Tail(q))
      /\ Behind(log, since[c], out[c], None, q) => Behind(log, since[c], out[c], Head(q), Tail(q))
  BY <1>1, <1>6, <1>7, TakeOrder, Zenon
<1>9. /\ InOrder(log, since[c], out'[c], hand'[c], queue'[c])
      /\ Behind(log, since[c], out[c], hand[c], queue[c])
           => Behind(log, since[c], out'[c], hand'[c], queue'[c])
  BY <1>1, <1>4, <1>5, <1>8, Zenon DEF q
<1>10. IF writer'[c] = "write" THEN hand'[c] \in Line ELSE hand'[c] = None
  BY <1>2, <1>4, Zenon
<1>11. \A d \in Conn \ {c} : /\ out'[d] = out[d] /\ hand'[d] = hand[d] /\ queue'[d] = queue[d]
                            /\ writer'[d] = writer[d]
  BY <1>1, <1>4, Zenon
<1> QED  BY <1>1, <1>3, <1>5, <1>9, <1>10, <1>11, WriterMoves, Zenon

(* RangeEnds.                                                              *)
LEMMA RangeEndsStep ==
  ASSUME IInv, NEW c \in Conn, RangeEnds(c)
  PROVE  IInv'
<1>1. /\ writer[c] = "range"
      /\ UNCHANGED <<client, out, acc, incoming, master, left, cur, active, log, since, broadcast,
                     reader, taken, hand, queue, socket>>
  BY DEF RangeEnds, clientVars, accVars, masterVars, connVars
<1>2. TypeOK'
  BY <1>1 DEF IInv, TypeOK, RangeEnds
<1>3. writer'[c] = "exit" /\ \A d \in Conn \ {c} : writer'[d] = writer[d]
  BY DEF IInv, TypeOK, RangeEnds
<1>4. hand[c] = None /\ reader[c] # "none" /\ writer'[c] # "write"
  BY <1>1, <1>3 DEF IInv, Writing, Unregistered
<1>5. IF writer'[c] = "write" THEN hand'[c] \in Line ELSE hand'[c] = None
  BY <1>1, <1>4, Zenon
<1>6. /\ InOrder(log, since[c], out'[c], hand'[c], queue'[c])
      /\ Behind(log, since[c], out[c], hand[c], queue[c])
           => Behind(log, since[c], out'[c], hand'[c], queue'[c])
  BY <1>1, Zenon DEF IInv, Lines
<1> QED  BY <1>1, <1>2, <1>3, <1>4, <1>5, <1>6, WriterMoves, Zenon

(* Deliver: the client has read the line.                                  *)
LEMMA DeliverStep ==
  ASSUME IInv, NEW c \in Conn, Deliver(c)
  PROVE  IInv'
<1> DEFINE h == hand[c]
<1> DEFINE o == Append(out[c], h)
<1>1. /\ writer[c] = "write"
      /\ UNCHANGED <<client, queue, acc, incoming, master, left, cur, active, log, since, broadcast,
                     reader, taken, socket>>
  BY DEF Deliver, accVars, masterVars, connVars
<1>2. h \in Line /\ h # None /\ reader[c] # "none"
  <2>1. h \in Line
    BY <1>1, Zenon DEF IInv, Writing
  <2>2. None \notin Line
    BY ConnTypes DEF IInv
  <2>3. reader[c] # "none"
    BY <1>1 DEF IInv, Unregistered
  <2> QED  BY <2>1, <2>2, <2>3, Zenon
<1>3. o \in Seq(Line)
  BY <1>2, AppendProperties DEF IInv, TypeOK
<1>4. TypeOK'
  BY <1>1, <1>3 DEF IInv, TypeOK, Deliver
<1>5. /\ writer'[c] = "range" /\ hand'[c] = None /\ out'[c] = o
      /\ \A d \in Conn \ {c} : /\ hand'[d] = hand[d] /\ out'[d] = out[d]
                               /\ writer'[d] = writer[d]
  BY DEF IInv, TypeOK, Deliver
<1> HIDE DEF h, o
<1>6. log \in Seq(Line) /\ since[c] \in Nat /\ out[c] \in Seq(Line) /\ queue[c] \in Seq(Line)
  BY ConnTypes DEF IInv
<1>7. InOrder(log, since[c], out[c], h, queue[c])
  BY Zenon DEF IInv, Lines, h
<1>8. /\ InOrder(log, since[c], o, None, queue[c])
      /\ Behind(log, since[c], out[c], h, queue[c]) => Behind(log, since[c], o, None, queue[c])
  BY <1>2, <1>6, <1>7, DeliverOrder, Zenon DEF o
<1>9. /\ InOrder(log, since[c], out'[c], hand'[c], queue'[c])
      /\ Behind(log, since[c], out[c], hand[c], queue[c])
           => Behind(log, since[c], out'[c], hand'[c], queue'[c])
  BY <1>1, <1>5, <1>8, Zenon DEF h
<1>10. IF writer'[c] = "write" THEN hand'[c] \in Line ELSE hand'[c] = None
  BY <1>5
<1>11. \A d \in Conn \ {c} : /\ out'[d] = out[d] /\ hand'[d] = hand[d] /\ queue'[d] = queue[d]
                            /\ writer'[d] = writer[d]
  BY <1>1, <1>5, Zenon
<1> QED  BY <1>1, <1>2, <1>4, <1>9, <1>10, <1>11, WriterMoves, Zenon

(* WriteFails: the line is lost.                                           *)
LEMMA WriteFailsStep ==
  ASSUME IInv, NEW c \in Conn, WriteFails(c)
  PROVE  IInv'
<1>1. /\ writer[c] = "write"
      /\ UNCHANGED <<client, out, queue, acc, incoming, master, left, cur, active, log, since,
                     broadcast, reader, taken, socket>>
  BY DEF WriteFails, clientVars, accVars, masterVars, connVars
<1>2. TypeOK'
  BY <1>1 DEF IInv, TypeOK, WriteFails
<1>3. /\ writer'[c] = "range" /\ hand'[c] = None
      /\ \A d \in Conn \ {c} : hand'[d] = hand[d] /\ writer'[d] = writer[d]
  BY DEF IInv, TypeOK, WriteFails
<1>4. reader[c] # "none"
  BY <1>1 DEF IInv, Unregistered
<1>5. IF writer'[c] = "write" THEN hand'[c] \in Line ELSE hand'[c] = None
  BY <1>3
<1>6. InOrder(log, since[c], out[c], hand[c], queue[c])
  BY Zenon DEF IInv, Lines
<1>7. /\ InOrder(log, since[c], out'[c], hand'[c], queue'[c])
      /\ Behind(log, since[c], out[c], hand[c], queue[c])
           => Behind(log, since[c], out'[c], hand'[c], queue'[c])
  BY <1>1, <1>3, <1>6, Zenon DEF InOrder, Behind
<1>8. \A d \in Conn \ {c} : /\ out'[d] = out[d] /\ hand'[d] = hand[d] /\ queue'[d] = queue[d]
                           /\ writer'[d] = writer[d]
  BY <1>1, <1>3, Zenon
<1> QED  BY <1>1, <1>2, <1>4, <1>5, <1>7, <1>8, WriterMoves, Zenon

-----------------------------------------------------------------------------
(* masterRoutine.                                                          *)

(* Register: the client has seen no line, and will see none from before.   *)
LEMMA RegisterStep ==
  ASSUME IInv, Register
  PROVE  IInv'
<1> DEFINE c == incoming
<1>1. /\ UNCHANGED <<client, out, master, left, cur, log, broadcast, taken, hand, queue, socket>>
      /\ master = "select" /\ acc = "register" /\ acc' = "loop"
      /\ active' = active \cup {c} /\ reader' = [reader EXCEPT ![c] = "read"]
  BY DEF Register, clientVars, connVars
<1>2. /\ c \in Conn /\ reader[c] = "none" /\ client[c] \notin {"out", "dialed"}
      /\ out[c] = <<>> /\ hand[c] = None /\ queue[c] = <<>>
  BY <1>1, Zenon DEF IInv, Unregistered
<1>3. log \in Seq(Line) /\ Len(log) \in Nat
  BY LenProperties DEF IInv, TypeOK
<1>4. TypeOK'
  BY <1>1, <1>2, <1>3 DEF IInv, TypeOK, Register
<1>5. /\ reader'[c] = "read" /\ writer'[c] = "range" /\ since'[c] = Len(log)
      /\ \A d \in Conn \ {c} : /\ reader'[d] = reader[d] /\ writer'[d] = writer[d]
                               /\ since'[d] = since[d]
  BY <1>2 DEF IInv, TypeOK, Register
<1> HIDE DEF c
<1>6. Numbers'
  BY <1>1, <1>2, NumbersReader DEF IInv
<1>7. Lines'
  <2>1. InOrder(log, Len(log), <<>>, None, <<>>)
    BY DEF InOrder
  <2>2. Len(log) <= Len(log)
    BY <1>3
  <2>3. \A d \in Conn : /\ since'[d] <= Len(log')
                        /\ InOrder(log', since'[d], out'[d], hand'[d], queue'[d])
    <3> TAKE d \in Conn
    <3>1. CASE d = c
      BY <1>1, <1>2, <1>5, <2>1, <2>2, <3>1, Zenon
    <3>2. CASE d # c
      <4>1. since'[d] = since[d]
        BY <1>5, <3>2, Zenon
      <4> QED  BY <1>1, <4>1, Zenon DEF IInv, Lines
    <3> QED  BY <3>1, <3>2
  <2>4. master' # "broadcast"
    BY <1>1
  <2> QED  BY <2>3, <2>4, Zenon DEF Lines
<1>8. reader'[c] # "none" /\ reader'[c] # "unregister" /\ writer'[c] # "write" /\ c \in active'
  BY <1>1, <1>5
<1>9. Unregistered'
  <2>1. \A d \in Conn : client'[d] \in {"out", "dialed"} => d # c
    BY <1>1, <1>2, Zenon
  <2>2. \A d \in Conn : client'[d] \in {"out", "dialed"} => reader'[d] = "none"
    BY <1>1, <1>5, <2>1, Zenon DEF IInv, Unregistered
  <2>3. ASSUME NEW d \in Conn, reader'[d] = "none"
        PROVE  /\ writer'[d] = "none" /\ d \notin active'
               /\ out'[d] = <<>> /\ hand'[d] = None /\ queue'[d] = <<>>
    <3>1. d # c
      BY <1>8, <2>3, Zenon
    <3>2. reader[d] = "none" /\ writer'[d] = writer[d]
      BY <1>5, <2>3, <3>1, Zenon
    <3> QED  BY <1>1, <3>1, <3>2, Zenon DEF IInv, Unregistered
  <2>4. acc' # "register"
    BY <1>1
  <2> QED  BY <2>2, <2>3, <2>4, Zenon DEF Unregistered
<1>10. Writing'
  <2> SUFFICES ASSUME NEW d \in Conn
               PROVE  IF writer'[d] = "write" THEN hand'[d] \in Line ELSE hand'[d] = None
    BY Zenon DEF Writing
  <2>1. CASE d = c
    BY <1>1, <1>2, <1>8, <2>1, Zenon
  <2>2. CASE d # c
    <3>1. hand'[d] = hand[d] /\ writer'[d] = writer[d]
      BY <1>1, <1>5, <2>2, Zenon
    <3> QED  BY <3>1, Zenon DEF IInv, Writing
  <2> QED  BY <2>1, <2>2
<1>11. Departed'
  <2>1. master' # "signal" /\ master' # "exit"
    BY <1>1
  <2>2. \A d \in Conn : d = c \/ reader'[d] = reader[d]
    BY <1>5, Zenon
  <2>3. \A d \in Conn : d \notin active' => d \notin active
    BY <1>1, Zenon
  <2> QED  BY <1>1, <1>8, <2>1, <2>2, <2>3, Zenon DEF IInv, Departed
<1> QED  BY <1>4, <1>6, <1>7, <1>9, <1>10, <1>11 DEF IInv

(* Unregister: the reader has closed the connection.                       *)
LEMMA UnregisterStep ==
  ASSUME IInv, NEW c \in Conn, Unregister(c)
  PROVE  IInv'
<1>1. /\ UNCHANGED <<client, out, acc, incoming, master, left, cur, log, since, broadcast, taken,
                     writer, hand, queue, socket>>
      /\ master = "select" /\ reader[c] = "unregister" /\ active' = active \ {c}
      /\ reader' = [reader EXCEPT ![c] = "exit"]
  BY DEF Unregister, clientVars, accVars, connVars
<1>2. TypeOK'
  BY <1>1 DEF IInv, TypeOK
<1>3. reader'[c] = "exit" /\ \A d \in Conn \ {c} : reader'[d] = reader[d]
  BY <1>1 DEF IInv, TypeOK
<1>4. /\ reader[c] # "none" /\ reader'[c] # "none" /\ reader'[c] # "unregister"
      /\ master # "broadcast" /\ master # "signal" /\ master # "exit"
  BY <1>1, <1>3
<1>5. Numbers'
  BY <1>1, NumbersReader DEF IInv
<1>6. Lines'
  BY <1>1, <1>4, LinesFrame, Zenon DEF IInv
<1>7. ~socket[c]
  BY <1>1, Zenon DEF IInv, Departed
<1>8. \A d \in Conn : /\ reader'[d] = "none" <=> reader[d] = "none"
                      /\ reader'[d] = "unregister" => reader[d] = "unregister"
                      /\ d \in active' => d \in active
                      /\ d \notin active' => d \notin active \/ d = c
  BY <1>1, <1>3, <1>4, Zenon
<1>9. Unregistered'
  BY <1>1, <1>8, Zenon DEF IInv, Unregistered
<1>10. Writing'
  BY <1>1, Zenon DEF IInv, Writing
<1>11. Departed'
  BY <1>1, <1>4, <1>7, <1>8, Zenon DEF IInv, Departed
<1> QED  BY <1>2, <1>5, <1>6, <1>9, <1>10, <1>11 DEF IInv

(* BroadcastBegins: every registered client is one line behind.            *)
LEMMA BroadcastBeginsStep ==
  ASSUME IInv, BroadcastBegins
  PROVE  IInv'
<1> DEFINE x == Head(broadcast)
<1>1. /\ UNCHANGED <<client, out, acc, incoming, active, since, reader, taken, writer, hand, queue,
                     socket>>
      /\ master' = "broadcast" /\ left' = active /\ cur' = x /\ broadcast # <<>>
      /\ broadcast' = Tail(broadcast) /\ log' = Append(log, x)
  BY DEF BroadcastBegins, clientVars, accVars, connVars
<1>2. log \in Seq(Line) /\ broadcast \in Seq(Line) /\ active \subseteq Conn
  BY DEF IInv, TypeOK
<1>3. x \in Line /\ Tail(broadcast) \in Seq(Line)
  BY <1>1, <1>2, HeadTailProperties
<1> HIDE DEF x
<1>4. log' \in Seq(Line) /\ Len(log) \in Nat /\ Len(log') = Len(log) + 1 /\ log'[Len(log')] = x
  BY <1>1, <1>2, <1>3, AppendProperties, LenProperties
<1>5. TypeOK'
  BY <1>1, <1>2, <1>3, <1>4, Zenon DEF IInv, TypeOK
<1>6. Numbers'
  BY NumbersTaken, Zenon DEF IInv
<1>7. ASSUME NEW c \in Conn
      PROVE  /\ since[c] <= Len(log') /\ InOrder(log', since[c], out[c], hand[c], queue[c])
             /\ Behind(log', since[c], out[c], hand[c], queue[c])
  <2>1. /\ since[c] \in Nat /\ out[c] \in Seq(Line) /\ hand[c] \in Line \cup {None}
        /\ queue[c] \in Seq(Line)
    BY <1>7, ConnTypes DEF IInv
  <2>2. since[c] <= Len(log) /\ InOrder(log, since[c], out[c], hand[c], queue[c])
    BY <1>7, Zenon DEF IInv, Lines
  <2>3. /\ InOrder(log', since[c], out[c], hand[c], queue[c])
        /\ Behind(log', since[c], out[c], hand[c], queue[c])
    BY <1>1, <1>2, <1>3, <2>1, <2>2, LogGrows, Zenon
  <2> QED  BY <1>4, <2>1, <2>2, <2>3
<1>8. Lines'
  <2>1. Len(log') > 0 /\ cur' = log'[Len(log')] /\ left' \subseteq active'
    BY <1>1, <1>4
  <2> QED  BY <1>1, <1>2, <1>7, <2>1, Zenon DEF Lines
<1>9. Unregistered'
  BY <1>1, Zenon DEF IInv, Unregistered
<1>10. Writing'
  BY <1>1, Zenon DEF IInv, Writing
<1>11. master' # "signal" /\ master' # "exit"
  BY <1>1
<1>12. Departed'
  BY <1>1, <1>11, Zenon DEF IInv, Departed
<1> QED  BY <1>5, <1>6, <1>8, <1>9, <1>10, <1>12 DEF IInv

(* Enqueue: the line goes to the end of the client's queue, or the send    *)
(* panics.                                                                 *)
LEMMA EnqueueStep ==
  ASSUME IInv, NEW c \in Conn, Enqueue(c)
  PROVE  IInv'
<1>1. /\ UNCHANGED <<client, out, acc, incoming, cur, active, log, since, broadcast, reader, taken,
                     writer, hand, socket>>
      /\ master = "broadcast" /\ c \in left /\ left' = left \ {c}
      /\ master' \in {"panic", "broadcast"}
      /\ queue' = queue \/ queue' = [queue EXCEPT ![c] = Append(@, cur)]
  BY DEF Enqueue, Enqueued, clientVars, accVars
<1>2. /\ log \in Seq(Line) /\ since[c] \in Nat /\ out[c] \in Seq(Line)
      /\ hand[c] \in Line \cup {None} /\ queue[c] \in Seq(Line)
  BY ConnTypes DEF IInv
<1>3. /\ InOrder(log, since[c], out[c], hand[c], queue[c]) /\ left \subseteq active
      /\ Behind(log, since[c], out[c], hand[c], queue[c]) /\ Len(log) > 0 /\ cur = log[Len(log)]
  BY <1>1, Zenon DEF IInv, Lines
<1>4. cur \in Line
  <2>1. Len(log) \in 1 .. Len(log)
    BY <1>2, <1>3, LenProperties
  <2> QED  BY <1>2, <1>3, <2>1, ElementOfSeq
<1>5. Append(queue[c], cur) \in Seq(Line)
  BY <1>2, <1>4, AppendProperties
<1>6. queue' \in [Conn -> Seq(Line)]
  BY <1>1, <1>5 DEF IInv, TypeOK
<1>7. left' \subseteq left /\ c \notin left'
  BY <1>1, Zenon
<1>8. TypeOK'
  BY <1>1, <1>6, <1>7, Zenon DEF IInv, TypeOK
<1>9. Numbers'
  BY <1>1, NumbersFrame, Zenon DEF IInv
<1>10. /\ \A d \in Conn \ {c} : queue'[d] = queue[d]
       /\ queue'[c] = queue[c] \/ queue'[c] = Append(queue[c], cur)
  BY <1>1 DEF IInv, TypeOK
<1>11. InOrder(log, since[c], out[c], hand[c], Append(queue[c], cur))
  BY <1>2, <1>3, <1>4, EnqueueOrder, Zenon
<1>12. InOrder(log, since[c], out'[c], hand'[c], queue'[c])
  BY <1>1, <1>3, <1>10, <1>11, Zenon
<1>13. \A d \in Conn \ {c} : out'[d] = out[d] /\ hand'[d] = hand[d] /\ queue'[d] = queue[d]
  BY <1>1, <1>10, Zenon
<1>14. Lines'
  BY <1>1, <1>7, <1>12, <1>13, LinesOne, Zenon DEF IInv
<1>15. reader[c] # "none"
  BY <1>1, <1>3, Zenon DEF IInv, Unregistered
<1>16. \A d \in Conn : reader[d] = "none" => queue'[d] = queue[d]
  BY <1>10, <1>15, Zenon
<1>17. Unregistered'
  BY <1>1, <1>16, Zenon DEF IInv, Unregistered
<1>18. Writing'
  BY <1>1, Zenon DEF IInv, Writing
<1>19. master' # "signal" /\ master' # "exit"
  BY <1>1
<1>20. Departed'
  BY <1>1, <1>19, Zenon DEF IInv, Departed
<1> QED  BY <1>8, <1>9, <1>14, <1>17, <1>18, <1>20 DEF IInv

(* CloseConn: the master closes a connection before it forgets it.         *)
LEMMA CloseConnStep ==
  ASSUME IInv, NEW c \in Conn, CloseConn(c)
  PROVE  IInv'
<1>1. /\ UNCHANGED <<client, out, acc, incoming, left, active, log, since, broadcast, reader, taken,
                     writer, hand, queue>>
      /\ master' = "signal" /\ cur' = c /\ c \in active
  BY DEF CloseConn, clientVars, accVars
<1>2. TypeOK'
  BY <1>1 DEF IInv, TypeOK, CloseConn
<1>3. ~socket'[c] /\ \A d \in Conn : socket'[d] => socket[d]
  BY DEF IInv, TypeOK, CloseConn
<1>4. master' # "broadcast" /\ master' # "exit"
  BY <1>1
<1>5. Numbers' /\ Lines'
  BY <1>1, <1>4, NumbersFrame, LinesFrame, Zenon DEF IInv
<1>6. Unregistered'
  BY <1>1, Zenon DEF IInv, Unregistered
<1>7. Writing'
  BY <1>1, Zenon DEF IInv, Writing
<1>8. Departed'
  BY <1>1, <1>3, <1>4, Zenon DEF IInv, Departed
<1> QED  BY <1>2, <1>5, <1>6, <1>7, <1>8 DEF IInv

(* SignalConn: the master forgets the connection it has closed.            *)
LEMMA SignalConnStep ==
  ASSUME IInv, SignalConn
  PROVE  IInv'
<1>1. /\ UNCHANGED <<client, out, acc, incoming, left, log, since, broadcast, reader, taken, writer,
                     hand, queue, socket>>
      /\ master = "signal" /\ master' = "close" /\ active' = active \ {cur}
  BY DEF SignalConn, clientVars, accVars
<1>2. ~socket[cur]
  BY <1>1, Zenon DEF IInv, Departed
<1>3. master' # "broadcast" /\ master' # "exit" /\ master' # "signal"
  BY <1>1
<1>4. \A d : /\ d \in active' => d \in active
             /\ d \notin active' => d \notin active \/ d = cur
  BY <1>1, Zenon
<1>5. TypeOK'
  BY <1>1, <1>4, Zenon DEF IInv, TypeOK
<1>6. Numbers' /\ Lines'
  BY <1>1, <1>3, NumbersFrame, LinesFrame, Zenon DEF IInv
<1>7. Unregistered'
  BY <1>1, <1>4, Zenon DEF IInv, Unregistered
<1>8. Writing'
  BY <1>1, Zenon DEF IInv, Writing
<1>9. Departed'
  BY <1>1, <1>2, <1>3, <1>4, Zenon DEF IInv, Departed
<1> QED  BY <1>5, <1>6, <1>7, <1>8, <1>9 DEF IInv

-----------------------------------------------------------------------------

(* In every state the lines of a client are in the master's order, their   *)
(* numbers go up, and a registered connection that the master has          *)
(* forgotten is closed.                                                    *)
THEOREM LinesRely == Spec => []IInv
<1>1. Init => IInv
  <2> SUFFICES ASSUME Init PROVE IInv
    OBVIOUS
  <2> USE DEF Init
  <2>1. TypeOK
    BY DEF TypeOK
  <2>2. Numbers
    BY DEF Numbers, Rising, Taken
  <2>3. Lines
    BY DEF Lines, InOrder
  <2>4. Unregistered /\ Writing /\ Departed
    BY DEF Unregistered, Writing, Departed
  <2> QED  BY <2>1, <2>2, <2>3, <2>4 DEF IInv
<1>2. IInv /\ [Next]_vars => IInv'
  <2> SUFFICES ASSUME IInv, [Next]_vars  PROVE IInv'
    OBVIOUS
  <2>1. CASE UNCHANGED vars
    <3>1. UNCHANGED <<client, out, active, log, since, broadcast, reader, taken, writer, hand, queue,
                      socket, acc, incoming, left, master, cur>>
      BY <2>1 DEF vars, clientVars, accVars, masterVars, connVars
    <3> QED  BY <3>1, QuietStep, Zenon
  <2>2. CASE Close
    BY <2>2, CloseStep
  <2>3. CASE AcceptStep
    BY <2>3, AcceptLoopStep, AcceptStepLemma, Zenon DEF AcceptStep
  <2>4. CASE MasterStep
    BY <2>4, RegisterStep, BroadcastBeginsStep, MasterLoopStep, SignalConnStep, UnregisterStep,
       EnqueueStep, DropStep, CloseConnStep, Zenon DEF MasterStep
  <2>5. ASSUME NEW c \in Conn, Connect(c) \/ Hang(c) \/ Deliver(c)  PROVE IInv'
    BY <2>5, ConnectStep, HangStep, DeliverStep, Zenon
  <2>6. ASSUME NEW c \in Conn, ReaderStep(c)  PROVE IInv'
    BY <2>6, ReadLineStep, BroadcastStep, ReadFailsStep, CloseSocketStep, Zenon DEF ReaderStep
  <2>7. ASSUME NEW c \in Conn, WriterStep(c)  PROVE IInv'
    BY <2>7, TakeMessageStep, RangeEndsStep, WriteFailsStep, Zenon DEF WriterStep
  <2> QED  BY <2>1, <2>2, <2>3, <2>4, <2>5, <2>6, <2>7, Zenon DEF Next
<1> QED  BY <1>1, <1>2, PTL DEF Spec

(* A line is in the log once, so that its position is the place where it   *)
(* stands.                                                                 *)
LEMMA PositionIs ==
  ASSUME log \in Seq(Line), Rising(log), NEW i \in 1 .. Len(log)
  PROVE  Position(log[i]) = i
<1>1. Len(log) \in Nat
  BY LenProperties
<1> DEFINE k == Position(log[i])
<1>2. k \in 1 .. Len(log) /\ log[k] = log[i]
  BY DEF Position
<1> HIDE DEF k
<1>3. log[i] \in Line
  BY ElementOfSeq
<1>4. log[i][2] \in Nat
  BY <1>3 DEF Line
<1>5. ~(log[i][2] < log[i][2])
  BY <1>4
<1>6. ~(k < i) /\ ~(i < k)
  BY <1>2, <1>5, Zenon DEF Rising
<1> QED  BY <1>1, <1>2, <1>6 DEF k

(* What the order of the lines says about their positions.                 *)
LEMMA OrderPositions ==
  ASSUME log \in Seq(Line), Rising(log), NEW s \in Nat, NEW x, NEW y
  PROVE  /\ Before(log, x, y) => Position(x) < Position(y)
         /\ Since(log, s, x) => Position(x) > s
<1>1. ASSUME Before(log, x, y)  PROVE Position(x) < Position(y)
  <2>1. PICK i, j \in 1 .. Len(log) : i < j /\ log[i] = x /\ log[j] = y
    BY <1>1, Zenon DEF Before
  <2>2. Position(log[i]) = i /\ Position(log[j]) = j
    BY PositionIs
  <2> QED  BY <2>1, <2>2
<1>2. ASSUME Since(log, s, x)  PROVE Position(x) > s
  <2>1. PICK i \in 1 .. Len(log) : i > s /\ log[i] = x
    BY <1>2, Zenon DEF Since
  <2>2. Position(log[i]) = i
    BY PositionIs
  <2> QED  BY <2>1, <2>2
<1> QED  BY <1>1, <1>2

(* What a client has read, what its writer has and what is in its queue,   *)
(* put together, are in order.                                             *)
LEMMA WholeOrder ==
  ASSUME NEW l, NEW s, NEW o \in Seq(Line), NEW h \in Line \cup {None}, NEW q \in Seq(Line),
         InOrder(l, s, o, h, q),
         NEW p, p = o \o (IF h = None THEN <<>> ELSE <<h>>) \o q
  PROVE  /\ \A i \in 1 .. Len(p) : Since(l, s, p[i])
         /\ \A i, j \in 1 .. Len(p) : i < j => Before(l, p[i], p[j])
<1> DEFINE e == IF h = None THEN <<>> ELSE <<h>>
<1> DEFINE r == o \o e
<1>1. e \in Seq(Line) /\ (IF h = None THEN Len(e) = 0 ELSE Len(e) = 1 /\ e[1] = h)
  OBVIOUS
<1> HIDE DEF e
<1>2. Len(o) \in Nat /\ Len(q) \in Nat
  BY LenProperties, Zenon
<1>3. /\ r \in Seq(Line) /\ Len(r) = Len(o) + Len(e)
      /\ \A i \in 1 .. Len(o) + Len(e) : r[i] = IF i <= Len(o) THEN o[i] ELSE e[i - Len(o)]
  BY <1>1, ConcatProperties, Zenon
<1> HIDE DEF r
<1>4. p = r \o q
  BY Zenon DEF r, e
<1>5. /\ Len(p) = Len(r) + Len(q)
      /\ \A i \in 1 .. Len(r) + Len(q) : p[i] = IF i <= Len(r) THEN r[i] ELSE q[i - Len(r)]
  <2> DEFINE w == r \o q
  <2>0. r \in Seq(Line) /\ q \in Seq(Line)
    BY <1>3, Zenon
  <2>1. /\ Len(w) = Len(r) + Len(q)
        /\ \A i \in 1 .. Len(r) + Len(q) : w[i] = IF i <= Len(r) THEN r[i] ELSE q[i - Len(r)]
    BY <2>0, ConcatProperties, Zenon
  <2> HIDE DEF w
  <2>2. p = w
    BY <1>4, Zenon DEF w
  <2> QED  BY <2>1, <2>2, Zenon
<1> DEFINE InOut(i) == i \in 1 .. Len(o) /\ p[i] = o[i]
<1> DEFINE InHand(i) == h # None /\ i = Len(o) + 1 /\ p[i] = h
<1> DEFINE InQueue(i) == i > Len(r) /\ i - Len(r) \in 1 .. Len(q) /\ p[i] = q[i - Len(r)]
<1>6. ASSUME NEW i \in 1 .. Len(p)  PROVE InOut(i) \/ InHand(i) \/ InQueue(i)
  BY <1>1, <1>2, <1>3, <1>5, <1>6
<1>7. ASSUME NEW i \in 1 .. Len(p)  PROVE Since(l, s, p[i])
  BY <1>6, <1>7, Zenon DEF InOrder
<1>8. ASSUME NEW i \in 1 .. Len(p), NEW j \in 1 .. Len(p), i < j  PROVE Before(l, p[i], p[j])
  <2>1. CASE InQueue(j)
    <3>1. InQueue(i) => i - Len(r) < j - Len(r)
      BY <1>2, <1>3, <1>1, <1>8
    <3> QED  BY <1>6, <1>8, <2>1, <3>1, Zenon DEF InOrder
  <2>2. CASE InHand(j)
    <3>1. InOut(i)
      BY <1>1, <1>2, <1>3, <1>6, <1>8, <2>2
    <3> QED  BY <2>2, <3>1, Zenon DEF InOrder
  <2>3. CASE InOut(j)
    <3>1. InOut(i)
      BY <1>1, <1>2, <1>3, <1>6, <1>8, <2>3
    <3> QED  BY <1>8, <2>3, <3>1, Zenon DEF InOrder
  <2> QED  BY <1>6, <2>1, <2>2, <2>3, Zenon
<1> QED  BY <1>7, <1>8, Zenon

(* Every client sees the lines in the order in which the master took them, *)
(* none twice and none from before it was registered, and the lines of one *)
(* client in the order in which it sent them.                              *)
THEOREM OrderSafe == Spec => []Ordered
<1>1. IInv => Ordered
  <2> SUFFICES ASSUME IInv PROVE Ordered
    OBVIOUS
  <2>1. log \in Seq(Line) /\ Rising(log)
    BY DEF IInv, TypeOK, Numbers
  <2>2. ASSUME NEW c \in Conn, NEW p, p = Passed(c)
        PROVE  /\ \A i \in 1 .. Len(p) : Position(p[i]) > since[c]
               /\ \A i, j \in 1 .. Len(p) : i < j => Position(p[i]) < Position(p[j])
    <3>1. /\ out[c] \in Seq(Line) /\ hand[c] \in Line \cup {None} /\ queue[c] \in Seq(Line)
          /\ since[c] \in Nat
      BY <2>2, ConnTypes DEF IInv
    <3>2. InOrder(log, since[c], out[c], hand[c], queue[c])
      BY <2>2, Zenon DEF IInv, Lines
    <3>3. /\ \A i \in 1 .. Len(p) : Since(log, since[c], p[i])
          /\ \A i, j \in 1 .. Len(p) : i < j => Before(log, p[i], p[j])
      BY <2>2, <3>1, <3>2, WholeOrder, Zenon DEF Passed
    <3>4. \A i \in 1 .. Len(p) : Position(p[i]) > since[c]
      BY <2>1, <3>1, <3>3, OrderPositions, Zenon
    <3>5. \A i, j \in 1 .. Len(p) : i < j => Position(p[i]) < Position(p[j])
      BY <2>1, <3>1, <3>3, OrderPositions, Zenon
    <3> QED  BY <3>4, <3>5
  <2> QED  BY <2>1, <2>2 DEF Ordered, Rising
<1> QED  BY <1>1, LinesRely, PTL

(* When the master is gone, every connection it has registered is closed.  *)
THEOREM ClosedSafe == Spec => []ClosedAll
<1>1. IInv => ClosedAll
  BY Zenon DEF IInv, Departed, ClosedAll
<1> QED  BY <1>1, LinesRely, PTL
=============================================================================
