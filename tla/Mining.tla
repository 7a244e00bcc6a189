------------------------------- MODULE Mining -------------------------------
(***************************************************************************)
(* The bitcoin miner of p1: the scheduler (bitcoin/server/server.go), its  *)
(* miners (bitcoin/miner/miner.go) and clients (bitcoin/client/client.go). *)
(*                                                                         *)
(* The server is one loop: assign queued jobs to unoccupied miners, Read   *)
(* one message or failure from LSP, handle it.  todo holds the miners that *)
(* the assigning loop has not visited yet; Read waits until it is empty.   *)
(*                                                                         *)
(* LSP is used through its interface: messages of a connection arrive in   *)
(* order and once; Write fails once the connection is lost; Read reports a *)
(* lost connection, once, when no message of any connection is ready.      *)
(***************************************************************************)
EXTENDS Integers, Sequences, FiniteSets

CONSTANTS Client, Miner,   \* connection ids
          Upper,           \* Upper[c] is maxNonce of client c
          Sends,           \* bound: how many requests client c sends
          Steady,          \* the miners that never lose their connection
          Max,             \* math.MaxUint64
          Hash,            \* bitcoin.Hash of the clients' message
          Threshold,       \* MinerWorkloadThreshold
          Nil, Absent      \* Go's nil; a key that is not in the map

Uint64 == 0 .. Max
Conn == Client \cup Miner

ASSUME MiningAssumption ==
  /\ Client \cap Miner = {}
  /\ IsFiniteSet(Miner)
  /\ Max \in Nat /\ Threshold \in Nat
  /\ Hash \in [Uint64 -> Uint64]
  /\ Upper \in [Client -> Uint64]
  /\ Sends \in [Client -> Nat]
  /\ Steady \subseteq Miner

Job == [client : Client, lower : Uint64, upper : Uint64]

clientStatus == [notFinishedJob : Nat, minHash : Uint64, nonce : Uint64]

ASSUME NilAssumption ==
  Nil \notin Job /\ Absent \notin Job /\ Nil # Absent /\ Nil \notin clientStatus

VARIABLES
  minerCurrWork,    \* by miner: Absent, Nil or the job it works on
  unOccupiedMiner,  \* the miners that wait for a job
  clients,          \* by client: Nil or its clientStatus
  jobQ,             \* the queue of jobs
  todo,             \* the miners left in the assigning loop
  inbox,            \* by connection: messages ready for the server's Read
  work,             \* by miner: the requests it has not answered
  results,          \* by client: the results it was sent
  sends,            \* by connection: how many joins or requests were sent
  lost, reported    \* the lost connections, those Read has reported

serverVars == <<minerCurrWork, unOccupiedMiner, clients, jobQ, todo>>
vars == <<serverVars, inbox, work, results, sends, lost, reported>>

Message == [type : {"Join", "Request", "Result"}, hash : Uint64, nonce : Uint64]

JoinMsg == [type |-> "Join", hash |-> 0, nonce |-> 0]
RequestMsg == [type |-> "Request", hash |-> 0, nonce |-> 0]

Init ==
  /\ minerCurrWork = [m \in Miner |-> Absent]
  /\ unOccupiedMiner = {}
  /\ clients = [c \in Client |-> Nil]
  /\ jobQ = <<>>
  /\ todo = {}
  /\ inbox = [x \in Conn |-> <<>>]
  /\ work = [m \in Miner |-> <<>>]
  /\ results = [c \in Client |-> <<>>]
  /\ sends = [x \in Conn |-> 0]
  /\ lost = {}
  /\ reported = {}

-----------------------------------------------------------------------------
(* Clients, miners and the network.                                        *)

SendRequest(c) ==
  /\ c \notin lost
  /\ sends[c] < Sends[c]
  /\ sends' = [sends EXCEPT ![c] = @ + 1]
  /\ inbox' = [inbox EXCEPT ![c] = Append(@, RequestMsg)]
  /\ UNCHANGED <<serverVars, work, results, lost, reported>>

SendJoin(m) ==
  /\ m \notin lost
  /\ sends[m] = 0
  /\ sends' = [sends EXCEPT ![m] = 1]
  /\ inbox' = [inbox EXCEPT ![m] = Append(@, JoinMsg)]
  /\ UNCHANGED <<serverVars, work, results, lost, reported>>

(* The nonce with the smallest hash of a range, the first one on a tie; a  *)
(* hash of MaxUint64 is never taken.                                       *)
calculateMinHash(lower, upper) ==
  LET good == {i \in lower .. upper : Hash[i] < Max}
      best == CHOOSE i \in good : \A j \in good :
                Hash[i] < Hash[j] \/ (Hash[i] = Hash[j] /\ i <= j)
  IN  IF good = {} THEN [type |-> "Result", hash |-> Max, nonce |-> 0]
      ELSE [type |-> "Result", hash |-> Hash[best], nonce |-> best]

(* A miner answers its request.  With upper = MaxUint64 the loop condition *)
(* i <= upper never fails and no answer is ever sent.                      *)
Mine(m) ==
  /\ m \notin lost
  /\ work[m] # <<>>
  /\ Head(work[m]).upper < Max
  /\ inbox' = [inbox EXCEPT ![m] =
                 Append(@, calculateMinHash(Head(work[m]).lower, Head(work[m]).upper))]
  /\ work' = [work EXCEPT ![m] = Tail(@)]
  /\ UNCHANGED <<serverVars, results, sends, lost, reported>>

Lose(x) ==
  /\ x \in Conn \ (lost \cup Steady)
  /\ lost' = lost \cup {x}
  /\ UNCHANGED <<serverVars, inbox, work, results, sends, reported>>

-----------------------------------------------------------------------------
(* The server.  Every handler is followed by the start of the assigning    *)
(* loop.                                                                   *)

Assign == todo' = IF jobQ' = <<>> THEN {} ELSE unOccupiedMiner'

Reads(x, type) ==
  /\ todo = {}
  /\ inbox[x] # <<>>
  /\ Head(inbox[x]).type = type
  /\ inbox' = [inbox EXCEPT ![x] = Tail(@)]

HandleJoin(m) ==
  /\ Reads(m, "Join")
  /\ minerCurrWork' = [minerCurrWork EXCEPT ![m] = Nil]
  /\ unOccupiedMiner' = unOccupiedMiner \cup {m}
  /\ UNCHANGED <<clients, jobQ, work, results, sends, lost, reported>>
  /\ Assign

numOfMiner ==
  LET n == Cardinality({m \in Miner : minerCurrWork[m] # Absent})
  IN  IF n = 0 THEN 1 ELSE n

(* Variant: the last job ends like the others.                             *)
partitionJobEven(c) ==
  LET size == (Upper[c] + 1) % (Max + 1)
      interval == size \div numOfMiner
  IN  IF size <= Threshold
      THEN <<[client |-> c, lower |-> 0, upper |-> Upper[c]]>>
      ELSE [i \in 1 .. numOfMiner |->
              [client |-> c, lower |-> (i - 1) * interval,
               upper |-> (i * interval - 1) % (Max + 1)]]

(* The jobs of a request for 0 .. Upper[c], in uint64 arithmetic: if there *)
(* are more miners than nonces, all jobs but the last end at MaxUint64.    *)
partitionJob(c) ==
  LET size == (Upper[c] + 1) % (Max + 1)
      interval == size \div numOfMiner
  IN  IF size <= Threshold
      THEN <<[client |-> c, lower |-> 0, upper |-> Upper[c]]>>
      ELSE [i \in 1 .. numOfMiner |->
              [client |-> c, lower |-> (i - 1) * interval,
               upper |-> IF i = numOfMiner THEN Upper[c]
                         ELSE (i * interval - 1) % (Max + 1)]]

HandleRequest(c) ==
  /\ Reads(c, "Request")
  /\ IF clients[c] = Nil
     THEN /\ jobQ' = jobQ \o partitionJob(c)
          /\ clients' = [clients EXCEPT ![c] =
               [notFinishedJob |-> Len(partitionJob(c)), minHash |-> Max, nonce |-> 0]]
     ELSE UNCHANGED <<jobQ, clients>>
  /\ UNCHANGED <<minerCurrWork, unOccupiedMiner, work, results, sends, lost, reported>>
  /\ Assign

(* The status of a client after one more of its jobs is done.              *)
Updated(status, msg) ==
  [notFinishedJob |-> status.notFinishedJob - 1,
   minHash |-> IF msg.hash < status.minHash THEN msg.hash ELSE status.minHash,
   nonce |-> IF msg.hash < status.minHash THEN msg.nonce ELSE status.nonce]

(* updateResult.  Without a job (workU == nil) the server would panic; the *)
(* invariant JobsAccounted says that this does not happen.                 *)
HandleResult(m) ==
  /\ Reads(m, "Result")
  /\ minerCurrWork[m] \in Job
  /\ LET c == minerCurrWork[m].client
         status == Updated(clients[c], Head(inbox[m]))
         done == clients[c] # Nil /\ status.notFinishedJob = 0
     IN  /\ clients' = IF clients[c] = Nil THEN clients
                       ELSE [clients EXCEPT ![c] = IF done THEN Nil ELSE status]
         /\ results' = IF done /\ c \notin lost
                       THEN [results EXCEPT ![c] =
                              Append(@, [hash |-> status.minHash, nonce |-> status.nonce])]
                       ELSE results
  /\ minerCurrWork' = [minerCurrWork EXCEPT ![m] = Nil]
  /\ unOccupiedMiner' = unOccupiedMiner \cup {m}
  /\ UNCHANGED <<jobQ, work, sends, lost, reported>>
  /\ Assign

(* Variant: the job of a lost miner is dropped.                            *)
RequeueNever(x) == jobQ

(* The job of a lost miner goes back to the front of the queue.            *)
Requeue(x) == IF minerCurrWork[x] = Nil THEN jobQ ELSE <<minerCurrWork[x]>> \o jobQ

HandleFailure(x) ==
  /\ todo = {}
  /\ x \in lost \ reported
  /\ \A y \in Conn : inbox[y] = <<>>
  /\ reported' = reported \cup {x}
  /\ IF x \in Miner /\ minerCurrWork[x] # Absent
     THEN /\ jobQ' = Requeue(x)
          /\ unOccupiedMiner' = unOccupiedMiner \ {x}
          /\ minerCurrWork' = [minerCurrWork EXCEPT ![x] = Absent]
          /\ UNCHANGED clients
     ELSE /\ clients' = [c \in Client |-> IF c = x THEN Nil ELSE clients[c]]
          /\ UNCHANGED <<jobQ, unOccupiedMiner, minerCurrWork>>
  /\ UNCHANGED <<inbox, work, results, sends, lost>>
  /\ Assign

TakeJob(m, job) ==
  /\ minerCurrWork' = [minerCurrWork EXCEPT ![m] = job]
  /\ unOccupiedMiner' = unOccupiedMiner \ {m}
  /\ work' = [work EXCEPT ![m] = Append(@, job)]

(* One turn of the loop over unOccupiedMiner: drop the jobs of clients     *)
(* that are gone, then hand the first job to m unless the write fails.     *)
AssignJob(m) ==
  /\ m \in todo
  /\ \E k \in 1 .. Len(jobQ) + 1 :
       /\ \A i \in 1 .. k - 1 : clients[jobQ[i].client] = Nil
       /\ k <= Len(jobQ) => clients[jobQ[k].client] # Nil
       /\ IF k <= Len(jobQ) /\ m \notin lost
          THEN jobQ' = SubSeq(jobQ, k + 1, Len(jobQ)) /\ TakeJob(m, jobQ[k])
          ELSE /\ jobQ' = SubSeq(jobQ, k, Len(jobQ))
               /\ UNCHANGED <<minerCurrWork, unOccupiedMiner, work>>
  /\ todo' = IF jobQ' = <<>> THEN {} ELSE todo \ {m}
  /\ UNCHANGED <<clients, inbox, results, sends, lost, reported>>

Server ==
  \/ \E m \in Miner : HandleJoin(m) \/ HandleResult(m) \/ AssignJob(m)
  \/ \E c \in Client : HandleRequest(c)
  \/ \E x \in Conn : HandleFailure(x)

Next ==
  \/ Server
  \/ \E c \in Client : SendRequest(c)
  \/ \E m \in Miner : SendJoin(m) \/ Mine(m)
  \/ \E x \in Conn : Lose(x)

Spec == Init /\ [][Next]_vars

(* The server loop never stops while it has something to do, LSP delivers  *)
(* the messages, and a miner whose connection lives joins and computes.    *)
Fairness ==
  /\ WF_vars(Server)
  /\ \A m \in Miner : WF_vars(SendJoin(m)) /\ WF_vars(Mine(m))

FairSpec == Spec /\ Fairness

-----------------------------------------------------------------------------

(* The count of unfinished jobs of a running request is the number of its  *)
(* jobs in the queue and at miners, through losses, re-queuing and dropped *)
(* jobs; so it reaches 0 exactly when the last job is done.  And a Result  *)
(* that waits to be read has its job in minerCurrWork, which updateResult  *)
(* dereferences, also when a miner was handed several jobs in a row.       *)
JobsAccounted ==
  /\ \A c \in Client : clients[c] # Nil =>
       /\ clients[c].notFinishedJob > 0
       /\ clients[c].notFinishedJob =
            Cardinality({i \in 1 .. Len(jobQ) : jobQ[i].client = c})
            + Cardinality({m \in Miner : minerCurrWork[m] \in Job /\ minerCurrWork[m].client = c})
  /\ \A m \in Miner :
       inbox[m] # <<>> /\ Head(inbox[m]).type = "Result" => minerCurrWork[m] \in Job

(* What a client receives is the minimum over its whole range 0 .. Upper,  *)
(* whatever the partition and the miners that failed on the way.           *)
ResultIsMinimum ==
  \A c \in Client : \A i \in 1 .. Len(results[c]) :
    LET r == results[c][i]
    IN  /\ \A n \in 0 .. Upper[c] : r.hash <= Hash[n]
        /\ r.hash < Max => r.nonce \in 0 .. Upper[c] /\ Hash[r.nonce] = r.hash

(* Every client that asks is answered or loses its connection, as long as  *)
(* one miner stays and no range ends at MaxUint64, which would occupy a    *)
(* miner for good.                                                         *)
EveryRequestAnswered ==
  (\A c \in Client : Upper[c] < Max) =>
    \A c \in Client : sends[c] > 0 ~> (results[c] # <<>> \/ c \in lost)
=============================================================================
