---------------------------- MODULE StorageRing ----------------------------
(***************************************************************************)
(* How the storage servers of Tribbler find each other and divide the keys *)
(* (p2, storageserver/storageserver_impl.go), and how a libstore learns of *)
(* the ring and picks a server (libstore/libstore_impl.go).                *)
(*                                                                         *)
(* Slaves register with the master until it has heard of numNodes servers. *)
(* A handler of the master is atomic under ss.mutex, except that the one   *)
(* that completes the ring keeps the mutex until NewStorageServer has      *)
(* taken its signal.  A slave may be killed and started again under the    *)
(* same address with another, random node ID; requests of its earlier life *)
(* may still be on their way.                                              *)
(***************************************************************************)
EXTENDS Integers, Sequences, FiniteSets

CONSTANTS Host, Master, Lib,
          numNodes,
          Id,          \* node IDs, a subset of 0 .. 2^32 - 1
          Hash,        \* values of StoreHash
          None,
          MaxTries,    \* how often NewLibstore asks
          Restartable, \* bound: the slaves that are restarted
          MaxRestarts  \* bound: how often each of them is

ASSUME RingAssumption ==
  /\ IsFiniteSet(Host) /\ Master \in Host
  /\ None \notin [host : Host, id : Id, life : Nat]
  /\ numNodes \in Nat \ {0} /\ Id \subseteq Nat /\ Hash \subseteq Nat
  /\ MaxTries \in Nat /\ MaxRestarts \in Nat /\ Restartable \subseteq Host \ {Master}

Node == [host : Host, id : Id]
RingList == {<<>>} \cup [1 .. numNodes -> Node]

VARIABLES
  state,        \* NewStorageServer of each host
  nodeID, status, serversList,
  serversMap,   \* the master's
  requests,     \* RegisterServer calls that have not been handled
  call,         \* where the slave's current call is: its status when it returned
  reply,        \* and reply.Servers
  broken,       \* hosts whose connection to the master is shut down
  signalling,   \* the request whose handler waits at masterReadySignal
  life,         \* how often each host was restarted
  lib, num, servers   \* NewLibstore: its state, tries, and ls.Servers

libVars == <<lib, num, servers>>
hostVars == <<nodeID, life>>
ringVars == <<state, status, serversList, serversMap, requests, call, reply, broken, signalling,
              hostVars, libVars>>

RingInit ==
  /\ state = [h \in Host |-> "new"]
  /\ nodeID \in [Host -> Id]
  /\ status = [h \in Host |-> "NotReady"]
  /\ serversList = [h \in Host |-> <<>>]
  /\ serversMap = [h \in {} |-> 0]
  /\ requests = {}
  /\ call = [h \in Host |-> "none"]
  /\ reply = [h \in Host |-> <<>>]
  /\ broken = {}
  /\ signalling = None
  /\ life = [h \in Host |-> 0]
  /\ lib = [l \in Lib |-> "new"]
  /\ num = [l \in Lib |-> 0]
  /\ servers = [l \in Lib |-> <<>>]

Listening == state[Master] # "new"

RequestOf(h) == [host |-> h, id |-> nodeID[h], life |-> life[h]]

-----------------------------------------------------------------------------
(* NewStorageServer.                                                       *)

(* The master listens and registers itself in a goroutine.                 *)
StartMaster ==
  /\ state[Master] = "new"
  /\ state' = [state EXCEPT ![Master] = "waiting"]
  /\ requests' = requests \cup {RequestOf(Master)}
  /\ UNCHANGED <<status, serversList, serversMap, call, reply, broken, signalling, hostVars, libVars>>

(* A slave that cannot dial the master gives up.                           *)
StartSlave(h) ==
  /\ h # Master /\ state[h] = "new"
  /\ state' = [state EXCEPT ![h] = IF Listening THEN "waiting" ELSE "failed"]
  /\ UNCHANGED <<status, serversList, serversMap, requests, call, reply, broken, signalling,
                 hostVars, libVars>>

(* The loop of a slave: a call, and what came of it.  On a client that is  *)
(* shut down every call fails.                                             *)
CallRegister(h) ==
  /\ h # Master /\ state[h] = "waiting" /\ call[h] = "none" /\ h \notin broken
  /\ requests' = requests \cup {RequestOf(h)}
  /\ call' = [call EXCEPT ![h] = "sent"]
  /\ UNCHANGED <<state, status, serversList, serversMap, reply, broken, signalling,
                 hostVars, libVars>>

(* Variant: the slave takes an answer of NotReady, too.                    *)
LeavesLoopAlways(h) == call[h] \in {"OK", "NotReady"}

LeavesLoop(h) == call[h] = "OK"

RegisterReturns(h) ==
  /\ state[h] = "waiting" /\ call[h] \in {"OK", "NotReady", "error"}
  /\ call' = [call EXCEPT ![h] = "none"]
  /\ IF LeavesLoop(h)
     THEN /\ state' = [state EXCEPT ![h] = "ready"]
          /\ status' = [status EXCEPT ![h] = "OK"]
          /\ serversList' = [serversList EXCEPT ![h] = reply[h]]
     ELSE UNCHANGED <<state, status, serversList>>
  /\ reply' = [reply EXCEPT ![h] = <<>>]
  /\ UNCHANGED <<serversMap, requests, broken, signalling, hostVars, libVars>>

(* The connection to the master breaks.                                    *)
Break(h) ==
  /\ h # Master /\ state[h] = "waiting" /\ h \notin broken
  /\ broken' = broken \cup {h}
  /\ call' = [call EXCEPT ![h] = "none"]
  /\ reply' = [reply EXCEPT ![h] = <<>>]
  /\ UNCHANGED <<state, status, serversList, serversMap, requests, signalling, hostVars, libVars>>

(* A slave is killed and will start anew.                                  *)
Restart(h) ==
  /\ h \in Restartable /\ state[h] # "new" /\ life[h] < MaxRestarts
  /\ life' = [life EXCEPT ![h] = @ + 1]
  /\ \E id \in Id : nodeID' = [nodeID EXCEPT ![h] = id]
  /\ state' = [state EXCEPT ![h] = "new"]
  /\ status' = [status EXCEPT ![h] = "NotReady"]
  /\ serversList' = [serversList EXCEPT ![h] = <<>>]
  /\ call' = [call EXCEPT ![h] = "none"]
  /\ reply' = [reply EXCEPT ![h] = <<>>]
  /\ broken' = broken \ {h}
  /\ UNCHANGED <<serversMap, requests, signalling, libVars>>

-----------------------------------------------------------------------------
(* RegisterServer on the master.                                           *)

(* The reply reaches the caller if it still waits for it.                  *)
Answer(r, result) ==
  IF call[r.host] = "sent" /\ r.life = life[r.host]
  THEN /\ call' = [call EXCEPT ![r.host] = result]
       /\ reply' = [reply EXCEPT ![r.host] =
                      IF result = "OK" THEN serversList[Master] ELSE @]
  ELSE UNCHANGED <<call, reply>>

Entered(r) ==
  [h \in DOMAIN serversMap \cup {r.host} |-> IF h = r.host THEN r.id ELSE serversMap[h]]

(* What copying the map and sorting the copy by node ID ends with.         *)
IsRing(list, map) ==
  /\ \A i \in DOMAIN list : list[i].host \in DOMAIN map /\ list[i].id = map[list[i].host]
  /\ \A i, j \in DOMAIN list : i # j => list[i].host # list[j].host
  /\ \A i, j \in DOMAIN list : i < j => list[i].id <= list[j].id

(* Variant: the list is made again whenever a server registers.            *)
CompletesAgain(r) == Cardinality(DOMAIN Entered(r)) = numNodes

Completes(r) ==
  Cardinality(DOMAIN Entered(r)) = numNodes /\ r.host \notin DOMAIN serversMap

Result(r) ==
  LET n == Cardinality(DOMAIN Entered(r))
  IN  IF n > numNodes THEN "error" ELSE IF n = numNodes THEN "OK" ELSE "NotReady"

RegisterServer(r) ==
  /\ r \in requests /\ signalling = None
  /\ requests' = requests \ {r}
  /\ serversMap' = Entered(r)
  /\ IF Completes(r)
     THEN /\ \E list \in [1 .. numNodes -> Node] :
               /\ IsRing(list, Entered(r))
               /\ serversList' = [serversList EXCEPT ![Master] = list]
          /\ status' = [status EXCEPT ![Master] = "OK"]
          /\ signalling' = r
          /\ UNCHANGED <<call, reply>>
     ELSE /\ Answer(r, Result(r))
          /\ UNCHANGED <<serversList, status, signalling>>
  /\ UNCHANGED <<state, broken, hostVars, libVars>>

(* NewStorageServer of the master takes the signal and returns; the        *)
(* handler goes on and replies.                                            *)
MasterReady ==
  /\ signalling # None /\ state[Master] = "waiting"
  /\ state' = [state EXCEPT ![Master] = "ready"]
  /\ Answer(signalling, "OK")
  /\ signalling' = None
  /\ UNCHANGED <<status, serversList, serversMap, requests, broken, hostVars, libVars>>

-----------------------------------------------------------------------------
(* NewLibstore.                                                            *)

StartLib(l) ==
  /\ lib[l] = "new"
  /\ lib' = [lib EXCEPT ![l] = IF Listening THEN "asking" ELSE "failed"]
  /\ UNCHANGED <<state, status, serversList, serversMap, requests, call, reply, broken, signalling,
                 hostVars, num, servers>>

(* A call of GetServers, whose handler waits for the mutex of the master.  *)
GetServers(l) ==
  /\ lib[l] = "asking" /\ num[l] < MaxTries /\ signalling = None
  /\ num' = [num EXCEPT ![l] = @ + 1]
  /\ IF status[Master] = "OK"
     THEN /\ lib' = [lib EXCEPT ![l] = "ready"]
          /\ servers' = [servers EXCEPT ![l] = serversList[Master]]
     ELSE UNCHANGED <<lib, servers>>
  /\ UNCHANGED <<state, status, serversList, serversMap, requests, call, reply, broken, signalling,
                 hostVars>>

(* The call fails, or it was the last try.                                 *)
GiveUp(l) ==
  /\ lib[l] = "asking"
  /\ lib' = [lib EXCEPT ![l] = "failed"]
  /\ UNCHANGED <<state, status, serversList, serversMap, requests, call, reply, broken, signalling,
                 hostVars, num, servers>>

-----------------------------------------------------------------------------

RingNext ==
  \/ StartMaster \/ MasterReady
  \/ \E h \in Host : \/ StartSlave(h) \/ CallRegister(h) \/ RegisterReturns(h)
                     \/ Break(h) \/ Restart(h)
  \/ \E r \in requests : RegisterServer(r)
  \/ \E l \in Lib : StartLib(l) \/ GetServers(l) \/ GiveUp(l)

RingSpec == RingInit /\ [][RingNext]_ringVars

(* Goroutines run, slaves keep calling and handlers get the mutex.         *)
RingFairness ==
  /\ WF_ringVars(StartMaster) /\ WF_ringVars(MasterReady)
  /\ \A h \in Host : /\ WF_ringVars(CallRegister(h)) /\ WF_ringVars(RegisterReturns(h))
                     /\ SF_ringVars(\E r \in requests : r.host = h /\ RegisterServer(r))

RingFairSpec == RingSpec /\ RingFairness

-----------------------------------------------------------------------------
(* Which server a key belongs to.                                          *)

Smallest(S) == CHOOSE i \in S : \A j \in S : i <= j

(* Variant: a key that hashes to the ID of a server goes to the next one.  *)
FindshashringNext(list, hash) ==
  LET stop == {i \in DOMAIN list : list[i].id > hash}
  IN  list[IF stop = {} THEN 1 ELSE Smallest(stop)].host

(* The loop stops at the first node that is not below the hash; past the   *)
(* end it takes the first one.                                             *)
Findshashring(list, hash) ==
  LET stop == {i \in DOMAIN list : list[i].id >= hash}
  IN  list[IF stop = {} THEN 1 ELSE Smallest(stop)].host

checkIsRightServer(h, hash) ==
  LET list == serversList[h]
      found == {i \in DOMAIN list : hash <= list[i].id}
      nodeIDBelong == IF found = {} THEN list[1].id ELSE list[Smallest(found)].id
  IN  nodeIDBelong = nodeID[h]

-----------------------------------------------------------------------------

RingTypeOK ==
  /\ state \in [Host -> {"new", "waiting", "ready", "failed"}]
  /\ nodeID \in [Host -> Id]
  /\ status \in [Host -> {"NotReady", "OK"}]
  /\ serversList \in [Host -> RingList]
  /\ DOMAIN serversMap \subseteq Host /\ \A h \in DOMAIN serversMap : serversMap[h] \in Id
  /\ requests \subseteq [host : Host, id : Id, life : Nat]
  /\ call \in [Host -> {"none", "sent", "OK", "NotReady", "error"}]
  /\ reply \in [Host -> RingList]
  /\ broken \subseteq Host /\ life \in [Host -> Nat]
  /\ signalling \in [host : Host, id : Id, life : Nat] \cup {None}
  /\ lib \in [Lib -> {"new", "asking", "ready", "failed"}]
  /\ num \in [Lib -> Nat]
  /\ servers \in [Lib -> RingList]

(* Everyone who knows the ring knows the same one: the servers that answer *)
(* requests and the libstores that send them hold one list, although they  *)
(* got it at different times, after lost answers and repeated calls, and   *)
(* while other servers came and went.                                      *)
RingsAgree ==
  /\ \A h \in Host : status[h] = "OK" =>
       serversList[h] = serversList[Master] /\ DOMAIN serversList[h] = 1 .. numNodes
  /\ \A l \in Lib : lib[l] = "ready" =>
       servers[l] = serversList[Master] /\ DOMAIN servers[l] = 1 .. numNodes

(* What makes the properties inductive.  The ring is made once: the master *)
(* is ready exactly when it has heard of numNodes servers.                 *)
MadeOnce == status[Master] = "OK" <=> Cardinality(DOMAIN serversMap) >= numNodes

(* The list is sorted, names a server once, and has the node ID of every   *)
(* server that was never restarted.                                        *)
ListMade ==
  status[Master] = "OK" =>
    /\ \A i, j \in 1 .. numNodes : i < j =>
         /\ serversList[Master][i].host # serversList[Master][j].host
         /\ serversList[Master][i].id <= serversList[Master][j].id
    /\ \A i \in 1 .. numNodes : LET node == serversList[Master][i]
                               IN  life[node.host] = 0 => node.id = nodeID[node.host]

(* Nobody has the ring before the master.                                  *)
MasterFirst ==
  /\ signalling # None => status[Master] = "OK"
  /\ \A h \in Host : status[h] = "OK" => status[Master] = "OK"
  /\ \A l \in Lib : lib[l] = "ready" => status[Master] = "OK"

(* The list in every answer is the master's.                               *)
AnswersList ==
  \A h \in Host : call[h] = "OK" => status[Master] = "OK" /\ reply[h] = serversList[Master]

(* A server that was never restarted has one node ID wherever it is        *)
(* recorded.                                                               *)
IdsRecorded ==
  /\ \A r \in requests : life[r.host] = 0 => r.id = nodeID[r.host]
  /\ \A h \in DOMAIN serversMap : life[h] = 0 => serversMap[h] = nodeID[h]

(* Together: what every step of every host and every libstore keeps.       *)
RingInv ==
  /\ RingTypeOK /\ RingsAgree
  /\ MadeOnce /\ ListMade /\ MasterFirst /\ AnswersList /\ IdsRecorded

(* Consistent hashing: the server a libstore picks has the smallest node   *)
(* ID in the ring that is not below the hash or, if there is none, the     *)
(* smallest of all.                                                        *)
RoutedToSuccessor ==
  \A l \in Lib, hash \in Hash : lib[l] = "ready" =>
    LET ids == {servers[l][i].id : i \in 1 .. numNodes}
        above == {id \in ids : id >= hash}
    IN  \E i \in 1 .. numNodes :
          /\ servers[l][i].host = Findshashring(servers[l], hash)
          /\ above # {} => servers[l][i].id \in above
          /\ \A id \in (IF above = {} THEN ids ELSE above) : servers[l][i].id <= id

(* The libstore's search and the server's check, two pieces of code, agree *)
(* on whose a key is: a server that is asked does not answer WrongServer,  *)
(* and, where node IDs differ, no other one takes the key.  A server that  *)
(* came back under another ID is the exception.                            *)
OnlyRoutedAccepts ==
  \A l \in Lib, hash \in Hash, h \in Host :
    lib[l] = "ready" /\ status[h] = "OK" /\ life[h] = 0 =>
      LET owner == Findshashring(servers[l], hash)
      IN  /\ h = owner => checkIsRightServer(h, hash)
          /\ /\ checkIsRightServer(h, hash) /\ life[owner] = 0
             /\ \A g \in Host : g # h => nodeID[g] # nodeID[h]
             => h = owner

(* The ring forms: when numNodes servers have registered, each of them     *)
(* becomes ready, unless its connection breaks, it is restarted, or one    *)
(* server too many registers.                                              *)
RingForms ==
  \A h \in Host :
    (state[h] = "waiting" /\ Cardinality(DOMAIN serversMap) = numNodes)
      ~> \/ state[h] = "ready" \/ h \in broken \/ life[h] > 0
         \/ Cardinality(DOMAIN serversMap) > numNodes
=============================================================================
