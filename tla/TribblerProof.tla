--------------------------- MODULE TribblerProof ---------------------------
(***************************************************************************)
(* Proofs about the two parts of Tribbler that run in its servers.         *)
(*                                                                         *)
(* The ring of storage servers for every number of servers and libstores:  *)
(* the inductive invariant, and from it that everyone holds one list and   *)
(* that the search of a libstore and the check of a server agree.          *)
(*                                                                         *)
(* The Tribbler servers, for any users, handlers, calls, failures and   *)
(* interleavings of the calls of the libstore.  The invariant says of each *)
(* goroutine what it may rely on at the point it has reached; its parts    *)
(* take the goroutine and the pieces of state they are about as arguments. *)
(***************************************************************************)
EXTENDS StorageRing, TribServer, FiniteSetTheorems, WellFoundedInduction, TLAPS

-----------------------------------------------------------------------------
(* What a registration does to the number of servers.                      *)

(* A registration enters its host and changes the ID of no other one.      *)
LEMMA EnteredFacts ==
  ASSUME NEW r
  PROVE  /\ DOMAIN Entered(r) = DOMAIN serversMap \cup {r.host}
         /\ Entered(r)[r.host] = r.id
         /\ \A h \in DOMAIN serversMap : h # r.host => Entered(r)[h] = serversMap[h]
  BY Zenon DEF Entered

(* A new host makes the map larger by one, a known one leaves its size.    *)
LEMMA EnteredSize ==
  ASSUME RingTypeOK, NEW r \in requests
  PROVE  /\ Cardinality(DOMAIN serversMap) \in Nat
         /\ Cardinality(DOMAIN Entered(r)) =
              Cardinality(DOMAIN serversMap) + (IF r.host \in DOMAIN serversMap THEN 0 ELSE 1)
<1>1. IsFiniteSet(DOMAIN serversMap)
  BY FS_Subset, RingAssumption, Zenon DEF RingTypeOK
<1>2. Cardinality(DOMAIN serversMap) \in Nat
  BY <1>1, FS_CardinalityType, Zenon
<1>3. Cardinality(DOMAIN serversMap \cup {r.host}) =
        IF r.host \in DOMAIN serversMap THEN Cardinality(DOMAIN serversMap)
                                        ELSE Cardinality(DOMAIN serversMap) + 1
  BY <1>1, FS_AddElement, Zenon
<1>4. DOMAIN Entered(r) = DOMAIN serversMap \cup {r.host}
  BY EnteredFacts, Zenon
<1>5. Cardinality(DOMAIN Entered(r)) =
        IF r.host \in DOMAIN serversMap THEN Cardinality(DOMAIN serversMap)
                                        ELSE Cardinality(DOMAIN serversMap) + 1
  BY <1>3, <1>4, Zenon
<1> HIDE DEF Entered
<1> QED BY <1>2, <1>5

(* The list of a server that has heard nothing.                            *)
LEMMA NoList == <<>> \in RingList
  BY Zenon DEF RingList

(* The first element of a nonempty set of positions is one of them, and    *)
(* none is before it.                                                      *)
LEMMA SmallestFact ==
  ASSUME NEW n \in Nat, NEW S \in SUBSET (1 .. n), S # {}
  PROVE  Smallest(S) \in S /\ \A j \in S : Smallest(S) <= j
<1> DEFINE R == OpToRel(<, Nat)
<1>1. IsWellFoundedOn(R, Nat)
  BY NatLessThanWellFounded, Zenon
<1>2. S \subseteq Nat
  OBVIOUS
<1> HIDE DEF R
<1>3. PICK i \in S : \A j \in S : ~(<<j, i>> \in R)
  BY <1>1, <1>2, WFMin, Zenon
<1>4. \A j \in S : i <= j
  <2> SUFFICES ASSUME NEW j \in S PROVE i <= j
    OBVIOUS
  <2>1. R = {ss \in Nat \X Nat : ss[1] < ss[2]}
    BY Zenon DEF R, OpToRel
  <2>2. <<j, i>> \in Nat \X Nat /\ <<j, i>>[1] = j /\ <<j, i>>[2] = i
    BY <1>2, Zenon
  <2>3. ~(j < i)
    BY <1>3, <2>1, <2>2, Zenon
  <2> QED BY <1>2, <2>3
<1> QED BY <1>4, Zenon DEF Smallest
(* A reply is a status and a list.                                         *)
LEMMA AnswerType ==
  ASSUME RingTypeOK, NEW r, r.host \in Host, NEW result \in {"OK", "NotReady", "error"},
         Answer(r, result)
  PROVE  /\ call' \in [Host -> {"none", "sent", "OK", "NotReady", "error"}]
         /\ reply' \in [Host -> RingList]
<1>1. serversList[Master] \in RingList /\ reply[r.host] \in RingList
  BY RingAssumption, Zenon DEF RingTypeOK
<1>2. CASE call[r.host] = "sent" /\ r.life = life[r.host]
  <2>1. call' \in [Host -> {"none", "sent", "OK", "NotReady", "error"}]
    <3>1. call' = [call EXCEPT ![r.host] = result]
      BY <1>2, Zenon DEF Answer
    <3> QED BY <3>1, Zenon DEF RingTypeOK
  <2>2. reply' \in [Host -> RingList]
    BY <1>1, <1>2 DEF Answer, RingTypeOK
  <2> QED BY <2>1, <2>2, Zenon
<1>3. CASE ~(call[r.host] = "sent" /\ r.life = life[r.host])
  BY <1>3 DEF Answer, RingTypeOK
<1> QED BY <1>2, <1>3, Zenon

(* Every step keeps the types.                                             *)
LEMMA TypeStep == RingTypeOK /\ RingNext => RingTypeOK'
<1> SUFFICES ASSUME RingTypeOK, RingNext PROVE RingTypeOK'
  OBVIOUS
<1> USE RingAssumption, NoList
<1>1. CASE StartMaster
  BY <1>1 DEF RingTypeOK, StartMaster, RequestOf, hostVars, libVars
<1>2. CASE MasterReady
  <2>1. signalling \in [host : Host, id : Id, life : Nat] /\ signalling.host \in Host
    BY <1>2, Zenon DEF MasterReady, RingTypeOK
  <2>2. /\ call' \in [Host -> {"none", "sent", "OK", "NotReady", "error"}]
        /\ reply' \in [Host -> RingList]
    BY <1>2, <2>1, AnswerType, Zenon DEF MasterReady
  <2> QED BY <1>2, <2>2, Zenon DEF RingTypeOK, MasterReady, hostVars, libVars
<1>3. ASSUME NEW h \in Host, StartSlave(h) PROVE RingTypeOK'
  BY <1>3, Zenon DEF RingTypeOK, StartSlave, hostVars, libVars
<1>4. ASSUME NEW h \in Host, CallRegister(h) PROVE RingTypeOK'
  BY <1>4 DEF RingTypeOK, CallRegister, RequestOf, hostVars, libVars
<1>5. ASSUME NEW h \in Host, RegisterReturns(h) PROVE RingTypeOK'
  <2>1. reply[h] \in RingList
    BY Zenon DEF RingTypeOK
  <2>2. /\ state' \in [Host -> {"new", "waiting", "ready", "failed"}]
        /\ status' \in [Host -> {"NotReady", "OK"}]
        /\ serversList' \in [Host -> RingList]
    <3>1. CASE LeavesLoop(h)
      BY <1>5, <2>1, <3>1 DEF RingTypeOK, RegisterReturns
    <3>2. CASE ~LeavesLoop(h)
      BY <1>5, <3>2, Zenon DEF RingTypeOK, RegisterReturns
    <3> QED BY <3>1, <3>2, Zenon
  <2> QED BY <1>5, <2>2, Zenon DEF RingTypeOK, RegisterReturns, hostVars, libVars
<1>6. ASSUME NEW h \in Host, Break(h) PROVE RingTypeOK'
  BY <1>6, Zenon DEF RingTypeOK, Break, hostVars, libVars
<1>7. ASSUME NEW h \in Host, Restart(h) PROVE RingTypeOK'
  BY <1>7 DEF RingTypeOK, Restart, hostVars, libVars
<1>8. ASSUME NEW r \in requests, RegisterServer(r) PROVE RingTypeOK'
  <2>1. r \in [host : Host, id : Id, life : Nat] /\ r.host \in Host /\ r.id \in Id
    BY Zenon DEF RingTypeOK
  <2>2. DOMAIN Entered(r) \subseteq Host /\ \A h \in DOMAIN Entered(r) : Entered(r)[h] \in Id
    BY <2>1, Zenon DEF RingTypeOK, Entered
  <2>3. serversList' \in [Host -> RingList] /\ status' \in [Host -> {"NotReady", "OK"}]
    <3>1. CASE Completes(r)
      <4>1. PICK list \in [1 .. numNodes -> Node] :
              serversList' = [serversList EXCEPT ![Master] = list]
        BY <1>8, <3>1, Zenon DEF RegisterServer
      <4>2. list \in RingList
        BY Zenon DEF RingList
      <4> QED BY <1>8, <3>1, <4>1, <4>2 DEF RingTypeOK, RegisterServer
    <3>2. CASE ~Completes(r)
      BY <1>8, <3>2 DEF RingTypeOK, RegisterServer
    <3> QED BY <3>1, <3>2, Zenon
  <2>4. Result(r) \in {"OK", "NotReady", "error"}
    BY Zenon DEF Result
  <2>5. /\ call' \in [Host -> {"none", "sent", "OK", "NotReady", "error"}]
        /\ reply' \in [Host -> RingList]
    <3>1. CASE Completes(r)
      BY <1>8, <3>1, Zenon DEF RegisterServer, RingTypeOK
    <3>2. CASE ~Completes(r)
      BY <1>8, <2>1, <2>4, <3>2, AnswerType DEF RegisterServer
    <3> QED BY <3>1, <3>2, Zenon
  <2>6. signalling' \in [host : Host, id : Id, life : Nat] \cup {None}
    BY <1>8, <2>1 DEF RegisterServer, RingTypeOK
  <2> QED BY <1>8, <2>2, <2>3, <2>5, <2>6, Zenon DEF RingTypeOK, RegisterServer, hostVars, libVars
<1>9. ASSUME NEW l \in Lib, StartLib(l) PROVE RingTypeOK'
  BY <1>9, Zenon DEF RingTypeOK, StartLib, hostVars, libVars
<1>10. ASSUME NEW l \in Lib, GetServers(l) PROVE RingTypeOK'
  <2>1. serversList[Master] \in RingList
    BY Zenon DEF RingTypeOK
  <2>2. lib' \in [Lib -> {"new", "asking", "ready", "failed"}] /\ servers' \in [Lib -> RingList]
    <3>1. CASE status[Master] = "OK"
      BY <1>10, <2>1, <3>1 DEF RingTypeOK, GetServers
    <3>2. CASE status[Master] # "OK"
      BY <1>10, <3>2, Zenon DEF RingTypeOK, GetServers
    <3> QED BY <3>1, <3>2, Zenon
  <2>3. num' \in [Lib -> Nat]
    BY <1>10 DEF RingTypeOK, GetServers
  <2> QED BY <1>10, <2>2, <2>3, Zenon DEF RingTypeOK, GetServers, hostVars
<1>11. ASSUME NEW l \in Lib, GiveUp(l) PROVE RingTypeOK'
  BY <1>11, Zenon DEF RingTypeOK, GiveUp, hostVars, libVars
<1> QED BY <1>1, <1>2, <1>3, <1>4, <1>5, <1>6, <1>7, <1>8, <1>9, <1>10, <1>11, Zenon DEF RingNext

-----------------------------------------------------------------------------
(* The inductive invariant.                                                *)

(* The invariant holds at the start: nobody has registered.                *)
LEMMA InitRing == RingInit => RingInv
<1> SUFFICES ASSUME RingInit PROVE RingInv
  OBVIOUS
<1>1. RingTypeOK
  BY RingAssumption, Zenon DEF RingInit, RingTypeOK, RingList
<1>2. Cardinality(DOMAIN serversMap) = 0
  <2>1. DOMAIN serversMap = {}
    BY Zenon DEF RingInit
  <2> QED BY <2>1, FS_EmptySet, Zenon
<1>3. status[Master] # "OK" /\ ~(Cardinality(DOMAIN serversMap) >= numNodes)
  BY <1>2, RingAssumption DEF RingInit
<1>4. RingsAgree /\ MasterFirst /\ AnswersList /\ IdsRecorded
  BY RingAssumption, Zenon DEF RingInit, RingsAgree, MasterFirst, AnswersList, IdsRecorded
<1> QED BY <1>1, <1>3, <1>4, Zenon DEF RingInv, MadeOnce, ListMade

(* What a step has to leave alone for a part of the invariant to stay.     *)
LEMMA SameRings ==
  ASSUME RingsAgree, UNCHANGED <<status, serversList, lib, servers>>
  PROVE  RingsAgree'
  BY Zenon DEF RingsAgree

(* The number of servers and the status of the master belong together.     *)
LEMMA SameMade ==
  ASSUME MadeOnce, status'[Master] = status[Master], UNCHANGED serversMap
  PROVE  MadeOnce'
  BY Zenon DEF MadeOnce

(* The list of the master, and the node IDs.                               *)
LEMMA SameList ==
  ASSUME ListMade, status'[Master] = status[Master], serversList'[Master] = serversList[Master],
         UNCHANGED <<life, nodeID>>
  PROVE  ListMade'
  BY Zenon DEF ListMade

(* Who knows the ring.                                                     *)
LEMMA SameFirst ==
  ASSUME MasterFirst, UNCHANGED <<signalling, status, lib>>
  PROVE  MasterFirst'
  BY Zenon DEF MasterFirst

(* An answer that is dropped needs no list.                                *)
LEMMA SameAnswers ==
  ASSUME AnswersList, status'[Master] = status[Master], serversList'[Master] = serversList[Master],
         \A g \in Host : call'[g] = "OK" => call[g] = "OK" /\ reply'[g] = reply[g]
  PROVE  AnswersList'
  BY Zenon DEF AnswersList

(* A request that was handled is recorded no longer.                       *)
LEMMA SameIds ==
  ASSUME IdsRecorded, requests' \subseteq requests, UNCHANGED <<serversMap, life, nodeID>>
  PROVE  IdsRecorded'
  BY Zenon DEF IdsRecorded

(* A request is sent under the current node ID.                            *)
LEMMA RequestIds ==
  ASSUME IdsRecorded, NEW h \in Host, requests' = requests \cup {RequestOf(h)},
         UNCHANGED <<serversMap, life, nodeID>>
  PROVE  IdsRecorded'
<1>1. RequestOf(h).host = h /\ RequestOf(h).id = nodeID[h]
  BY Zenon DEF RequestOf
<1> QED BY <1>1, Zenon DEF IdsRecorded

(* A ring that is made is a list of hosts.                                 *)
LEMMA RingHosts ==
  ASSUME RingTypeOK, RingsAgree, status[Master] = "OK"
  PROVE  \A i \in 1 .. numNodes : serversList[Master][i].host \in Host
<1>1. serversList[Master] \in RingList /\ DOMAIN serversList[Master] = 1 .. numNodes
  BY RingAssumption, Zenon DEF RingTypeOK, RingsAgree
<1>2. serversList[Master] # <<>>
  <2>1. 1 \in DOMAIN serversList[Master]
    BY <1>1, RingAssumption
  <2> QED BY <2>1
<1>3. serversList[Master] \in [1 .. numNodes -> Node]
  BY <1>1, <1>2, Zenon DEF RingList
<1> QED BY <1>3, Zenon DEF Node

(* A reply that says OK carries the master's list, if there is one.        *)
LEMMA AnswerKeeps ==
  ASSUME RingTypeOK, AnswersList, NEW r, r.host \in Host, NEW result, Answer(r, result),
         result = "OK" => status[Master] = "OK", UNCHANGED <<status, serversList>>
  PROVE  AnswersList'
<1>1. CASE call[r.host] = "sent" /\ r.life = life[r.host]
  <2>1. /\ call' = [call EXCEPT ![r.host] = result]
        /\ reply' = [reply EXCEPT ![r.host] = IF result = "OK" THEN serversList[Master] ELSE @]
    BY <1>1, Zenon DEF Answer
  <2>2. /\ call'[r.host] = result /\ (result = "OK" => reply'[r.host] = serversList[Master])
        /\ \A g \in Host : g # r.host => call'[g] = call[g] /\ reply'[g] = reply[g]
    BY <2>1, Zenon DEF RingTypeOK
  <2> QED BY <2>2, Zenon DEF AnswersList
<1>2. CASE ~(call[r.host] = "sent" /\ r.life = life[r.host])
  BY <1>2, SameAnswers, Zenon DEF Answer
<1> QED BY <1>1, <1>2, Zenon

(* The map takes the ID of the request.                                    *)
LEMMA EnteredIds ==
  ASSUME IdsRecorded, NEW r \in requests, requests' \subseteq requests,
         serversMap' = Entered(r), UNCHANGED <<life, nodeID>>
  PROVE  IdsRecorded'
<1>1. \A q \in requests' : life'[q.host] = 0 => q.id = nodeID'[q.host]
  BY Zenon DEF IdsRecorded
<1>2. \A h \in DOMAIN serversMap' :
        \/ h = r.host /\ serversMap'[h] = r.id
        \/ h \in DOMAIN serversMap /\ serversMap'[h] = serversMap[h]
  BY EnteredFacts, Zenon
<1>3. \A h \in DOMAIN serversMap' : life'[h] = 0 => serversMap'[h] = nodeID'[h]
  BY <1>2, Zenon DEF IdsRecorded
<1> QED BY <1>1, <1>3, Zenon DEF IdsRecorded

(* A step of a slave that has no answer to use: a call, or a connection    *)
(* that breaks.                                                            *)
LEMMA SlaveSteps ==
  ASSUME RingInv, NEW h \in Host, CallRegister(h) \/ Break(h)
  PROVE  RingInv'
<1>0. RingTypeOK /\ RingsAgree /\ MadeOnce /\ ListMade /\ MasterFirst /\ AnswersList /\ IdsRecorded
  BY Zenon DEF RingInv
<1>1. RingTypeOK'
  BY <1>0, TypeStep, Zenon DEF RingNext
<1>2. UNCHANGED <<status, serversList, serversMap, signalling, nodeID, life, lib, num, servers>>
  BY Zenon DEF CallRegister, Break, hostVars, libVars
<1>3. RingsAgree' /\ MadeOnce' /\ ListMade' /\ MasterFirst'
  BY <1>0, <1>2, SameRings, SameMade, SameList, SameFirst, Zenon
<1>4. \A g \in Host : call'[g] = "OK" => call[g] = "OK" /\ reply'[g] = reply[g]
  <2>1. CASE CallRegister(h)
    BY <1>0, <2>1, Zenon DEF RingTypeOK, CallRegister
  <2>2. CASE Break(h)
    BY <1>0, <2>2, Zenon DEF RingTypeOK, Break
  <2> QED BY <2>1, <2>2, Zenon
<1>5. AnswersList'
  BY <1>0, <1>2, <1>4, SameAnswers, Zenon
<1>6. IdsRecorded'
  <2>1. CASE CallRegister(h)
    BY <1>0, <1>2, <2>1, RequestIds, Zenon DEF CallRegister
  <2>2. CASE Break(h)
    BY <1>0, <1>2, <2>2, SameIds, Zenon DEF Break
  <2> QED BY <2>1, <2>2, Zenon
<1> QED BY <1>1, <1>3, <1>5, <1>6, Zenon DEF RingInv

(* A server that starts; the master's own request is like a slave's.       *)
LEMMA StartSteps ==
  ASSUME RingInv, StartMaster \/ \E h \in Host : StartSlave(h)
  PROVE  RingInv'
<1>0. RingTypeOK /\ RingsAgree /\ MadeOnce /\ ListMade /\ MasterFirst /\ AnswersList /\ IdsRecorded
  BY Zenon DEF RingInv
<1>1. RingTypeOK'
  BY <1>0, TypeStep, Zenon DEF RingNext
<1>2. UNCHANGED <<status, serversList, serversMap, call, reply, signalling, nodeID, life,
                  lib, num, servers>>
  BY Zenon DEF StartMaster, StartSlave, hostVars, libVars
<1>3. RingsAgree' /\ MadeOnce' /\ ListMade' /\ MasterFirst' /\ AnswersList'
  BY <1>0, <1>2, SameRings, SameMade, SameList, SameFirst, SameAnswers, Zenon
<1>4. IdsRecorded'
  <2>1. CASE StartMaster
    BY <1>0, <1>2, <2>1, RequestIds, RingAssumption, Zenon DEF StartMaster
  <2>2. ASSUME NEW h \in Host, StartSlave(h) PROVE IdsRecorded'
    BY <1>0, <1>2, <2>2, SameIds, Zenon DEF StartSlave
  <2> QED BY <2>1, <2>2, Zenon
<1> QED BY <1>1, <1>3, <1>4, Zenon DEF RingInv

(* A step of a libstore: it takes the master's list, or none.              *)
LEMMA LibSteps ==
  ASSUME RingInv, NEW l \in Lib, StartLib(l) \/ GetServers(l) \/ GiveUp(l)
  PROVE  RingInv'
<1>0. RingTypeOK /\ RingsAgree /\ MadeOnce /\ ListMade /\ MasterFirst /\ AnswersList /\ IdsRecorded
  BY Zenon DEF RingInv
<1>1. RingTypeOK'
  BY <1>0, TypeStep, Zenon DEF RingNext
<1>2. UNCHANGED <<status, serversList, serversMap, requests, call, reply, signalling, nodeID, life>>
  BY Zenon DEF StartLib, GetServers, GiveUp, hostVars
<1>3. MadeOnce' /\ ListMade' /\ AnswersList' /\ IdsRecorded'
  BY <1>0, <1>2, SameMade, SameList, SameAnswers, SameIds, Zenon
<1>4. \A k \in Lib : lib'[k] = "ready" =>
        \/ lib[k] = "ready" /\ servers'[k] = servers[k]
        \/ status[Master] = "OK" /\ servers'[k] = serversList[Master]
  <2>1. CASE StartLib(l)
    BY <1>0, <2>1, Zenon DEF RingTypeOK, StartLib
  <2>2. CASE GiveUp(l)
    BY <1>0, <2>2, Zenon DEF RingTypeOK, GiveUp
  <2>3. CASE GetServers(l) /\ status[Master] = "OK"
    BY <1>0, <2>3, Zenon DEF RingTypeOK, GetServers
  <2>4. CASE GetServers(l) /\ status[Master] # "OK"
    BY <2>4, Zenon DEF GetServers
  <2> QED BY <2>1, <2>2, <2>3, <2>4, Zenon
<1>5. status[Master] = "OK" => DOMAIN serversList[Master] = 1 .. numNodes
  BY <1>0, RingAssumption, Zenon DEF RingsAgree
<1>6. RingsAgree'
  BY <1>0, <1>2, <1>4, <1>5, Zenon DEF RingsAgree
<1>7. MasterFirst'
  BY <1>0, <1>2, <1>4, Zenon DEF MasterFirst
<1> QED BY <1>1, <1>3, <1>6, <1>7, Zenon DEF RingInv

(* A slave takes the list of an answer, which is the master's.             *)
LEMMA RegisterReturnsIInv ==
  ASSUME RingInv, NEW h \in Host, RegisterReturns(h)
  PROVE  RingInv'
<1>0. RingTypeOK /\ RingsAgree /\ MadeOnce /\ ListMade /\ MasterFirst /\ AnswersList /\ IdsRecorded
  BY Zenon DEF RingInv
<1>1. RingTypeOK'
  BY <1>0, TypeStep, Zenon DEF RingNext
<1>2. UNCHANGED <<serversMap, requests, signalling, nodeID, life, lib, num, servers>>
  BY Zenon DEF RegisterReturns, hostVars, libVars
<1>3. \A g \in Host : call'[g] = "OK" => call[g] = "OK" /\ reply'[g] = reply[g]
  BY <1>0, Zenon DEF RingTypeOK, RegisterReturns
<1>4. \A g \in Host : \/ status'[g] = status[g] /\ serversList'[g] = serversList[g]
                      \/ status[Master] = "OK" /\ status'[g] = "OK"
                         /\ serversList'[g] = serversList[Master]
  <2>1. CASE LeavesLoop(h)
    <3>1. reply[h] = serversList[Master] /\ status[Master] = "OK"
      BY <1>0, <2>1, Zenon DEF LeavesLoop, AnswersList
    <3>2. /\ status' = [status EXCEPT ![h] = "OK"]
          /\ serversList' = [serversList EXCEPT ![h] = serversList[Master]]
      BY <2>1, <3>1, Zenon DEF RegisterReturns
    <3> QED BY <1>0, <3>1, <3>2, Zenon DEF RingTypeOK
  <2>2. CASE ~LeavesLoop(h)
    BY <2>2, Zenon DEF RegisterReturns
  <2> QED BY <2>1, <2>2, Zenon
<1>5. status'[Master] = status[Master] /\ serversList'[Master] = serversList[Master]
  BY <1>4, RingAssumption, Zenon
<1>6. MadeOnce' /\ ListMade' /\ AnswersList' /\ IdsRecorded'
  BY <1>0, <1>2, <1>3, <1>5, SameMade, SameList, SameAnswers, SameIds, Zenon
<1>7. status[Master] = "OK" => DOMAIN serversList[Master] = 1 .. numNodes
  BY <1>0, RingAssumption, Zenon DEF RingsAgree
<1>8. RingsAgree'
  BY <1>0, <1>2, <1>4, <1>5, <1>7, Zenon DEF RingsAgree
<1>9. MasterFirst'
  BY <1>0, <1>2, <1>4, <1>5, Zenon DEF MasterFirst
<1> QED BY <1>1, <1>6, <1>8, <1>9, Zenon DEF RingInv

(* A restart empties the slave; what others recorded about it is no longer *)
(* claimed to be its ID.                                                   *)
LEMMA RestartIInv ==
  ASSUME RingInv, NEW h \in Host, Restart(h)
  PROVE  RingInv'
<1>0. RingTypeOK /\ RingsAgree /\ MadeOnce /\ ListMade /\ MasterFirst /\ AnswersList /\ IdsRecorded
  BY Zenon DEF RingInv
<1>1. RingTypeOK'
  BY <1>0, TypeStep, Zenon DEF RingNext
<1>2. UNCHANGED <<serversMap, requests, signalling, lib, num, servers>>
  BY Zenon DEF Restart, libVars
<1>3. \A g \in Host : g # h => /\ status'[g] = status[g] /\ serversList'[g] = serversList[g]
                               /\ call'[g] = call[g] /\ reply'[g] = reply[g]
                               /\ nodeID'[g] = nodeID[g] /\ life'[g] = life[g]
  BY <1>0, Zenon DEF RingTypeOK, Restart
<1>4. status'[h] = "NotReady" /\ call'[h] = "none" /\ life'[h] = life[h] + 1
  BY <1>0, Zenon DEF RingTypeOK, Restart
<1>5. life'[h] # 0
  <2>1. life[h] \in Nat
    BY <1>0, Zenon DEF RingTypeOK
  <2> QED BY <1>4, <2>1
<1>6. h # Master
  BY RingAssumption, Zenon DEF Restart
<1>7. serversList'[Master] = serversList[Master] /\ status'[Master] = status[Master]
  BY <1>3, <1>6, RingAssumption, Zenon
<1>8. \A g \in Host : status'[g] = "OK" => g # h
  <2>1. "NotReady" # "OK"
    OBVIOUS
  <2> QED BY <1>4, <2>1, Zenon
<1>9. \A g \in Host : call'[g] = "OK" => g # h
  <2>1. "none" # "OK"
    OBVIOUS
  <2> QED BY <1>4, <2>1, Zenon
<1>10. RingsAgree'
  BY <1>0, <1>2, <1>3, <1>7, <1>8, Zenon DEF RingsAgree
<1>11. MadeOnce' /\ AnswersList'
  BY <1>0, <1>2, <1>3, <1>7, <1>9, SameMade, SameAnswers, Zenon
<1>12. MasterFirst'
  BY <1>0, <1>2, <1>3, <1>7, <1>8, Zenon DEF MasterFirst
<1>13. \A g \in Host : life'[g] = 0 => life[g] = 0 /\ nodeID'[g] = nodeID[g]
  BY <1>3, <1>5, Zenon
<1>14. IdsRecorded'
  <2>1. \A r \in requests : r.host \in Host
    BY <1>0, Zenon DEF RingTypeOK
  <2>2. \A g \in DOMAIN serversMap : g \in Host
    BY <1>0, Zenon DEF RingTypeOK
  <2> QED BY <1>0, <1>2, <1>13, <2>1, <2>2, Zenon DEF IdsRecorded
<1>15. ListMade'
  <2>1. status[Master] = "OK" => \A i \in 1 .. numNodes : serversList[Master][i].host \in Host
    BY <1>0, RingHosts, Zenon
  <2>2. ASSUME status[Master] = "OK", NEW i \in 1 .. numNodes
        PROVE  LET node == serversList'[Master][i]
               IN  life'[node.host] = 0 => node.id = nodeID'[node.host]
    <3>1. serversList[Master][i].host \in Host
      BY <2>1, <2>2, Zenon
    <3>2. life[serversList[Master][i].host] = 0 =>
            serversList[Master][i].id = nodeID[serversList[Master][i].host]
      BY <1>0, <2>2, Zenon DEF ListMade
    <3>3. life'[serversList[Master][i].host] = 0 =>
            serversList[Master][i].id = nodeID'[serversList[Master][i].host]
      BY <1>13, <3>1, <3>2, Zenon
    <3> QED BY <1>7, <3>3, Zenon
  <2>3. ASSUME status[Master] = "OK", NEW i \in 1 .. numNodes, NEW j \in 1 .. numNodes, i < j
        PROVE  /\ serversList'[Master][i].host # serversList'[Master][j].host
               /\ serversList'[Master][i].id <= serversList'[Master][j].id
    BY <1>0, <1>7, <2>3, Zenon DEF ListMade
  <2> QED BY <1>7, <2>2, <2>3, Zenon DEF ListMade
<1> QED BY <1>1, <1>10, <1>11, <1>12, <1>14, <1>15, Zenon DEF RingInv

(* The handler that completed the ring replies.                            *)
LEMMA MasterReadyIInv ==
  ASSUME RingInv, MasterReady
  PROVE  RingInv'
<1>0. RingTypeOK /\ RingsAgree /\ MadeOnce /\ ListMade /\ MasterFirst /\ AnswersList /\ IdsRecorded
  BY Zenon DEF RingInv
<1>1. signalling.host \in Host /\ status[Master] = "OK"
  BY <1>0, Zenon DEF RingTypeOK, MasterFirst, MasterReady
<1>2. /\ UNCHANGED <<status, serversList, serversMap, requests, nodeID, life, lib, num, servers>>
      /\ signalling' = None
  BY Zenon DEF MasterReady, hostVars, libVars
<1>3. AnswersList'
  BY <1>0, <1>1, <1>2, AnswerKeeps, Zenon DEF MasterReady
<1>4. RingTypeOK'
  BY <1>0, TypeStep, Zenon DEF RingNext
<1>5. RingsAgree' /\ MadeOnce' /\ ListMade' /\ IdsRecorded'
  BY <1>0, <1>2, SameRings, SameMade, SameList, SameIds, Zenon
<1>6. MasterFirst'
  BY <1>0, <1>2, Zenon DEF MasterFirst
<1> QED BY <1>3, <1>4, <1>5, <1>6, Zenon DEF RingInv

(* The registration that makes the ring.                                   *)
LEMMA CompletingIInv ==
  ASSUME RingInv, NEW r \in requests, RegisterServer(r), Completes(r)
  PROVE  RingInv'
<1>0. RingTypeOK /\ RingsAgree /\ MadeOnce /\ ListMade /\ MasterFirst /\ AnswersList /\ IdsRecorded
  BY Zenon DEF RingInv
<1>1. RingTypeOK'
  BY <1>0, TypeStep, Zenon DEF RingNext
<1>2. /\ requests' \subseteq requests /\ serversMap' = Entered(r)
      /\ UNCHANGED <<call, reply, nodeID, life, lib, num, servers>>
      /\ status' = [status EXCEPT ![Master] = "OK"]
  BY Zenon DEF RegisterServer, hostVars, libVars
<1>3. PICK list \in [1 .. numNodes -> Node] :
        IsRing(list, Entered(r)) /\ serversList' = [serversList EXCEPT ![Master] = list]
  BY Zenon DEF RegisterServer
<1>4. serversList'[Master] = list /\ status'[Master] = "OK"
  BY <1>0, <1>2, <1>3, RingAssumption, Zenon DEF RingTypeOK
<1>5. status[Master] # "OK"
  <2>1. /\ Cardinality(DOMAIN serversMap) \in Nat
        /\ Cardinality(DOMAIN Entered(r)) = Cardinality(DOMAIN serversMap) + 1
    BY <1>0, EnteredSize, Zenon DEF Completes
  <2>2. Cardinality(DOMAIN Entered(r)) = numNodes
    BY Zenon DEF Completes
  <2>3. ~(Cardinality(DOMAIN serversMap) >= numNodes)
    <3> HIDE DEF Entered
    <3> QED BY <2>1, <2>2
  <2> QED BY <1>0, <2>3, Zenon DEF MadeOnce
<1>6. /\ \A h \in Host : status[h] # "OK" /\ call[h] # "OK"
      /\ \A l \in Lib : lib[l] # "ready"
  BY <1>0, <1>5, Zenon DEF MasterFirst, AnswersList
<1>7. \A h \in Host : status'[h] = "OK" => h = Master
  BY <1>0, <1>2, <1>6, Zenon DEF RingTypeOK
<1>8. RingsAgree'
  <2>1. DOMAIN list = 1 .. numNodes
    BY Zenon
  <2> QED BY <1>2, <1>4, <1>6, <1>7, <2>1, Zenon DEF RingsAgree
<1>9. MasterFirst'
  BY <1>4, Zenon DEF MasterFirst
<1>10. AnswersList'
  BY <1>2, <1>6, Zenon DEF AnswersList
<1>11. MadeOnce'
  <2>1. Cardinality(DOMAIN serversMap') = numNodes
    BY <1>2, Zenon DEF Completes
  <2>2. numNodes >= numNodes
    BY RingAssumption
  <2> QED BY <1>4, <2>1, <2>2, Zenon DEF MadeOnce
<1>12. IdsRecorded'
  BY <1>0, <1>2, EnteredIds, Zenon
<1>13. ListMade'
  <2>1. \A i \in 1 .. numNodes : life[list[i].host] = 0 => list[i].id = nodeID[list[i].host]
    <3>1. \A h \in DOMAIN serversMap' : life'[h] = 0 => serversMap'[h] = nodeID'[h]
      BY <1>12, Zenon DEF IdsRecorded
    <3> QED BY <1>2, <1>3, <3>1, Zenon DEF IsRing
  <2>2. \A i, j \in 1 .. numNodes : i < j => i # j
    BY RingAssumption
  <2>3. \A i, j \in 1 .. numNodes : i < j => list[i].host # list[j].host /\ list[i].id <= list[j].id
    BY <1>3, <2>2, Zenon DEF IsRing
  <2> QED BY <1>2, <1>4, <2>1, <2>3, Zenon DEF ListMade
<1> QED BY <1>1, <1>8, <1>9, <1>10, <1>11, <1>12, <1>13, Zenon DEF RingInv

(* A registration that only answers: too early, again, or too late.        *)
LEMMA AnsweringIInv ==
  ASSUME RingInv, NEW r \in requests, RegisterServer(r), ~Completes(r)
  PROVE  RingInv'
<1>0. RingTypeOK /\ RingsAgree /\ MadeOnce /\ ListMade /\ MasterFirst /\ AnswersList /\ IdsRecorded
  BY Zenon DEF RingInv
<1>1. RingTypeOK'
  BY <1>0, TypeStep, Zenon DEF RingNext
<1>2. /\ requests' \subseteq requests /\ serversMap' = Entered(r)
      /\ UNCHANGED <<status, serversList, signalling, nodeID, life, lib, num, servers>>
      /\ Answer(r, Result(r))
  BY Zenon DEF RegisterServer, hostVars, libVars
<1>3. RingsAgree' /\ ListMade' /\ MasterFirst'
  BY <1>0, <1>2, SameRings, SameList, SameFirst, Zenon
<1>4. IdsRecorded'
  BY <1>0, <1>2, EnteredIds, Zenon
<1> DEFINE n == Cardinality(DOMAIN serversMap)
           m == Cardinality(DOMAIN Entered(r))
<1>5. n \in Nat /\ (m = n \/ (m = n + 1 /\ m # numNodes))
  <2>1. n \in Nat /\ m = n + (IF r.host \in DOMAIN serversMap THEN 0 ELSE 1)
    BY <1>0, EnteredSize, Zenon
  <2>2. r.host \notin DOMAIN serversMap => m # numNodes
    BY Zenon DEF Completes
  <2> HIDE DEF n, m
  <2> QED BY <2>1, <2>2
<1>6. (m >= numNodes <=> n >= numNodes) /\ (m = numNodes => n >= numNodes)
  <2> HIDE DEF n, m
  <2> QED BY <1>5, RingAssumption
<1>7. MadeOnce'
  BY <1>0, <1>2, <1>6, Zenon DEF MadeOnce
<1>8. Result(r) = "OK" => status[Master] = "OK"
  <2>1. Result(r) = IF m > numNodes THEN "error" ELSE IF m = numNodes THEN "OK" ELSE "NotReady"
    BY Zenon DEF Result
  <2>2. "error" # "OK" /\ "NotReady" # "OK"
    OBVIOUS
  <2>3. Result(r) = "OK" => m = numNodes
    BY <2>1, <2>2, Zenon
  <2> QED BY <1>0, <1>6, <2>3, Zenon DEF MadeOnce
<1>9. r.host \in Host
  BY <1>0, Zenon DEF RingTypeOK
<1>10. AnswersList'
  BY <1>0, <1>2, <1>8, <1>9, AnswerKeeps, Zenon
<1> QED BY <1>1, <1>3, <1>4, <1>7, <1>10, Zenon DEF RingInv

(* Everyone holds one list, made once, in which servers that were never    *)
(* restarted stand under their node IDs.                                   *)
THEOREM Invariance == RingSpec => []RingInv
<1>1. RingInit => RingInv
  BY InitRing, Zenon
<1>2. RingInv /\ [RingNext]_ringVars => RingInv'
  <2> SUFFICES ASSUME RingInv, [RingNext]_ringVars PROVE RingInv'
    OBVIOUS
  <2>1. CASE UNCHANGED ringVars
    BY <2>1, Zenon DEF RingInv, RingTypeOK, RingsAgree, MadeOnce, ListMade, MasterFirst, AnswersList,
                       IdsRecorded, ringVars, hostVars, libVars
  <2>2. CASE RingNext
    <3>1. ASSUME NEW r \in requests, RegisterServer(r) PROVE RingInv'
      BY <3>1, CompletingIInv, AnsweringIInv, Zenon
    <3> QED BY <2>2, <3>1, StartSteps, SlaveSteps, LibSteps, RegisterReturnsIInv, RestartIInv,
               MasterReadyIInv, Zenon DEF RingNext
  <2> QED BY <2>1, <2>2, Zenon
<1> QED BY <1>1, <1>2, PTL DEF RingSpec

(* The lists of all servers that answer and of all libstores agree.        *)
THEOREM OneRing == RingSpec => []RingsAgree
<1>1. RingInv => RingsAgree
  BY Zenon DEF RingInv
<1> QED BY <1>1, Invariance, PTL

-----------------------------------------------------------------------------
(* What the ring means for a key.                                          *)

(* Where the search of a libstore stops: at the first node that is not     *)
(* below the hash, or at the first node of all.                            *)
LEMMA SearchStops ==
  ASSUME NEW list \in [1 .. numNodes -> Node], NEW hash \in Nat
  PROVE  \E i \in 1 .. numNodes :
           /\ Findshashring(list, hash) = list[i].host
           /\ \A h : serversList[h] = list =>
                (checkIsRightServer(h, hash) <=> list[i].id = nodeID[h])
           /\ \/ list[i].id >= hash /\ \A j \in 1 .. numNodes : list[j].id >= hash => i <= j
              \/ i = 1 /\ \A j \in 1 .. numNodes : ~(list[j].id >= hash)
<1> USE RingAssumption
<1> DEFINE stop == {i \in DOMAIN list : list[i].id >= hash}
<1>1. DOMAIN list = 1 .. numNodes /\ 1 \in 1 .. numNodes
  OBVIOUS
<1>2. \A j \in 1 .. numNodes : list[j].id \in Nat
  BY Zenon DEF Node
<1>3. {i \in DOMAIN list : hash <= list[i].id} = stop
  BY <1>1, <1>2, Zenon
<1>4. CASE stop = {}
  <2>1. Findshashring(list, hash) = list[1].host
    BY <1>4, Zenon DEF Findshashring
  <2>2. \A h : serversList[h] = list => (checkIsRightServer(h, hash) <=> list[1].id = nodeID[h])
    BY <1>3, <1>4, Zenon DEF checkIsRightServer
  <2> QED BY <1>1, <1>4, <2>1, <2>2, Zenon
<1>5. CASE stop # {}
  <2>1. stop \in SUBSET (1 .. numNodes)
    BY <1>1, Zenon
  <2>2. Smallest(stop) \in stop /\ \A j \in stop : Smallest(stop) <= j
    BY <1>5, <2>1, SmallestFact, Zenon
  <2>3. Findshashring(list, hash) = list[Smallest(stop)].host
    BY <1>5, Zenon DEF Findshashring
  <2>4. \A h : serversList[h] = list =>
          (checkIsRightServer(h, hash) <=> list[Smallest(stop)].id = nodeID[h])
    BY <1>3, <1>5, Zenon DEF checkIsRightServer
  <2> QED BY <1>1, <2>2, <2>3, <2>4, Zenon
<1> QED BY <1>4, <1>5, Zenon

(* The list of a libstore that has one is the master's, in order.          *)
LEMMA LibList ==
  ASSUME RingInv, NEW l \in Lib, lib[l] = "ready"
  PROVE  /\ servers[l] = serversList[Master] /\ servers[l] \in [1 .. numNodes -> Node]
         /\ status[Master] = "OK"
<1>1. /\ servers[l] = serversList[Master] /\ status[Master] = "OK" /\ servers[l] \in RingList
      /\ DOMAIN servers[l] = 1 .. numNodes
  BY Zenon DEF RingInv, RingsAgree, RingTypeOK, MasterFirst
<1>2. 1 \in DOMAIN servers[l]
  BY <1>1, RingAssumption
<1>3. servers[l] # <<>>
  BY <1>2
<1>4. servers[l] \in [1 .. numNodes -> Node]
  BY <1>1, <1>3, Zenon DEF RingList
<1> QED BY <1>1, <1>4, Zenon

(* A libstore sends a key to the successor of its hash on the ring.        *)
THEOREM Successor == RingSpec => []RoutedToSuccessor
<1>1. RingInv => RoutedToSuccessor
  <2> SUFFICES ASSUME RingInv, NEW l \in Lib, NEW hash \in Hash, lib[l] = "ready"
               PROVE  LET ids == {servers[l][i].id : i \in 1 .. numNodes}
                          above == {id \in ids : id >= hash}
                      IN  \E i \in 1 .. numNodes :
                            /\ servers[l][i].host = Findshashring(servers[l], hash)
                            /\ above # {} => servers[l][i].id \in above
                            /\ \A id \in (IF above = {} THEN ids ELSE above) :
                                  servers[l][i].id <= id
    BY Zenon DEF RoutedToSuccessor
  <2> DEFINE ids == {servers[l][i].id : i \in 1 .. numNodes}
             above == {id \in ids : id >= hash}
  <2>1. /\ servers[l] = serversList[Master] /\ servers[l] \in [1 .. numNodes -> Node]
        /\ status[Master] = "OK"
    BY LibList, Zenon
  <2>2. \A i, j \in 1 .. numNodes : i < j => servers[l][i].id <= servers[l][j].id
    BY <2>1, Zenon DEF RingInv, ListMade
  <2>3. \A i \in 1 .. numNodes : servers[l][i].id \in Nat
    BY <2>1, RingAssumption, Zenon DEF Node
  <2>4. PICK i \in 1 .. numNodes :
          /\ Findshashring(servers[l], hash) = servers[l][i].host
          /\ \/ /\ servers[l][i].id >= hash
                /\ \A j \in 1 .. numNodes : servers[l][j].id >= hash => i <= j
             \/ i = 1 /\ \A j \in 1 .. numNodes : ~(servers[l][j].id >= hash)
    BY <2>1, SearchStops, RingAssumption, Zenon
  <2>5. CASE servers[l][i].id >= hash /\ \A j \in 1 .. numNodes : servers[l][j].id >= hash => i <= j
    <3>1. servers[l][i].id \in above
      BY <2>5, Zenon
    <3>2. \A j \in 1 .. numNodes : servers[l][j].id >= hash => servers[l][i].id <= servers[l][j].id
      BY <2>2, <2>3, <2>5
    <3> QED BY <2>4, <3>1, <3>2, Zenon
  <2>6. CASE i = 1 /\ \A j \in 1 .. numNodes : ~(servers[l][j].id >= hash)
    <3>1. above = {}
      BY <2>6, Zenon
    <3>2. \A j \in 1 .. numNodes : servers[l][i].id <= servers[l][j].id
      BY <2>2, <2>3, <2>6
    <3> QED BY <2>4, <3>1, <3>2, Zenon
  <2> QED BY <2>4, <2>5, <2>6, Zenon
<1> QED BY <1>1, Invariance, PTL

(* The server that a libstore picks takes the key, and no other one does.  *)
THEOREM SearchMeetsCheck == RingSpec => []OnlyRoutedAccepts
<1>1. RingInv => OnlyRoutedAccepts
  <2> SUFFICES ASSUME RingInv, NEW l \in Lib, NEW hash \in Hash, NEW h \in Host,
                      lib[l] = "ready", status[h] = "OK", life[h] = 0
               PROVE  LET owner == Findshashring(servers[l], hash)
                      IN  /\ h = owner => checkIsRightServer(h, hash)
                          /\ /\ checkIsRightServer(h, hash) /\ life[owner] = 0
                             /\ \A g \in Host : g # h => nodeID[g] # nodeID[h]
                             => h = owner
    BY Zenon DEF OnlyRoutedAccepts
  <2>1. /\ servers[l] = serversList[Master] /\ servers[l] \in [1 .. numNodes -> Node]
        /\ status[Master] = "OK"
    BY LibList, Zenon
  <2>2. serversList[h] = servers[l]
    BY <2>1, Zenon DEF RingInv, RingsAgree
  <2>3. PICK i \in 1 .. numNodes :
          /\ Findshashring(servers[l], hash) = servers[l][i].host
          /\ checkIsRightServer(h, hash) <=> servers[l][i].id = nodeID[h]
    <3>1. servers[l] \in [1 .. numNodes -> Node] /\ hash \in Nat
      BY <2>1, RingAssumption, Zenon
    <3>2. PICK i \in 1 .. numNodes :
            /\ Findshashring(servers[l], hash) = servers[l][i].host
            /\ \A g : serversList[g] = servers[l] =>
                 (checkIsRightServer(g, hash) <=> servers[l][i].id = nodeID[g])
      BY <3>1, SearchStops, Zenon
    <3> QED BY <2>2, <3>2, Zenon
  <2>4. servers[l][i].host \in Host
    BY <2>1, Zenon DEF Node
  <2>5. life[servers[l][i].host] = 0 => servers[l][i].id = nodeID[servers[l][i].host]
    BY <2>1, Zenon DEF RingInv, ListMade
  <2> DEFINE owner == servers[l][i].host
  <2>6. h = owner => checkIsRightServer(h, hash)
    BY <2>3, <2>5, Zenon
  <2>7. /\ checkIsRightServer(h, hash) /\ life[owner] = 0
        /\ \A g \in Host : g # h => nodeID[g] # nodeID[h]
        => h = owner
    BY <2>3, <2>4, <2>5, Zenon
  <2> HIDE DEF owner
  <2>8. Findshashring(servers[l], hash) = owner
    BY <2>3, Zenon DEF owner
  <2> QED BY <2>6, <2>7, <2>8, Zenon
<1> QED BY <1>1, Invariance, PTL

-----------------------------------------------------------------------------
(* The Tribbler servers.                                                   *)

Value == [posted : Nat, post : Nat]

Post == [user : User, id : Nat, post : Nat, posted : Nat, ok : BOOLEAN]

Tribble == [user : User, id : Nat, value : Value]

NoCall == [op |-> "none"]

Status == {"none", "OK", "Exists", "NoSuchUser", "NoSuchTargetUser", "error"}

Goroutine ==
  [pc : {"replied", "user", "putUser", "target", "change", "list", "putTribble", "appendTribble",
         "fetch"},
   call : Calls \cup {NoCall}, n : Nat, okUser : BOOLEAN, id : Nat,
   todo : SUBSET User, pending : SUBSET (User \X Nat), got : SUBSET Tribble, last : [User -> Value],
   status : Status, reply : SUBSET Tribble, before : SUBSET Post,
   steady : SUBSET User, asked : SUBSET User, clean : BOOLEAN]

StorageTypeOK ==
  /\ user \subseteq User /\ hasList \subseteq User
  /\ subscribe_list \in [User -> SUBSET User] /\ tribble_list \in [User -> SUBSET Nat]
  /\ DOMAIN tribbles \subseteq User \X Nat
  /\ \A k \in DOMAIN tribbles : tribbles[k] \in Value
  /\ now \in Nat /\ calls \in Nat /\ fails \in Nat /\ posts \subseteq Post

TypeOK == StorageTypeOK /\ hs \in [Handler -> Goroutine]

Active(r) == r.pc # "replied"

(* The users that a goroutine has found.                                   *)
Checked(r, users) ==
  /\ r.pc = "target" /\ r.okUser => r.call.user \in users
  /\ r.pc = "change" => r.call.user \in users /\ r.call.target \in users
  /\ r.pc \in {"list", "putTribble", "appendTribble"} => r.call.user \in users
  /\ r.pc = "fetch" => r.asked \subseteq users

(* A call has a number of its own, and posts nothing before appendTribble. *)
Numbered(r, ps, count) ==
  Active(r) =>
    /\ r.call \in Calls /\ r.n \in 1 .. count
    /\ r.pc # "appendTribble" => \A p \in ps : p.post # r.n

Posting(r, trs, ps) ==
  r.pc = "appendTribble" =>
    /\ <<r.call.user, r.id>> \in DOMAIN trs
    /\ \A p \in ps : p.post = r.n => p.user = r.call.user /\ p.id = r.id

(* What was noted when the call began still holds.                         *)
Noted(r, subs, ps) ==
  Active(r) =>
    /\ r.steady \subseteq subs[r.call.user]
    /\ \A p \in r.before : p \in ps /\ p.ok

(* Tribble x is what post p said.                                          *)
Shows(x, p) == x.user = p.user /\ x.id = p.id /\ x.value.post = p.post /\ x.value.posted = p.posted

Real(r, tribs, ps) == \A x \in tribs : x.user \in r.asked /\ \E p \in ps : Shows(x, p)

UniqueIn(p, ps) == \A q \in ps : q.user = p.user /\ q.id = p.id => q.post = p.post

Whose(r) == IF r.call.op = "GetTribbles" THEN {r.call.user} ELSE r.steady

(* Nothing is fetched before the users to ask are known.                   *)
Fresh(r) == r.pc \in {"user", "list"} => r.pending = {} /\ r.got = {}

(* A post is still to be fetched, or there.                                *)
OnTheWay(r, p) ==
  \/ p.user \in r.todo
  \/ <<p.user, p.id>> \in r.pending
  \/ \E x \in r.got : Shows(x, p)

Fetching(r, trs, ps) ==
  r.pc = "fetch" =>
    /\ IsFiniteSet(r.got) /\ r.todo \subseteq r.asked
    /\ \A k \in r.pending : k \in DOMAIN trs /\ k[1] \in r.asked
    /\ r.clean => /\ Real(r, r.got, ps)
                  /\ \A p \in r.before : p.user \in Whose(r) /\ UniqueIn(p, ps) => OnTheWay(r, p)

Read(r) ==
  /\ r.pc = "replied" /\ r.status = "OK" /\ r.clean
  /\ r.call.op \in {"GetTribbles", "GetTribblesBySubscription"}

Replied(r, users, ps) ==
  Read(r) =>
    /\ r.asked \subseteq users /\ Real(r, r.reply, ps)
    /\ \A p \in r.before : p.user \in Whose(r) /\ UniqueIn(p, ps) =>
         \/ \E x \in r.reply : x.value.post = p.post
         \/ /\ Cardinality(r.reply) = Cap
            /\ \A x \in r.reply : x.value.posted >= p.posted

GoroutineOK(r, users, subs, trs, ps, count) ==
  /\ Checked(r, users) /\ Fresh(r) /\ Numbered(r, ps, count) /\ Posting(r, trs, ps)
  /\ Noted(r, subs, ps) /\ Fetching(r, trs, ps) /\ Replied(r, users, ps)

(* No two calls that are served have the same number.                      *)
Distinct == \A g, h \in Handler : Active(hs[g]) /\ Active(hs[h]) /\ hs[g].n = hs[h].n => g = h

(* Posts have numbers of their own; one answered with OK is in its list.   *)
PostsOK(ps, lists, users, count) ==
  /\ \A p, q \in ps : p.post = q.post => p = q
  /\ \A p \in ps : p.post <= count
  /\ \A p \in ps : p.ok => p.user \in users /\ p.id \in lists[p.user]

(* What is stored under an id that is in a list is a post.                 *)
Stored(lists, trs, ps) ==
  /\ \A u \in User : \A id \in lists[u] : <<u, id>> \in DOMAIN trs
  /\ \A k \in DOMAIN trs : \E p \in ps :
       k = <<p.user, p.id>> /\ trs[k].post = p.post /\ trs[k].posted = p.posted

IInv ==
  /\ TypeOK /\ SubscribersExist /\ Distinct
  /\ PostsOK(posts, tribble_list, user, calls)
  /\ Stored(tribble_list, tribbles, posts)
  /\ \A h \in Handler : GoroutineOK(hs[h], user, subscribe_list, tribbles, posts, calls)

-----------------------------------------------------------------------------
(* Records of goroutines.                                                  *)

(* A goroutine that has nothing to do, or has replied.                     *)
LEMMA IdleGoroutine ==
  /\ Idle \in Goroutine /\ Idle.pc = "replied" /\ Idle.call = NoCall
  /\ Idle.n = 0 /\ Idle.got = {} /\ Idle.todo = {} /\ Idle.pending = {}
<1>1. Zero \in Value
  BY DEF Zero, Value
<1>2. [u \in User |-> Zero] \in [User -> Value]
  BY <1>1, Zenon
<1>. DEFINE z == [u \in User |-> Zero]
            none == NoCall
            i == [pc |-> "replied", call |-> none, n |-> 0, okUser |-> FALSE,
                  id |-> 0, todo |-> {}, pending |-> {}, got |-> {}, last |-> z,
                  status |-> "none", reply |-> {}, before |-> {}, steady |-> {}, asked |-> {},
                  clean |-> TRUE]
<1>3. Idle = i
  BY Zenon DEF Idle, NoCall
<1>4. z \in [User -> Value] /\ none \in Calls \cup {NoCall}
  BY <1>2
<1>. HIDE DEF z, none
<1>5. i \in Goroutine
  <2>1. /\ {} \in SUBSET User /\ {} \in SUBSET (User \X Nat) /\ {} \in SUBSET Tribble
        /\ {} \in SUBSET Post
    BY Zenon
  <2>2. 0 \in Nat
    OBVIOUS
  <2>3. "none" \in Status
    BY Zenon DEF Status
  <2>4. QED
    BY <1>4, <2>1, <2>2, <2>3, Zenon DEF Goroutine
<1>6. /\ i.pc = "replied" /\ i.call = none
      /\ i.n = 0 /\ i.got = {} /\ i.todo = {} /\ i.pending = {}
  OBVIOUS
<1>7. QED
  BY <1>3, <1>5, <1>6, Zenon DEF none

(* What a call of the libstore leaves behind: only clean may change.       *)
AfterCall(s, e) == [s EXCEPT !.clean = s.pc = "replied" \/ (@ /\ e = "ok")]

SameCall(t, s) == t.call = s.call /\ t.n = s.n /\ t.before = s.before /\ t.steady = s.steady

SameFetch(t, s) ==
  t.todo = s.todo /\ t.pending = s.pending /\ t.got = s.got /\ t.last = s.last /\ t.asked = s.asked

(* All other fields stay.                                                  *)
LEMMA AfterCallFields ==
  ASSUME NEW s \in Goroutine, NEW e
  PROVE  LET t == AfterCall(s, e)
         IN  /\ t \in Goroutine /\ t.pc = s.pc /\ t.okUser = s.okUser /\ t.id = s.id
             /\ SameCall(t, s) /\ SameFetch(t, s)
             /\ t.pc # "replied" => (t.clean => s.clean /\ e = "ok")
<1>. DEFINE c == s.pc = "replied" \/ (s.clean /\ e = "ok")
            t == [s EXCEPT !.clean = c]
<1>1. c \in BOOLEAN /\ AfterCall(s, e) = t
  BY DEF AfterCall
<1>. HIDE DEF c
<1>2. t \in Goroutine
  BY <1>1 DEF Goroutine
<1>3. /\ t.pc = s.pc /\ t.okUser = s.okUser /\ t.id = s.id
      /\ t.call = s.call /\ t.n = s.n /\ t.before = s.before /\ t.steady = s.steady
  BY DEF Goroutine
<1>4. /\ t.todo = s.todo /\ t.pending = s.pending /\ t.got = s.got
      /\ t.last = s.last /\ t.asked = s.asked /\ t.clean = c
  BY DEF Goroutine
<1>5. QED
  BY <1>1, <1>2, <1>3, <1>4, Zenon DEF SameCall, SameFetch, c

(* A goroutine that replies forgets its call.                              *)
LEMMA ReplyFields ==
  ASSUME NEW h, NEW answer \in Status, NEW e
  PROVE  LET t == AfterCall(Reply(h, answer), e)
         IN  t \in Goroutine /\ t.pc = "replied" /\ t.call = NoCall
<1>. DEFINE s == Reply(h, answer)
<1>1. s \in Goroutine /\ s.pc = "replied" /\ s.call = NoCall
  BY IdleGoroutine DEF Reply, Goroutine
<1>. HIDE DEF s
<1>2. /\ AfterCall(s, e) \in Goroutine /\ AfterCall(s, e).pc = s.pc
      /\ SameCall(AfterCall(s, e), s)
  BY <1>1, AfterCallFields
<1>3. QED
  BY <1>1, <1>2, Zenon DEF SameCall, s

(* A goroutine that goes on keeps everything else.                         *)
LEMMA GotoFields ==
  ASSUME NEW h, hs[h] \in Goroutine,
         NEW pc \in {"putUser", "target", "change", "list", "putTribble", "appendTribble", "fetch"}
  PROVE  LET s == Goto(h, pc)
         IN  /\ s \in Goroutine /\ s.pc = pc /\ s.okUser = hs[h].okUser /\ s.id = hs[h].id
             /\ SameCall(s, hs[h]) /\ SameFetch(s, hs[h]) /\ s.clean = hs[h].clean
<1>. DEFINE s == [hs[h] EXCEPT !.pc = pc]
<1>1. s \in Goroutine
  BY DEF Goroutine
<1>2. /\ s.pc = pc /\ s.okUser = hs[h].okUser /\ s.id = hs[h].id /\ s.clean = hs[h].clean
      /\ s.call = hs[h].call /\ s.n = hs[h].n
      /\ s.before = hs[h].before /\ s.steady = hs[h].steady
  BY DEF Goroutine
<1>3. /\ s.todo = hs[h].todo /\ s.pending = hs[h].pending /\ s.got = hs[h].got
      /\ s.last = hs[h].last /\ s.asked = hs[h].asked
  BY DEF Goroutine
<1>4. QED
  BY <1>1, <1>2, <1>3, Zenon DEF Goto, SameCall, SameFetch

(* The calls that failed are counted.                                      *)
LEMMA FailsCounted ==
  ASSUME NEW e, Ends(e), fails \in Nat
  PROVE  fails' \in Nat
  BY DEF Ends

(* Tribbles are the same when their parts are.                             *)
LEMMA SameTribble ==
  ASSUME NEW x \in Tribble, NEW y \in Tribble,
         x.user = y.user, x.id = y.id, x.value = y.value
  PROVE  x = y
  BY DEF Tribble

(* A reply without tribbles: nothing more is asked of the goroutine.       *)
LEMMA RepliedOK ==
  ASSUME NEW t, t.pc = "replied", t.call = NoCall,
         NEW users, NEW subs, NEW trs, NEW ps, NEW count
  PROVE  GoroutineOK(t, users, subs, trs, ps, count)
<1>1. t.call.op = "none"
  BY DEF NoCall
<1>2. ~Read(t)
  BY <1>1 DEF Read
<1>3. /\ ~Active(t) /\ t.pc # "target" /\ t.pc # "change" /\ t.pc # "appendTribble"
      /\ t.pc # "fetch" /\ t.pc \notin {"list", "putTribble", "appendTribble"}
      /\ t.pc \notin {"user", "list"}
  BY DEF Active
<1>4. QED
  BY <1>2, <1>3, Zenon
     DEF GoroutineOK, Checked, Fresh, Numbered, Posting, Noted, Fetching, Replied

-----------------------------------------------------------------------------
(* Goroutines that do not take the step.                                   *)

SamePost(p, q) == q.user = p.user /\ q.id = p.id /\ q.post = p.post /\ q.posted = p.posted

(* Posts are not forgotten, nor is their OK.                               *)
Grown(ps, ps2) ==
  /\ \A p \in ps : \E q \in ps2 : SamePost(p, q)
  /\ \A p \in ps : p.ok => p \in ps2

(* All posts of a call were there before.                                  *)
NoNewPosts(n, ps, ps2) == \A q \in ps2 : q.post = n => \E p \in ps : SamePost(p, q)

(* A post that no other shadows now was not shadowed before.               *)
LEMMA UniqueBefore ==
  ASSUME NEW ps, NEW ps2, Grown(ps, ps2), NEW p, UniqueIn(p, ps2)
  PROVE  UniqueIn(p, ps)
  BY Zenon DEF Grown, UniqueIn, SamePost

(* Tribbles that show posts still do.                                      *)
LEMMA RealKept ==
  ASSUME NEW ps, NEW ps2, Grown(ps, ps2), NEW r, NEW tribs, Real(r, tribs, ps)
  PROVE  Real(r, tribs, ps2)
<1>. SUFFICES ASSUME NEW x \in tribs
             PROVE  x.user \in r.asked /\ \E q \in ps2 : Shows(x, q)
  BY Zenon DEF Real
<1>1. x.user \in r.asked /\ \E p \in ps : Shows(x, p)
  BY Zenon DEF Real
<1>2. PICK p \in ps : Shows(x, p)
  BY <1>1, Zenon
<1>3. PICK q \in ps2 : SamePost(p, q)
  BY <1>2, Zenon DEF Grown
<1>4. Shows(x, q)
  BY <1>2, <1>3, Zenon DEF Shows, SamePost
<1>5. QED
  BY <1>1, <1>4, Zenon

(* The storage only grows as far as a goroutine r can tell.                *)
Later(r, users, subs, trs, ps, count, users2, subs2, trs2, ps2, count2) ==
  /\ users \subseteq users2 /\ DOMAIN trs \subseteq DOMAIN trs2
  /\ Active(r) => (r.steady \subseteq subs[r.call.user] => r.steady \subseteq subs2[r.call.user])
  /\ Grown(ps, ps2) /\ 1 .. count \subseteq 1 .. count2
  /\ Active(r) => NoNewPosts(r.n, ps, ps2)

(* Then what the goroutine relies on still holds.                          *)
LEMMA StillOK ==
  ASSUME NEW r, NEW users, NEW subs, NEW trs, NEW ps, NEW count,
         NEW users2, NEW subs2, NEW trs2, NEW ps2, NEW count2,
         GoroutineOK(r, users, subs, trs, ps, count),
         Later(r, users, subs, trs, ps, count, users2, subs2, trs2, ps2, count2)
  PROVE  GoroutineOK(r, users2, subs2, trs2, ps2, count2)
<1>. USE DEF Later
<1>1. Checked(r, users2)
  BY Zenon DEF GoroutineOK, Checked
<1>2. Numbered(r, ps2, count2)
  BY Zenon DEF GoroutineOK, Numbered, NoNewPosts, SamePost
<1>3. Posting(r, trs2, ps2)
  <2>1. r.pc = "appendTribble" => Active(r)
    BY DEF Active
  <2>2. QED
    BY <2>1, Zenon DEF GoroutineOK, Posting, NoNewPosts, SamePost
<1>4. Noted(r, subs2, ps2)
  BY Zenon DEF GoroutineOK, Noted, Grown
<1>5. Fetching(r, trs2, ps2)
  <2>1. r.pc = "fetch" /\ r.clean => Real(r, r.got, ps2)
    BY RealKept, Zenon DEF GoroutineOK, Fetching
  <2>2. ASSUME r.pc = "fetch", r.clean, NEW p \in r.before, p.user \in Whose(r), UniqueIn(p, ps2)
        PROVE  OnTheWay(r, p)
    BY <2>2, UniqueBefore, Zenon DEF GoroutineOK, Fetching
  <2>3. QED
    BY <2>1, <2>2, Zenon DEF GoroutineOK, Fetching
<1>6. Replied(r, users2, ps2)
  <2>1. Read(r) => Real(r, r.reply, ps2)
    BY RealKept, Zenon DEF GoroutineOK, Replied
  <2>2. ASSUME Read(r), NEW p \in r.before, p.user \in Whose(r), UniqueIn(p, ps2)
        PROVE  \/ \E x \in r.reply : x.value.post = p.post
               \/ /\ Cardinality(r.reply) = Cap
                  /\ \A x \in r.reply : x.value.posted >= p.posted
    BY <2>2, UniqueBefore, Zenon DEF GoroutineOK, Replied
  <2>3. QED
    BY <2>1, <2>2, Zenon DEF GoroutineOK, Replied
<1>7. QED
  BY <1>1, <1>2, <1>3, <1>4, <1>5, <1>6, Zenon DEF GoroutineOK

-----------------------------------------------------------------------------
(* A step of one goroutine, which becomes t.                               *)

(* It is enough to look at t, the storage and what the others see of it.   *)
LEMMA OneStep ==
  ASSUME IInv, NEW h \in Handler, NEW t \in Goroutine, Become(h, t),
         StorageTypeOK', SubscribersExist',
         PostsOK(posts', tribble_list', user', calls'), Stored(tribble_list', tribbles', posts'),
         GoroutineOK(t, user', subscribe_list', tribbles', posts', calls'),
         \A g \in Handler \ {h} : Active(t) /\ Active(hs[g]) => hs[g].n # t.n,
         \A g \in Handler \ {h} :
           Later(hs[g], user, subscribe_list, tribbles, posts, calls,
                 user', subscribe_list', tribbles', posts', calls')
  PROVE  IInv'
<1>1. /\ hs' \in [Handler -> Goroutine] /\ hs'[h] = t
      /\ \A g \in Handler \ {h} : hs'[g] = hs[g]
  BY Zenon DEF IInv, TypeOK, Become
<1>2. TypeOK'
  BY <1>1, Zenon DEF TypeOK
<1>3. Distinct'
  <2>. SUFFICES ASSUME NEW g \in Handler, NEW k \in Handler, Active(hs'[g]), Active(hs'[k]),
                       hs'[g].n = hs'[k].n
               PROVE  g = k
    BY Zenon DEF Distinct, Active
  <2>1. CASE g = h \/ k = h
    BY <1>1, <2>1, Zenon
  <2>2. CASE g # h /\ k # h
    BY <1>1, <2>2, Zenon DEF IInv, Distinct
  <2>3. QED
    BY <2>1, <2>2, Zenon
<1>4. ASSUME NEW g \in Handler
      PROVE  GoroutineOK(hs'[g], user', subscribe_list', tribbles', posts', calls')
  <2>1. CASE g = h
    BY <1>1, <2>1, Zenon
  <2>2. CASE g # h
    <3>1. GoroutineOK(hs[g], user, subscribe_list, tribbles, posts, calls)
      BY Zenon DEF IInv
    <3>2. QED
      BY <1>1, <2>2, <3>1, StillOK, Zenon
  <2>3. QED
    BY <2>1, <2>2, Zenon
<1>5. QED
  BY <1>2, <1>3, <1>4 DEF IInv

(* Nothing but the goroutine changes.                                      *)
Quiet == UNCHANGED <<store, now, calls, posts>> /\ fails' \in Nat

(* Then it is enough to look at t.                                         *)
LEMMA QuietStep ==
  ASSUME IInv, NEW h \in Handler, NEW t \in Goroutine, Become(h, t), Quiet,
         Active(t) => Active(hs[h]) /\ t.n = hs[h].n,
         GoroutineOK(t, user, subscribe_list, tribbles, posts, calls)
  PROVE  IInv'
<1>1. /\ user' = user /\ subscribe_list' = subscribe_list /\ hasList' = hasList
      /\ tribble_list' = tribble_list /\ tribbles' = tribbles /\ now' = now
      /\ calls' = calls /\ posts' = posts
  BY DEF Quiet, store
<1>2. StorageTypeOK' /\ SubscribersExist'
  BY <1>1 DEF IInv, TypeOK, StorageTypeOK, SubscribersExist, Quiet
<1>3. /\ PostsOK(posts', tribble_list', user', calls') /\ Stored(tribble_list', tribbles', posts')
      /\ GoroutineOK(t, user', subscribe_list', tribbles', posts', calls')
  BY <1>1, Zenon DEF IInv
<1>4. \A g \in Handler \ {h} : Active(t) /\ Active(hs[g]) => hs[g].n # t.n
  BY Zenon DEF IInv, Distinct
<1>5. Grown(posts, posts)
  BY Zenon DEF Grown, SamePost
<1>6. \A n : NoNewPosts(n, posts, posts)
  BY Zenon DEF NoNewPosts, SamePost
<1>7. \A g \in Handler \ {h} :
        Later(hs[g], user, subscribe_list, tribbles, posts, calls,
              user', subscribe_list', tribbles', posts', calls')
  BY <1>1, <1>5, <1>6, Zenon DEF Later
<1>8. QED
  BY <1>2, <1>3, <1>4, <1>7, OneStep, Zenon

-----------------------------------------------------------------------------
(* Steps of one goroutine that only read the storage.                      *)

(* A call of the libstore ends.                                            *)
LEMMA QuietEnd ==
  ASSUME IInv, NEW e, Ends(e), UNCHANGED <<store, now, calls, posts>>
  PROVE  Quiet
  BY DEF IInv, TypeOK, StorageTypeOK, Ends, Quiet

(* The goroutine replies.                                                  *)
LEMMA QuietReply ==
  ASSUME IInv, NEW h \in Handler, NEW e, NEW answer \in Status, Quiet,
         BecomeAfter(h, e, Reply(h, answer))
  PROVE  IInv'
<1>. DEFINE t == AfterCall(Reply(h, answer), e)
<1>1. t \in Goroutine /\ t.pc = "replied" /\ t.call = NoCall
  BY ReplyFields
<1>2. Become(h, t)
  BY Zenon DEF BecomeAfter, AfterCall
<1>. HIDE DEF t
<1>3. GoroutineOK(t, user, subscribe_list, tribbles, posts, calls)
  BY <1>1, RepliedOK, Zenon
<1>4. QED
  BY <1>1, <1>2, <1>3, QuietStep, Zenon DEF Active

(* The goroutine goes on with the same call.                               *)
LEMMA QuietOn ==
  ASSUME IInv, NEW h \in Handler, NEW e, NEW s \in Goroutine, Quiet,
         BecomeAfter(h, e, s),
         Active(hs[h]), hs[h].pc # "appendTribble", Active(s), s.pc # "appendTribble",
         SameCall(s, hs[h]), Checked(s, user), Fresh(s),
         Fetching(AfterCall(s, e), tribbles, posts)
  PROVE  IInv'
<1>. DEFINE t == AfterCall(s, e)
<1>1. /\ t \in Goroutine /\ t.pc = s.pc /\ t.okUser = s.okUser /\ SameCall(t, s) /\ SameFetch(t, s)
  BY AfterCallFields
<1>2. Become(h, t) /\ Fetching(t, tribbles, posts)
  BY Zenon DEF BecomeAfter, AfterCall
<1>. HIDE DEF t
<1>3. Active(t) /\ t.n = hs[h].n /\ t.call = hs[h].call /\ t.pc # "appendTribble"
      /\ t.before = hs[h].before /\ t.steady = hs[h].steady
  BY <1>1, Zenon DEF Active, SameCall
<1>4. GoroutineOK(hs[h], user, subscribe_list, tribbles, posts, calls)
  BY Zenon DEF IInv
<1>5. Numbered(t, posts, calls) /\ Noted(t, subscribe_list, posts) /\ Posting(t, tribbles, posts)
  BY <1>3, <1>4, Zenon DEF GoroutineOK, Numbered, Noted, Posting
<1>6. Checked(t, user) /\ Fresh(t)
  BY <1>1, Zenon DEF Checked, Fresh, SameCall, SameFetch
<1>7. Replied(t, user, posts)
  BY <1>3, Zenon DEF Replied, Read, Active
<1>8. QED
  BY <1>1, <1>2, <1>3, <1>5, <1>6, <1>7, QuietStep, Zenon DEF GoroutineOK

(* The goroutine goes on to a point where nothing is fetched.              *)
LEMMA QuietGoto ==
  ASSUME IInv, NEW h \in Handler, NEW e, Quiet,
         NEW pc \in {"putUser", "change", "list", "putTribble"}, BecomeAfter(h, e, Goto(h, pc)),
         hs[h].pc \in {"user", "target"}, Checked(Goto(h, pc), user),
         pc = "list" => hs[h].pc = "user"
  PROVE  IInv'
<1>1. hs[h] \in Goroutine
  BY Zenon DEF IInv, TypeOK
<1>. DEFINE s == Goto(h, pc)
<1>2. s \in Goroutine /\ s.pc = pc /\ SameCall(s, hs[h]) /\ SameFetch(s, hs[h])
  BY <1>1, GotoFields
<1>3. BecomeAfter(h, e, s) /\ Checked(s, user)
  BY Zenon
<1>. HIDE DEF s
<1>4. AfterCall(s, e).pc = pc
  BY <1>2, AfterCallFields
<1>5. Active(hs[h]) /\ hs[h].pc # "appendTribble" /\ Active(s) /\ s.pc # "appendTribble"
      /\ pc # "fetch" /\ pc # "user"
  BY <1>2 DEF Active
<1>6. Fetching(AfterCall(s, e), tribbles, posts)
  BY <1>4, <1>5, Zenon DEF Fetching
<1>7. Fresh(s)
  BY <1>2, <1>5, Zenon DEF IInv, GoroutineOK, Fresh, SameFetch
<1>8. QED
  BY <1>2, <1>3, <1>5, <1>6, <1>7, QuietOn, Zenon

StartFetch(h, us) == [Goto(h, "fetch") EXCEPT !.todo = us, !.asked = us]

(* The goroutine begins to fetch the tribbles of some users.               *)
LEMMA QuietFetch ==
  ASSUME IInv, NEW h \in Handler, NEW e, Quiet, NEW us \in SUBSET User, us \subseteq user,
         BecomeAfter(h, e, StartFetch(h, us)),
         hs[h].pc \in {"user", "list"}, e = "ok" => Whose(hs[h]) \subseteq us
  PROVE  IInv'
<1>1. hs[h] \in Goroutine
  BY Zenon DEF IInv, TypeOK
<1>. DEFINE g == Goto(h, "fetch")
            s == [g EXCEPT !.todo = us, !.asked = us]
<1>2. g \in Goroutine /\ g.pc = "fetch" /\ SameCall(g, hs[h]) /\ SameFetch(g, hs[h])
  BY <1>1, GotoFields
<1>3. BecomeAfter(h, e, s)
  BY Zenon DEF StartFetch
<1>. HIDE DEF g
<1>4. s \in Goroutine /\ s.pc = g.pc /\ s.todo = us /\ s.asked = us
  BY <1>2 DEF Goroutine
<1>5. /\ s.call = g.call /\ s.n = g.n /\ s.before = g.before /\ s.steady = g.steady
      /\ s.pending = g.pending /\ s.got = g.got
  BY <1>2 DEF Goroutine
<1>. HIDE DEF s
<1>6. /\ SameCall(s, hs[h]) /\ s.pc = "fetch" /\ s.pending = hs[h].pending /\ s.got = hs[h].got
  BY <1>2, <1>4, <1>5, Zenon DEF SameCall, SameFetch
<1>7. Active(hs[h]) /\ hs[h].pc # "appendTribble" /\ Active(s) /\ s.pc # "appendTribble"
      /\ s.pc # "target" /\ s.pc # "change" /\ s.pc \notin {"list", "putTribble", "appendTribble"}
      /\ s.pc \notin {"user", "list"}
  BY <1>6 DEF Active
<1>8. Checked(s, user) /\ Fresh(s)
  BY <1>4, <1>7, Zenon DEF Checked, Fresh
<1>9. Fetching(AfterCall(s, e), tribbles, posts)
  <2>. DEFINE t == AfterCall(s, e)
  <2>1. SameCall(t, s) /\ SameFetch(t, s) /\ t.pc = s.pc /\ (t.pc # "replied" => (t.clean => e = "ok"))
    BY <1>4, AfterCallFields
  <2>. HIDE DEF t
  <2>2. hs[h].pending = {} /\ hs[h].got = {}
    BY Zenon DEF IInv, GoroutineOK, Fresh
  <2>3. t.pending = {} /\ t.got = {} /\ t.todo = us /\ t.asked = us /\ Whose(t) = Whose(hs[h])
        /\ (t.clean => e = "ok")
    BY <1>4, <1>6, <1>7, <2>1, <2>2, Zenon DEF SameCall, SameFetch, Whose, Active
  <2>4. IsFiniteSet({})
    BY FS_EmptySet
  <2>5. QED
    BY <2>3, <2>4, Zenon DEF Fetching, Real, OnTheWay, t
<1>10. QED
  BY <1>3, <1>4, <1>6, <1>7, <1>8, <1>9, QuietOn, Zenon

(* The call that a goroutine serves.                                       *)
LEMMA CallFields ==
  ASSUME IInv, NEW h \in Handler, Active(hs[h])
  PROVE  /\ hs[h].call \in Calls /\ hs[h].call.user \in User /\ hs[h].call.target \in User
         /\ hs[h].call.op \in {"CreateUser", "AddSubscription", "RemoveSubscription",
                               "GetSubscriptions", "PostTribble", "GetTribbles",
                               "GetTribblesBySubscription"}
<1>1. hs[h].call \in Calls
  BY Zenon DEF IInv, GoroutineOK, Numbered
<1>2. QED
  BY <1>1, TribAssumption

(* AddSubscription and RemoveSubscription remember whether the user exists.*)
LEMMA QuietTarget ==
  ASSUME IInv, NEW h \in Handler, NEW e, Quiet, NEW found \in BOOLEAN,
         BecomeAfter(h, e, [Goto(h, "target") EXCEPT !.okUser = found]),
         hs[h].pc = "user", found => hs[h].call.user \in user
  PROVE  IInv'
<1>1. hs[h] \in Goroutine
  BY Zenon DEF IInv, TypeOK
<1>. DEFINE g == Goto(h, "target")
            s == [g EXCEPT !.okUser = found]
<1>2. g \in Goroutine /\ g.pc = "target" /\ SameCall(g, hs[h])
  BY <1>1, GotoFields
<1>3. BecomeAfter(h, e, s)
  BY Zenon
<1>. HIDE DEF g
<1>4. s \in Goroutine /\ s.pc = g.pc /\ s.okUser = found
  BY <1>2 DEF Goroutine
<1>5. s.call = g.call /\ s.n = g.n /\ s.before = g.before /\ s.steady = g.steady
  BY <1>2 DEF Goroutine
<1>. HIDE DEF s
<1>6. SameCall(s, hs[h]) /\ s.pc = "target"
  BY <1>2, <1>4, <1>5, Zenon DEF SameCall
<1>7. /\ Active(hs[h]) /\ hs[h].pc # "appendTribble" /\ Active(s) /\ s.pc # "appendTribble"
      /\ s.pc # "fetch" /\ s.pc # "change" /\ s.pc \notin {"list", "putTribble", "appendTribble"}
      /\ s.pc \notin {"user", "list"}
  BY <1>6 DEF Active
<1>8. Checked(s, user) /\ Fresh(s)
  BY <1>4, <1>6, <1>7, Zenon DEF Checked, Fresh, SameCall
<1>9. AfterCall(s, e).pc = s.pc
  BY <1>4, AfterCallFields
<1>10. Fetching(AfterCall(s, e), tribbles, posts)
  BY <1>7, <1>9, Zenon DEF Fetching
<1>11. QED
  BY <1>3, <1>4, <1>6, <1>7, <1>8, <1>10, QuietOn, Zenon

(* Every handler first asks for the user.                                  *)
LEMMA GetUserStep ==
  ASSUME IInv, NEW h \in Handler, GetUser(h)
  PROVE  IInv'
<1>1. hs[h].pc = "user" /\ Active(hs[h])
  BY DEF GetUser, Active
<1>2. PICK e \in {"ok", "failed"} :
        Ends(e) /\ BecomeAfter(h, e, AfterUser(h, e = "ok" /\ hs[h].call.user \in user))
  BY Zenon DEF GetUser
<1>3. Quiet
  BY <1>2, QuietEnd, Zenon DEF GetUser
<1>. DEFINE found == e = "ok" /\ hs[h].call.user \in user
            op == hs[h].call.op
<1>4. found \in BOOLEAN /\ (found => hs[h].call.user \in user) /\ BecomeAfter(h, e, AfterUser(h, found))
  BY <1>2, Zenon
<1>. HIDE DEF found
<1>5. hs[h] \in Goroutine
  BY Zenon DEF IInv, TypeOK
<1>6. CASE BecomeAfter(h, e, Reply(h, "Exists")) \/ BecomeAfter(h, e, Reply(h, "NoSuchUser"))
  <2>1. "Exists" \in Status /\ "NoSuchUser" \in Status
    BY DEF Status
  <2>2. QED
    BY <1>3, <1>6, <2>1, QuietReply, Zenon
<1>7. ASSUME NEW pc \in {"putUser", "list", "putTribble"}, BecomeAfter(h, e, Goto(h, pc)),
             pc \in {"list", "putTribble"} => found
      PROVE  IInv'
  <2>1. Goto(h, pc).pc = pc /\ SameCall(Goto(h, pc), hs[h])
    BY <1>5, GotoFields
  <2>2. /\ pc # "target" /\ pc # "change" /\ pc # "appendTribble" /\ pc # "fetch"
    OBVIOUS
  <2>3. Checked(Goto(h, pc), user)
    BY <1>4, <1>7, <2>1, <2>2, Zenon DEF Checked, SameCall
  <2>4. QED
    BY <1>1, <1>3, <1>7, <2>3, QuietGoto
<1>8. CASE op = "CreateUser"
  <2>1. AfterUser(h, found) = IF found THEN Reply(h, "Exists") ELSE Goto(h, "putUser")
    BY <1>8, Zenon DEF AfterUser
  <2>2. QED
    BY <1>4, <1>6, <1>7, <2>1
<1>9. CASE op \in {"AddSubscription", "RemoveSubscription"}
  <2>1. AfterUser(h, found) = [Goto(h, "target") EXCEPT !.okUser = found]
    BY <1>9 DEF AfterUser
  <2>2. QED
    BY <1>1, <1>3, <1>4, <2>1, QuietTarget, Zenon
<1>10. CASE op \in {"GetSubscriptions", "PostTribble", "GetTribbles", "GetTribblesBySubscription"}
  <2>1. CASE ~found
    <3>1. AfterUser(h, found) = Reply(h, "NoSuchUser")
      BY <1>10, <2>1 DEF AfterUser
    <3>2. QED
      BY <1>4, <1>6, <3>1, Zenon
  <2>2. CASE found /\ op = "PostTribble"
    <3>1. AfterUser(h, found) = Goto(h, "putTribble")
      BY <2>2 DEF AfterUser
    <3>2. QED
      BY <1>4, <1>7, <2>2, <3>1, Zenon
  <2>3. CASE found /\ op = "GetTribbles"
    <3>1. AfterUser(h, found) = StartFetch(h, {hs[h].call.user})
      BY <2>3 DEF AfterUser, StartFetch
    <3>2. Whose(hs[h]) = {hs[h].call.user}
      BY <2>3, Zenon DEF Whose
    <3>3. {hs[h].call.user} \in SUBSET User /\ {hs[h].call.user} \subseteq user
      BY <1>1, <1>4, <2>3, CallFields, Zenon
    <3>4. QED
      BY <1>1, <1>3, <1>4, <3>1, <3>2, <3>3, QuietFetch, Zenon
  <2>4. CASE found /\ op \in {"GetSubscriptions", "GetTribblesBySubscription"}
    <3>1. AfterUser(h, found) = Goto(h, "list")
      BY <2>4 DEF AfterUser
    <3>2. QED
      BY <1>4, <1>7, <2>4, <3>1, Zenon
  <2>5. QED
    BY <1>10, <2>1, <2>2, <2>3, <2>4, Zenon
<1>11. QED
  BY <1>1, <1>8, <1>9, <1>10, CallFields, Zenon

(* Then AddSubscription and RemoveSubscription ask for the target.         *)
LEMMA GetTargetStep ==
  ASSUME IInv, NEW h \in Handler, GetTarget(h)
  PROVE  IInv'
<1>1. hs[h].pc = "target" /\ hs[h] \in Goroutine
  BY Zenon DEF GetTarget, IInv, TypeOK
<1>2. PICK e \in {"ok", "failed"} :
        Ends(e) /\ BecomeAfter(h, e, AfterTarget(h, e = "ok" /\ hs[h].call.target \in user))
  BY Zenon DEF GetTarget
<1>3. Quiet
  BY <1>2, QuietEnd, Zenon DEF GetTarget
<1>4. "NoSuchUser" \in Status /\ "NoSuchTargetUser" \in Status
  BY DEF Status
<1>5. CASE BecomeAfter(h, e, Reply(h, "NoSuchUser")) \/ BecomeAfter(h, e, Reply(h, "NoSuchTargetUser"))
  BY <1>3, <1>4, <1>5, QuietReply, Zenon
<1>6. CASE BecomeAfter(h, e, Goto(h, "change")) /\ hs[h].okUser /\ hs[h].call.target \in user
  <2>1. Goto(h, "change").pc = "change" /\ SameCall(Goto(h, "change"), hs[h])
    BY <1>1, GotoFields
  <2>2. hs[h].call.user \in user
    BY <1>1, <1>6, Zenon DEF IInv, GoroutineOK, Checked
  <2>3. "change" # "target" /\ "change" # "fetch" /\ "change" \notin {"list", "putTribble", "appendTribble"}
    OBVIOUS
  <2>4. Checked(Goto(h, "change"), user)
    BY <1>6, <2>1, <2>2, <2>3, Zenon DEF Checked, SameCall
  <2>5. QED
    BY <1>1, <1>3, <1>6, <2>4, QuietGoto
<1>7. QED
  BY <1>2, <1>5, <1>6, Zenon DEF AfterTarget

(* GetSubscriptions replies.                                               *)
LEMMA GetSubscriptionsStep ==
  ASSUME IInv, NEW h \in Handler, GetSubscriptions(h)
  PROVE  IInv'
<1>1. PICK e \in {"ok", "failed"} :
        /\ Ends(e)
        /\ BecomeAfter(h, e, Reply(h, IF e = "ok" /\ hs[h].call.user \in hasList THEN "OK" ELSE "error"))
  BY Zenon DEF GetSubscriptions
<1>2. Quiet
  BY <1>1, QuietEnd, Zenon DEF GetSubscriptions
<1>3. (IF e = "ok" /\ hs[h].call.user \in hasList THEN "OK" ELSE "error") \in Status
  BY Zenon DEF Status
<1>4. QED
  BY <1>1, <1>2, <1>3, QuietReply, Zenon

(* GetTribblesBySubscription has the list.                                 *)
LEMMA ListSubscriptionsStep ==
  ASSUME IInv, NEW h \in Handler, ListSubscriptions(h)
  PROVE  IInv'
<1>. DEFINE c == hs[h].call
<1>1. hs[h].pc = "list" /\ c.op = "GetTribblesBySubscription" /\ Active(hs[h])
  BY DEF ListSubscriptions, Active
<1>2. PICK e \in {"ok", "failed"} :
        Ends(e) /\ BecomeAfter(h, e, StartFetch(h, IF e = "ok" THEN subscribe_list[c.user] ELSE {}))
  BY Zenon DEF ListSubscriptions, StartFetch
<1>3. Quiet
  BY <1>2, QuietEnd, Zenon DEF ListSubscriptions
<1>. DEFINE us == IF e = "ok" THEN subscribe_list[c.user] ELSE {}
<1>4. c.user \in User
  BY <1>1, CallFields, Zenon
<1>5. us \in SUBSET User /\ us \subseteq user
  BY <1>4, Zenon DEF IInv, TypeOK, StorageTypeOK, SubscribersExist
<1>6. Whose(hs[h]) = hs[h].steady
  BY <1>1 DEF Whose
<1>7. e = "ok" => Whose(hs[h]) \subseteq us
  BY <1>1, <1>6, Zenon DEF IInv, GoroutineOK, Noted
<1>8. QED
  BY <1>1, <1>2, <1>3, <1>5, <1>7, QuietFetch, Zenon

-----------------------------------------------------------------------------
(* Reading tribbles.                                                       *)

(* A goroutine that fetches goes on fetching.                              *)
LEMMA QuietFetching ==
  ASSUME IInv, NEW h \in Handler, NEW e, NEW s \in Goroutine, Quiet, BecomeAfter(h, e, s),
         hs[h].pc = "fetch", s.pc = "fetch", SameCall(s, hs[h]), s.asked = hs[h].asked,
         Fetching(AfterCall(s, e), tribbles, posts)
  PROVE  IInv'
<1>1. /\ Active(hs[h]) /\ hs[h].pc # "appendTribble" /\ Active(s) /\ s.pc # "appendTribble"
      /\ s.pc # "target" /\ s.pc # "change" /\ s.pc \notin {"list", "putTribble", "appendTribble"}
      /\ s.pc \notin {"user", "list"}
  BY DEF Active
<1>2. hs[h].asked \subseteq user
  BY Zenon DEF IInv, GoroutineOK, Checked
<1>3. Checked(s, user) /\ Fresh(s)
  BY <1>1, <1>2, Zenon DEF Checked, Fresh
<1>4. QED
  BY <1>1, <1>3, QuietOn, Zenon

(* The ids of a user, if the list could be read.                           *)
LEMMA OneuserStep ==
  ASSUME IInv, NEW h \in Handler, NEW u \in hs[h].todo, GetTribblesOneuser(h, u)
  PROVE  IInv'
<1>1. hs[h].pc = "fetch" /\ hs[h] \in Goroutine /\ Active(hs[h])
  BY DEF GetTribblesOneuser, IInv, TypeOK, Active
<1>2. PICK e \in {"ok", "failed"} :
        /\ Ends(e)
        /\ BecomeAfter(h, e, [hs[h] EXCEPT
             !.todo = @ \ {u},
             !.pending = @ \cup (IF e = "ok" THEN {u} \X tribble_list[u] ELSE {})])
  BY Zenon DEF GetTribblesOneuser
<1>3. Quiet
  BY <1>2, QuietEnd, Zenon DEF GetTribblesOneuser
<1>. DEFINE ids == IF e = "ok" THEN {u} \X tribble_list[u] ELSE {}
            s == [hs[h] EXCEPT !.todo = hs[h].todo \ {u}, !.pending = hs[h].pending \cup ids]
<1>4. BecomeAfter(h, e, s)
  BY <1>2
<1>5. u \in User /\ hs[h].todo \in SUBSET User /\ hs[h].pending \in SUBSET (User \X Nat)
  BY <1>1 DEF Goroutine
<1>6. tribble_list[u] \in SUBSET Nat
  BY <1>5, Zenon DEF IInv, TypeOK, StorageTypeOK
<1>7. \A k \in ids : k \in User \X Nat /\ k[1] = u /\ k[2] \in tribble_list[u] /\ k = <<u, k[2]>>
  BY <1>5, <1>6
<1>8. e = "ok" => \A id \in tribble_list[u] : <<u, id>> \in ids
  OBVIOUS
<1>. HIDE DEF ids
<1>9. hs[h].todo \ {u} \in SUBSET User /\ hs[h].pending \cup ids \in SUBSET (User \X Nat)
  BY <1>5, <1>7, Zenon
<1>10. s \in Goroutine /\ s.pc = hs[h].pc /\ s.asked = hs[h].asked /\ s.got = hs[h].got
  BY <1>1, <1>9 DEF Goroutine
<1>11. /\ s.call = hs[h].call /\ s.n = hs[h].n /\ s.before = hs[h].before /\ s.steady = hs[h].steady
       /\ s.todo = hs[h].todo \ {u} /\ s.pending = hs[h].pending \cup ids /\ s.clean = hs[h].clean
  BY <1>1 DEF Goroutine
<1>. HIDE DEF s
<1>. DEFINE t == AfterCall(s, e)
<1>12. /\ SameCall(t, s) /\ SameFetch(t, s) /\ t.pc = s.pc
       /\ (t.pc # "replied" => (t.clean => s.clean /\ e = "ok"))
  BY <1>10, AfterCallFields
<1>. HIDE DEF t
<1>13. /\ t.todo = hs[h].todo \ {u} /\ t.pending = hs[h].pending \cup ids /\ t.got = hs[h].got
       /\ t.asked = hs[h].asked /\ t.before = hs[h].before /\ Whose(t) = Whose(hs[h])
       /\ (t.clean => hs[h].clean /\ e = "ok")
  BY <1>1, <1>10, <1>11, <1>12, Zenon DEF SameCall, SameFetch, Whose, Active
<1>14. Fetching(hs[h], tribbles, posts) /\ Noted(hs[h], subscribe_list, posts)
  BY Zenon DEF IInv, GoroutineOK
<1>15. \A k \in t.pending : k \in DOMAIN tribbles /\ k[1] \in t.asked
  <2>1. \A k \in ids : k \in DOMAIN tribbles /\ k[1] \in t.asked
    BY <1>1, <1>5, <1>7, <1>13, <1>14, Zenon DEF IInv, Stored, Fetching
  <2>2. QED
    BY <1>1, <1>13, <1>14, <2>1, Zenon DEF Fetching
<1>16. ASSUME t.clean, NEW p \in t.before, p.user \in Whose(t), UniqueIn(p, posts)
       PROVE  OnTheWay(t, p)
  <2>1. OnTheWay(hs[h], p)
    BY <1>1, <1>13, <1>14, <1>16, Zenon DEF Fetching
  <2>2. p.user = u => <<p.user, p.id>> \in ids
    BY <1>1, <1>8, <1>13, <1>14, <1>16, Zenon DEF IInv, Noted, PostsOK
  <2>3. QED
    BY <1>13, <2>1, <2>2, Zenon DEF OnTheWay
<1>17. Fetching(t, tribbles, posts)
  BY <1>1, <1>13, <1>14, <1>15, <1>16, Zenon DEF Fetching, Real
<1>18. SameCall(s, hs[h])
  BY <1>11, Zenon DEF SameCall
<1>19. QED
  BY <1>1, <1>3, <1>4, <1>10, <1>17, <1>18, QuietFetching, Zenon DEF t

(* A tribble arrives: if no call has failed it is the one that is stored.  *)
LEMMA ArriveStep ==
  ASSUME IInv, NEW h \in Handler, NEW k \in hs[h].pending, Arrive(h, k[1], k[2])
  PROVE  IInv'
<1>. DEFINE u == k[1]
            id == k[2]
            r == hs[h]
<1>1. r.pc = "fetch" /\ r \in Goroutine /\ Active(r)
  BY DEF Arrive, IInv, TypeOK, Active
<1>2. k \in User \X Nat
  BY <1>1 DEF Goroutine
<1>3. k = <<u, id>> /\ u \in User /\ id \in Nat
  BY <1>2
<1>4. PICK e \in {"ok", "failed"} :
        /\ Ends(e)
        /\ BecomeAfter(h, e, [hs[h] EXCEPT
             !.pending = @ \ {<<u, id>>}, !.last = [@ EXCEPT ![u] = ValueOf(h, u, id, e)],
             !.got = @ \cup {[user |-> u, id |-> id, value |-> ValueOf(h, u, id, e)]}])
  BY Zenon DEF Arrive
<1>5. Quiet
  BY <1>4, QuietEnd, Zenon DEF Arrive
<1>6. Fetching(r, tribbles, posts) /\ Noted(r, subscribe_list, posts)
  BY Zenon DEF IInv, GoroutineOK
<1>7. k \in DOMAIN tribbles /\ u \in r.asked /\ IsFiniteSet(r.got)
  BY <1>1, <1>6, Zenon DEF Fetching
<1>. DEFINE value == ValueOf(h, u, id, e)
<1>8. value \in Value /\ (e = "ok" => value = tribbles[k])
  <2>1. tribbles[k] \in Value
    BY <1>7, Zenon DEF IInv, TypeOK, StorageTypeOK
  <2>2. r.last[u] \in Value
    BY <1>1, <1>3 DEF Goroutine
  <2>3. QED
    BY <1>3, <1>7, <2>1, <2>2, Zenon DEF ValueOf
<1>. HIDE DEF value
<1>. DEFINE x == [user |-> u, id |-> id, value |-> value]
            pending == r.pending \ {k}
            last == [r.last EXCEPT ![u] = value]
            got == r.got \cup {x}
            s == [r EXCEPT !.pending = pending, !.last = last, !.got = got]
<1>9. BecomeAfter(h, e, s)
  <2>1. <<u, id>> = k
    BY <1>3
  <2>2. QED
    BY <1>4, <2>1, Zenon DEF value
<1>10. x \in Tribble /\ x.user = u /\ x.id = id /\ x.value = value
  BY <1>3, <1>8 DEF Tribble
<1>. HIDE DEF x
<1>11. /\ pending \in SUBSET (User \X Nat) /\ last \in [User -> Value] /\ got \in SUBSET Tribble
  BY <1>1, <1>8, <1>10 DEF Goroutine
<1>. HIDE DEF pending, last, got
<1>12. s \in Goroutine /\ s.pc = r.pc /\ s.asked = r.asked /\ s.todo = r.todo
  BY <1>1, <1>11 DEF Goroutine
<1>13. /\ s.call = r.call /\ s.n = r.n /\ s.before = r.before /\ s.steady = r.steady
       /\ s.pending = pending /\ s.got = got /\ s.clean = r.clean
  BY <1>1 DEF Goroutine
<1>. HIDE DEF s
<1>. DEFINE t == AfterCall(s, e)
<1>14. /\ SameCall(t, s) /\ SameFetch(t, s) /\ t.pc = s.pc
       /\ (t.pc # "replied" => (t.clean => s.clean /\ e = "ok"))
  BY <1>12, AfterCallFields
<1>. HIDE DEF t
<1>15. /\ t.todo = r.todo /\ t.pending = pending /\ t.got = got
       /\ t.asked = r.asked /\ t.before = r.before /\ Whose(t) = Whose(r)
       /\ (t.clean => r.clean /\ e = "ok")
  BY <1>1, <1>12, <1>13, <1>14, Zenon DEF SameCall, SameFetch, Whose, Active
<1>16. IsFiniteSet(got)
  BY <1>7, FS_AddElement, Zenon DEF got
<1>17. PICK q \in posts : k = <<q.user, q.id>> /\ tribbles[k].post = q.post /\ tribbles[k].posted = q.posted
  BY <1>7, Zenon DEF IInv, Stored
<1>18. q.user = u /\ q.id = id
  BY <1>17
<1>19. t.clean => Shows(x, q)
  BY <1>8, <1>10, <1>15, <1>17, <1>18, Zenon DEF Shows
<1>20. t.clean => Real(t, t.got, posts)
  BY <1>1, <1>6, <1>7, <1>10, <1>15, <1>19, Zenon DEF Fetching, Real, got
<1>21. ASSUME t.clean, NEW p \in t.before, p.user \in Whose(t), UniqueIn(p, posts)
       PROVE  OnTheWay(t, p)
  <2>1. OnTheWay(r, p)
    BY <1>1, <1>6, <1>15, <1>21, Zenon DEF Fetching
  <2>2. ASSUME <<p.user, p.id>> = k PROVE q = p
    <3>1. p.user = q.user /\ p.id = q.id
      BY <1>18, <2>2
    <3>2. p \in posts
      BY <1>1, <1>6, <1>15, Zenon DEF Noted
    <3>3. q.post = p.post
      BY <1>21, <3>1, Zenon DEF UniqueIn
    <3>4. QED
      BY <3>2, <3>3, Zenon DEF IInv, PostsOK
  <2>3. x \in t.got /\ r.got \subseteq t.got
    BY <1>15, Zenon DEF got
  <2>4. QED
    BY <1>15, <1>19, <1>21, <2>1, <2>2, <2>3, Zenon DEF OnTheWay, pending
<1>22. Fetching(t, tribbles, posts)
  BY <1>1, <1>6, <1>15, <1>16, <1>20, <1>21, Zenon DEF Fetching, pending
<1>23. SameCall(s, r)
  BY <1>13, Zenon DEF SameCall
<1>24. QED
  BY <1>1, <1>5, <1>9, <1>12, <1>22, <1>23, QuietFetching, Zenon DEF t

(* The newest tribbles are in the reply.                                   *)
LEMMA FinishStep ==
  ASSUME IInv, NEW h \in Handler, Finish(h)
  PROVE  IInv'
<1>. DEFINE r == hs[h]
            length == IF Cardinality(r.got) > Cap THEN Cap ELSE Cardinality(r.got)
<1>1. r.pc = "fetch" /\ r \in Goroutine /\ Active(r) /\ r.todo = {} /\ r.pending = {}
  BY DEF Finish, IInv, TypeOK, Active
<1>2. PICK in \in SUBSET r.got :
        /\ Cardinality(in) = length /\ NewestFirst(in, r.got \ in)
        /\ Become(h, [r EXCEPT !.pc = "replied", !.status = "OK", !.reply = in])
  BY Zenon DEF Finish
<1>3. Quiet
  BY DEF Finish, Quiet, IInv, TypeOK, StorageTypeOK
<1>4. Fetching(r, tribbles, posts) /\ r.asked \subseteq user
  BY <1>1, Zenon DEF IInv, GoroutineOK, Checked
<1>5. in \in SUBSET Tribble /\ "OK" \in Status
  BY <1>1, <1>2 DEF Goroutine, Status
<1>. DEFINE t == [r EXCEPT !.pc = "replied", !.status = "OK", !.reply = in]
<1>6. t \in Goroutine /\ t.pc = "replied" /\ t.reply = in
  BY <1>1, <1>5 DEF Goroutine
<1>7. /\ t.call = r.call /\ t.before = r.before /\ t.steady = r.steady
      /\ t.asked = r.asked /\ t.clean = r.clean
  BY <1>1 DEF Goroutine
<1>8. Become(h, t)
  BY <1>2, Zenon
<1>. HIDE DEF t
<1>9. /\ ~Active(t) /\ t.pc # "target" /\ t.pc # "change" /\ t.pc # "appendTribble"
      /\ t.pc # "fetch" /\ t.pc \notin {"list", "putTribble", "appendTribble"}
      /\ t.pc \notin {"user", "list"}
  BY <1>6 DEF Active
<1>10. \A x \in r.got \ in : Cardinality(in) = Cap /\ \A y \in in : y.value.posted >= x.value.posted
  <2>. SUFFICES ASSUME NEW x \in r.got \ in
               PROVE  Cardinality(in) = Cap /\ \A y \in in : y.value.posted >= x.value.posted
    BY Zenon
  <2>1. IsFiniteSet(r.got)
    BY <1>1, <1>4, Zenon DEF Fetching
  <2>2. in # r.got
    BY Zenon
  <2>3. Cardinality(in) # Cardinality(r.got)
    BY <1>2, <2>1, <2>2, FS_Subset
  <2>4. QED
    BY <1>2, <2>3, Zenon DEF NewestFirst
<1>11. Read(t) => Real(t, t.reply, posts)
  BY <1>1, <1>2, <1>4, <1>6, <1>7, Zenon DEF Read, Fetching, Real
<1>12. ASSUME Read(t), NEW p \in t.before, p.user \in Whose(t), UniqueIn(p, posts)
       PROVE  \/ \E x \in t.reply : x.value.post = p.post
              \/ /\ Cardinality(t.reply) = Cap
                 /\ \A x \in t.reply : x.value.posted >= p.posted
  <2>1. r.clean /\ Whose(t) = Whose(r)
    BY <1>7, <1>12, Zenon DEF Read, Whose
  <2>2. OnTheWay(r, p)
    BY <1>1, <1>4, <1>7, <1>12, <2>1, Zenon DEF Fetching
  <2>3. PICK x \in r.got : Shows(x, p)
    BY <1>1, <2>2, Zenon DEF OnTheWay
  <2>4. QED
    BY <1>6, <1>10, <2>3, Zenon DEF Shows
<1>13. Replied(t, user, posts)
  BY <1>4, <1>7, <1>11, <1>12, Zenon DEF Replied
<1>14. GoroutineOK(t, user, subscribe_list, tribbles, posts, calls)
  BY <1>9, <1>13, Zenon
     DEF GoroutineOK, Checked, Fresh, Numbered, Posting, Noted, Fetching
<1>15. QED
  BY <1>3, <1>6, <1>8, <1>9, <1>14, QuietStep, Zenon

-----------------------------------------------------------------------------
(* Steps that change the storage, or the counters.                         *)

(* The posts stay as they are.                                             *)
LEMMA SamePosts == Grown(posts, posts) /\ \A n : NoNewPosts(n, posts, posts)
  BY Zenon DEF Grown, NoNewPosts, SamePost

(* A goroutine begins with a number of its own.                            *)
LEMMA BeginStep ==
  ASSUME IInv, NEW h \in Handler, NEW c \in Calls, Begin(h, c)
  PROVE  IInv'
<1>. DEFINE before == {p \in posts : p.ok}
            steady == subscribe_list[c.user]
            n == calls + 1
            t == [Idle EXCEPT !.pc = "user", !.call = c, !.n = n, !.before = before, !.steady = steady]
<1>1. Become(h, t) /\ calls' = n
  BY DEF Begin
<1>2. /\ user' = user /\ subscribe_list' = subscribe_list /\ hasList' = hasList
      /\ tribble_list' = tribble_list /\ tribbles' = tribbles /\ now' = now
      /\ posts' = posts /\ fails' = fails
  BY DEF Begin, store
<1>3. calls \in Nat /\ n \in Nat /\ 1 .. calls \subseteq 1 .. n /\ n \in 1 .. n
  BY DEF IInv, TypeOK, StorageTypeOK
<1>4. c.user \in User
  BY TribAssumption
<1>5. before \in SUBSET Post /\ steady \in SUBSET User
  BY <1>4, Zenon DEF IInv, TypeOK, StorageTypeOK
<1>6. n \notin 1 .. calls /\ \A p \in posts : p.post # n
  <2>1. posts \subseteq Post /\ \A p \in posts : p.post <= calls
    BY Zenon DEF IInv, TypeOK, StorageTypeOK, PostsOK
  <2>2. QED
    BY <1>3, <2>1 DEF Post
<1>7. \A p \in before : p \in posts /\ p.ok
  BY Zenon
<1>8. steady \subseteq subscribe_list[c.user]
  BY Zenon
<1>. HIDE DEF before, steady, n
<1>9. /\ t \in Goroutine /\ t.pc = "user" /\ t.call = c /\ t.n = n
  BY <1>3, <1>5, IdleGoroutine DEF Goroutine
<1>10. t.before = before /\ t.steady = steady /\ t.pending = {} /\ t.got = {}
  BY IdleGoroutine DEF Goroutine
<1>. HIDE DEF t
<1>11. /\ Active(t) /\ ~Read(t) /\ t.pc # "target" /\ t.pc # "change" /\ t.pc # "appendTribble"
       /\ t.pc # "fetch" /\ t.pc \notin {"list", "putTribble", "appendTribble"}
  BY <1>9 DEF Active, Read
<1>12. GoroutineOK(t, user, subscribe_list, tribbles, posts, n)
  BY <1>3, <1>6, <1>7, <1>8, <1>9, <1>10, <1>11, Zenon
     DEF GoroutineOK, Checked, Fresh, Numbered, Posting, Noted, Fetching, Replied
<1>13. StorageTypeOK' /\ SubscribersExist'
  BY <1>1, <1>2, <1>3 DEF IInv, TypeOK, StorageTypeOK, SubscribersExist
<1>14. PostsOK(posts, tribble_list, user, n)
  <2>1. posts \subseteq Post /\ PostsOK(posts, tribble_list, user, calls)
    BY Zenon DEF IInv, TypeOK, StorageTypeOK
  <2>2. \A p \in posts : p.post <= n
    BY <1>3, <2>1 DEF PostsOK, Post, n
  <2>3. QED
    BY <2>1, <2>2, Zenon DEF PostsOK
<1>15. \A g \in Handler \ {h} : Active(t) /\ Active(hs[g]) => hs[g].n # t.n
  BY <1>6, <1>9, Zenon DEF IInv, GoroutineOK, Numbered
<1>16. \A g \in Handler \ {h} :
        Later(hs[g], user, subscribe_list, tribbles, posts, calls,
              user, subscribe_list, tribbles, posts, n)
  BY <1>3, SamePosts, Zenon DEF Later
<1>17. Stored(tribble_list, tribbles, posts)
  BY Zenon DEF IInv
<1>18. QED
  BY <1>1, <1>2, <1>9, <1>12, <1>13, <1>14, <1>15, <1>16, <1>17, OneStep, Zenon

(* A goroutine replies after a call that changes the storage.              *)
LEMMA ReplyStep ==
  ASSUME IInv, NEW h \in Handler, NEW e, NEW answer \in Status, BecomeAfter(h, e, Reply(h, answer)),
         StorageTypeOK', SubscribersExist',
         PostsOK(posts', tribble_list', user', calls'), Stored(tribble_list', tribbles', posts'),
         \A g \in Handler \ {h} :
           Later(hs[g], user, subscribe_list, tribbles, posts, calls,
                 user', subscribe_list', tribbles', posts', calls')
  PROVE  IInv'
<1>. DEFINE t == AfterCall(Reply(h, answer), e)
<1>1. t \in Goroutine /\ t.pc = "replied" /\ t.call = NoCall
  BY ReplyFields
<1>2. Become(h, t)
  BY Zenon DEF BecomeAfter, AfterCall
<1>. HIDE DEF t
<1>3. GoroutineOK(t, user', subscribe_list', tribbles', posts', calls')
  BY <1>1, RepliedOK, Zenon
<1>4. ~Active(t)
  BY <1>1, Zenon DEF Active
<1>5. QED
  BY <1>1, <1>2, <1>3, <1>4, OneStep, Zenon

(* CreateUser.                                                             *)
LEMMA PutUserStep ==
  ASSUME IInv, NEW h \in Handler, PutUser(h)
  PROVE  IInv'
<1>1. PICK e \in {"ok", "lost", "failed"} :
        /\ Ends(e) /\ BecomeAfter(h, e, Reply(h, "OK"))
        /\ user' = IF e = "failed" THEN user ELSE user \cup {hs[h].call.user}
  BY Zenon DEF PutUser
<1>2. /\ subscribe_list' = subscribe_list /\ hasList' = hasList
      /\ tribble_list' = tribble_list /\ tribbles' = tribbles /\ now' = now
      /\ calls' = calls /\ posts' = posts
  BY DEF PutUser
<1>3. Active(hs[h])
  BY DEF PutUser, Active
<1>4. user \subseteq user' /\ user' \subseteq User
  BY <1>1, <1>3, CallFields, Zenon DEF IInv, TypeOK, StorageTypeOK
<1>5. fails' \in Nat
  BY <1>1, FailsCounted, Zenon DEF IInv, TypeOK, StorageTypeOK
<1>6. StorageTypeOK'
  BY <1>2, <1>4, <1>5 DEF IInv, TypeOK, StorageTypeOK
<1>7. SubscribersExist'
  BY <1>2, <1>4, Zenon DEF IInv, SubscribersExist
<1>8. PostsOK(posts, tribble_list, user', calls) /\ Stored(tribble_list, tribbles, posts)
  BY <1>4, Zenon DEF IInv, PostsOK
<1>9. \A g \in Handler \ {h} :
        Later(hs[g], user, subscribe_list, tribbles, posts, calls,
              user', subscribe_list, tribbles, posts, calls)
  BY <1>4, SamePosts, Zenon DEF Later
<1>10. "OK" \in Status
  BY DEF Status
<1>11. QED
  BY <1>1, <1>2, <1>6, <1>7, <1>8, <1>9, <1>10, ReplyStep, Zenon

(* AddSubscription: both users have been found before.                     *)
LEMMA AppendSubscriptionStep ==
  ASSUME IInv, NEW h \in Handler, AppendSubscription(h)
  PROVE  IInv'
<1>. DEFINE c == hs[h].call
            answer(e) == IF e = "ok" /\ c.target \notin subscribe_list[c.user] THEN "OK" ELSE "Exists"
<1>1. PICK e \in {"ok", "lost", "failed"} :
        /\ Ends(e) /\ BecomeAfter(h, e, Reply(h, answer(e)))
        /\ IF e = "failed" THEN UNCHANGED <<subscribe_list, hasList>>
           ELSE /\ subscribe_list' = [subscribe_list EXCEPT ![c.user] = @ \cup {c.target}]
                /\ hasList' = hasList \cup {c.user}
  BY Zenon DEF AppendSubscription
<1>2. /\ user' = user /\ tribble_list' = tribble_list /\ tribbles' = tribbles /\ now' = now
      /\ calls' = calls /\ posts' = posts
  BY Zenon DEF AppendSubscription
<1>3. hs[h].pc = "change" /\ Active(hs[h])
  BY DEF AppendSubscription, Active
<1>4. c.user \in User /\ c.target \in User /\ c.user \in user /\ c.target \in user
  BY <1>3, CallFields, Zenon DEF IInv, GoroutineOK, Checked
<1>5. subscribe_list \in [User -> SUBSET User] /\ hasList \subseteq User
  BY Zenon DEF IInv, TypeOK, StorageTypeOK
<1>6. /\ subscribe_list' \in [User -> SUBSET User] /\ hasList' \subseteq User
      /\ \A u \in User : subscribe_list[u] \subseteq subscribe_list'[u]
      /\ \A u \in User : subscribe_list'[u] # subscribe_list[u] =>
           u = c.user /\ subscribe_list'[u] = subscribe_list[u] \cup {c.target}
  <2>1. CASE e = "failed"
    <3>1. subscribe_list' = subscribe_list /\ hasList' = hasList
      BY <1>1, <2>1, Zenon
    <3>2. QED
      BY <1>5, <3>1, Zenon
  <2>2. CASE e # "failed"
    <3>1. /\ subscribe_list' = [subscribe_list EXCEPT ![c.user] = @ \cup {c.target}]
          /\ hasList' = hasList \cup {c.user}
      BY <1>1, <2>2, Zenon
    <3>2. QED
      BY <1>4, <1>5, <3>1
  <2>3. QED
    BY <2>1, <2>2, Zenon
<1>7. fails' \in Nat
  BY <1>1, FailsCounted, Zenon DEF IInv, TypeOK, StorageTypeOK
<1>8. StorageTypeOK'
  BY <1>2, <1>6, <1>7, Zenon DEF IInv, TypeOK, StorageTypeOK
<1>9. SubscribersExist'
  <2>. SUFFICES ASSUME NEW u \in User, subscribe_list'[u] # {}
               PROVE  u \in user /\ subscribe_list'[u] \subseteq user
    BY <1>2, Zenon DEF SubscribersExist
  <2>1. subscribe_list[u] # {} => u \in user /\ subscribe_list[u] \subseteq user
    BY Zenon DEF IInv, SubscribersExist
  <2>2. CASE subscribe_list'[u] = subscribe_list[u]
    BY <2>1, <2>2, Zenon
  <2>3. CASE u = c.user /\ subscribe_list'[u] = subscribe_list[u] \cup {c.target}
    BY <1>4, <2>1, <2>3, Zenon
  <2>4. QED
    BY <1>6, <2>2, <2>3, Zenon
<1>10. \A g \in Handler \ {h} :
        Later(hs[g], user, subscribe_list, tribbles, posts, calls,
              user, subscribe_list', tribbles, posts, calls)
  BY <1>6, CallFields, SamePosts, Zenon DEF Later
<1>11. answer(e) \in Status
  BY Zenon DEF Status
<1>12. PostsOK(posts, tribble_list, user, calls) /\ Stored(tribble_list, tribbles, posts)
  BY Zenon DEF IInv
<1>. HIDE DEF answer
<1>13. QED
  BY <1>1, <1>2, <1>8, <1>9, <1>10, <1>11, <1>12, ReplyStep, Zenon

(* A goroutine that counts on fewer subscriptions.                         *)
LEMMA LessSteady ==
  ASSUME NEW r \in Goroutine, NEW less \in SUBSET r.steady, NEW users, NEW subs, NEW subs2,
         NEW trs, NEW ps, NEW count, Active(r), less \subseteq subs2[r.call.user],
         GoroutineOK(r, users, subs, trs, ps, count)
  PROVE  LET t == [r EXCEPT !.steady = less]
         IN  /\ t \in Goroutine /\ t.pc = r.pc /\ t.n = r.n
             /\ GoroutineOK(t, users, subs2, trs, ps, count)
<1>. DEFINE t == [r EXCEPT !.steady = less]
<1>1. less \in SUBSET User
  BY Zenon DEF Goroutine
<1>2. t \in Goroutine /\ t.pc = r.pc /\ t.n = r.n /\ t.call = r.call /\ t.okUser = r.okUser
  BY <1>1 DEF Goroutine
<1>3. /\ t.id = r.id /\ t.todo = r.todo /\ t.pending = r.pending /\ t.got = r.got
      /\ t.before = r.before /\ t.steady = less /\ t.asked = r.asked /\ t.clean = r.clean
  BY DEF Goroutine
<1>. HIDE DEF t
<1>4. Whose(t) \subseteq Whose(r) /\ Active(t)
  BY <1>2, <1>3, Zenon DEF Whose, Active
<1>5. /\ Checked(t, users) /\ Fresh(t) /\ Numbered(t, ps, count) /\ Posting(t, trs, ps)
      /\ Noted(t, subs2, ps)
  BY <1>2, <1>3, <1>4, Zenon
     DEF GoroutineOK, Checked, Fresh, Numbered, Posting, Noted
<1>6. Fetching(t, trs, ps)
  BY <1>2, <1>3, <1>4, Zenon DEF GoroutineOK, Fetching, Real, OnTheWay
<1>7. Replied(t, users, ps)
  BY <1>4, Zenon DEF Replied, Read, Active
<1>8. QED
  BY <1>2, <1>5, <1>6, <1>7, Zenon DEF GoroutineOK, t

(* RemoveSubscription: those who read the list no longer count on it.      *)
LEMMA RemoveSubscriptionStep ==
  ASSUME IInv, NEW h \in Handler, RemoveSubscription(h)
  PROVE  IInv'
<1>. DEFINE c == hs[h].call
            answer(e) == IF e = "ok" /\ c.target \in subscribe_list[c.user]
                         THEN "OK" ELSE "NoSuchTargetUser"
            Other(e, g) == IF e # "failed" /\ hs[g].pc # "replied" /\ hs[g].call.user = c.user
                           THEN [hs[g] EXCEPT !.steady = @ \ {c.target}] ELSE hs[g]
<1>1. PICK e \in {"ok", "lost", "failed"} :
        /\ Ends(e)
        /\ hs' = [g \in Handler |-> IF g = h THEN Reply(h, answer(e)) ELSE Other(e, g)]
        /\ subscribe_list' = IF e = "failed" THEN subscribe_list
                             ELSE [subscribe_list EXCEPT ![c.user] = @ \ {c.target}]
  BY Zenon DEF RemoveSubscription
<1>2. /\ user' = user /\ hasList' = hasList /\ tribble_list' = tribble_list
      /\ tribbles' = tribbles /\ now' = now /\ calls' = calls /\ posts' = posts
  BY DEF RemoveSubscription
<1>3. Active(hs[h])
  BY DEF RemoveSubscription, Active
<1>4. c.user \in User /\ hs \in [Handler -> Goroutine] /\ subscribe_list \in [User -> SUBSET User]
  BY <1>3, CallFields, Zenon DEF IInv, TypeOK, StorageTypeOK
<1>5. /\ subscribe_list' \in [User -> SUBSET User]
      /\ \A u \in User : subscribe_list'[u] \subseteq subscribe_list[u]
      /\ \A u \in User : e = "failed" \/ u # c.user => subscribe_list'[u] = subscribe_list[u]
      /\ e # "failed" => subscribe_list'[c.user] = subscribe_list[c.user] \ {c.target}
  BY <1>1, <1>4
<1>6. fails' \in Nat
  BY <1>1, FailsCounted, Zenon DEF IInv, TypeOK, StorageTypeOK
<1>7. StorageTypeOK'
  BY <1>2, <1>5, <1>6, Zenon DEF IInv, TypeOK, StorageTypeOK
<1>8. SubscribersExist'
  BY <1>2, <1>5, Zenon DEF IInv, SubscribersExist
<1>9. Reply(h, answer(e)) \in Goroutine /\ Reply(h, answer(e)).pc = "replied"
      /\ Reply(h, answer(e)).call = NoCall
  <2>1. answer(e) \in Status
    BY Zenon DEF Status
  <2>. HIDE DEF answer
  <2>2. QED
    BY <2>1, IdleGoroutine DEF Reply, Goroutine
<1>. HIDE DEF answer
<1>10. ASSUME NEW g \in Handler \ {h}
       PROVE  /\ Other(e, g) \in Goroutine /\ Other(e, g).pc = hs[g].pc /\ Other(e, g).n = hs[g].n
              /\ GoroutineOK(Other(e, g), user, subscribe_list', tribbles, posts, calls)
  <2>1. hs[g] \in Goroutine /\ GoroutineOK(hs[g], user, subscribe_list, tribbles, posts, calls)
    BY <1>4, Zenon DEF IInv
  <2>2. CASE e # "failed" /\ hs[g].pc # "replied" /\ hs[g].call.user = c.user
    <3>. DEFINE less == hs[g].steady \ {c.target}
    <3>1. Active(hs[g]) /\ less \in SUBSET hs[g].steady /\ Other(e, g) = [hs[g] EXCEPT !.steady = less]
      BY <2>2 DEF Active
    <3>2. hs[g].steady \subseteq subscribe_list[hs[g].call.user]
      BY <2>1, <3>1, Zenon DEF GoroutineOK, Noted
    <3>3. less \subseteq subscribe_list'[hs[g].call.user]
      BY <1>5, <2>2, <3>2, Zenon
    <3>. HIDE DEF less, Other
    <3>. DEFINE t == [hs[g] EXCEPT !.steady = less]
    <3>4. /\ t \in Goroutine /\ t.pc = hs[g].pc /\ t.n = hs[g].n
          /\ GoroutineOK(t, user, subscribe_list', tribbles, posts, calls)
      BY <2>1, <3>1, <3>3, LessSteady, Zenon
    <3>. HIDE DEF t
    <3>5. QED
      BY <3>1, <3>4, Zenon DEF t
  <2>3. CASE ~(e # "failed" /\ hs[g].pc # "replied" /\ hs[g].call.user = c.user)
    <3>1. Other(e, g) = hs[g]
      BY <2>3, Zenon
    <3>. HIDE DEF Other
    <3>2. Active(hs[g]) => subscribe_list'[hs[g].call.user] = subscribe_list[hs[g].call.user]
      BY <1>5, <2>3, CallFields, Zenon DEF Active
    <3>3. Later(hs[g], user, subscribe_list, tribbles, posts, calls,
                user, subscribe_list', tribbles, posts, calls)
      BY <3>2, SamePosts, Zenon DEF Later
    <3>4. GoroutineOK(hs[g], user, subscribe_list', tribbles, posts, calls)
      BY <2>1, <3>3, StillOK, Zenon
    <3>5. QED
      BY <2>1, <3>1, <3>4, Zenon
  <2>4. QED
    BY <2>2, <2>3, Zenon
<1>. HIDE DEF Other
<1>11. /\ hs' \in [Handler -> Goroutine] /\ hs'[h] = Reply(h, answer(e))
       /\ \A g \in Handler \ {h} : hs'[g] = Other(e, g)
  BY <1>1, <1>9, <1>10, Zenon
<1>12. TypeOK'
  BY <1>7, <1>11, Zenon DEF TypeOK
<1>13. Distinct'
  <2>. SUFFICES ASSUME NEW g \in Handler, NEW k \in Handler, Active(hs'[g]), Active(hs'[k]),
                       hs'[g].n = hs'[k].n
               PROVE  g = k
    BY Zenon DEF Distinct, Active
  <2>1. g # h /\ k # h
    BY <1>9, <1>11, Zenon DEF Active
  <2>2. /\ hs'[g].pc = hs[g].pc /\ hs'[g].n = hs[g].n
        /\ hs'[k].pc = hs[k].pc /\ hs'[k].n = hs[k].n
    BY <1>10, <1>11, <2>1, Zenon
  <2>3. QED
    BY <2>2, Zenon DEF IInv, Distinct, Active
<1>14. ASSUME NEW g \in Handler
       PROVE  GoroutineOK(hs'[g], user, subscribe_list', tribbles, posts, calls)
  BY <1>9, <1>10, <1>11, RepliedOK, Zenon
<1>15. QED
  BY <1>2, <1>8, <1>12, <1>13, <1>14, Zenon DEF IInv

(* PostTribble stores the tribble under a new post.                        *)
LEMMA PutTribbleStep ==
  ASSUME IInv, NEW h \in Handler, PutTribble(h)
  PROVE  IInv'
<1>. DEFINE r == hs[h]
            u == r.call.user
            n == r.n
            New(posted, id) == [user |-> u, id |-> id, post |-> n, posted |-> posted, ok |-> FALSE]
            Value1(posted) == [posted |-> posted, post |-> n]
<1>0. PICK posted \in now .. MaxNow : \E id \in posted .. MaxNow, e \in {"ok", "lost", "failed"} :
        /\ now' = id /\ Ends(e) /\ BecomeAfter(h, e, AfterPut(h, id, e))
        /\ posts' = posts \cup {New(posted, id)}
        /\ tribbles' = IF e = "failed" THEN tribbles
                       ELSE [k \in DOMAIN tribbles \cup {<<u, id>>} |->
                               IF k = <<u, id>> THEN Value1(posted) ELSE tribbles[k]]
  BY Zenon DEF PutTribble
<1>1. PICK id \in posted .. MaxNow, e \in {"ok", "lost", "failed"} :
        /\ now' = id /\ Ends(e) /\ BecomeAfter(h, e, AfterPut(h, id, e))
        /\ posts' = posts \cup {New(posted, id)}
        /\ tribbles' = IF e = "failed" THEN tribbles
                       ELSE [k \in DOMAIN tribbles \cup {<<u, id>>} |->
                               IF k = <<u, id>> THEN Value1(posted) ELSE tribbles[k]]
  BY <1>0, Zenon
<1>2. /\ user' = user /\ subscribe_list' = subscribe_list /\ hasList' = hasList
      /\ tribble_list' = tribble_list /\ calls' = calls
  BY DEF PutTribble
<1>3. r.pc = "putTribble" /\ Active(r) /\ r \in Goroutine
  BY DEF PutTribble, Active, IInv, TypeOK
<1>4. u \in User /\ u \in user
  BY <1>3, CallFields, Zenon DEF IInv, GoroutineOK, Checked
<1>5. n \in 1 .. calls /\ calls \in Nat /\ \A p \in posts : p.post # n
  <2>1. r.pc # "appendTribble"
    BY <1>3
  <2>2. QED
    BY <1>3, <2>1, Zenon DEF IInv, GoroutineOK, Numbered, TypeOK, StorageTypeOK
<1>6. posted \in Nat /\ id \in Nat /\ n \in Nat /\ n <= calls
  <2>1. now \in Nat /\ MaxNow \in Nat
    BY TribAssumption, Zenon DEF IInv, TypeOK, StorageTypeOK
  <2>2. QED
    BY <1>5, <2>1
<1>. DEFINE new == New(posted, id)
            value == Value1(posted)
<1>7. /\ new \in Post /\ new.user = u /\ new.id = id /\ new.post = n
      /\ new.posted = posted /\ new.ok = FALSE
  BY <1>4, <1>6 DEF Post
<1>8. value \in Value /\ value.post = n /\ value.posted = posted
  BY <1>6 DEF Value
<1>9. /\ posts' = posts \cup {new}
      /\ tribbles' = IF e = "failed" THEN tribbles
                     ELSE [k \in DOMAIN tribbles \cup {<<u, id>>} |->
                             IF k = <<u, id>> THEN value ELSE tribbles[k]]
  BY <1>1, Zenon
<1>. HIDE DEF new, value, New, Value1
<1>. DEFINE key == <<u, id>>
<1>10. key \in User \X Nat /\ key = <<new.user, new.id>>
  BY <1>4, <1>6, <1>7
<1>11. /\ DOMAIN tribbles \subseteq DOMAIN tribbles' /\ DOMAIN tribbles' \subseteq DOMAIN tribbles \cup {key}
       /\ \A k \in DOMAIN tribbles' : \/ k = key /\ tribbles'[k] = value
                                      \/ k \in DOMAIN tribbles /\ tribbles'[k] = tribbles[k]
       /\ e = "ok" => key \in DOMAIN tribbles'
  <2>1. CASE e = "failed"
    BY <1>9, <2>1
  <2>2. CASE e # "failed"
    BY <1>9, <2>2, Zenon
  <2>3. QED
    BY <2>1, <2>2, Zenon
<1>. HIDE DEF key
<1>12. fails' \in Nat
  BY <1>1, FailsCounted, Zenon DEF IInv, TypeOK, StorageTypeOK
<1>13. StorageTypeOK'
  <2>1. DOMAIN tribbles' \subseteq User \X Nat /\ \A k \in DOMAIN tribbles' : tribbles'[k] \in Value
    BY <1>8, <1>10, <1>11, Zenon DEF IInv, TypeOK, StorageTypeOK
  <2>2. posts' \subseteq Post /\ now' \in Nat
    BY <1>1, <1>6, <1>7, <1>9, Zenon DEF IInv, TypeOK, StorageTypeOK
  <2>3. QED
    BY <1>2, <1>12, <2>1, <2>2, Zenon DEF IInv, TypeOK, StorageTypeOK
<1>14. SubscribersExist'
  BY <1>2, Zenon DEF IInv, SubscribersExist
<1>15. PostsOK(posts', tribble_list, user, calls)
  BY <1>5, <1>6, <1>7, <1>9, Zenon DEF IInv, PostsOK
<1>16. Stored(tribble_list, tribbles', posts')
  <2>1. ASSUME NEW k \in DOMAIN tribbles'
        PROVE  \E p \in posts' :
                 k = <<p.user, p.id>> /\ tribbles'[k].post = p.post /\ tribbles'[k].posted = p.posted
    <3>1. new \in posts' /\ posts \subseteq posts'
      BY <1>9, Zenon
    <3>2. CASE k = key /\ tribbles'[k] = value
      BY <1>7, <1>8, <1>10, <3>1, <3>2, Zenon
    <3>3. CASE k \in DOMAIN tribbles /\ tribbles'[k] = tribbles[k]
      <4>1. PICK p \in posts :
              k = <<p.user, p.id>> /\ tribbles[k].post = p.post /\ tribbles[k].posted = p.posted
        BY <3>3, Zenon DEF IInv, Stored
      <4>2. QED
        BY <3>1, <3>3, <4>1, Zenon
    <3>4. QED
      BY <1>11, <3>2, <3>3, Zenon
  <2>2. QED
    BY <1>11, <2>1, Zenon DEF IInv, Stored
<1>17. Grown(posts, posts')
  BY <1>9, Zenon DEF Grown, SamePost
<1>18. \A g \in Handler \ {h} : Active(hs[g]) => hs[g].n # n /\ NoNewPosts(hs[g].n, posts, posts')
  BY <1>3, <1>7, <1>9, Zenon DEF IInv, Distinct, NoNewPosts, SamePost
<1>19. \A g \in Handler \ {h} :
        Later(hs[g], user, subscribe_list, tribbles, posts, calls,
              user, subscribe_list, tribbles', posts', calls)
  BY <1>11, <1>17, <1>18, Zenon DEF Later
<1>20. CASE e # "ok"
  <2>1. BecomeAfter(h, e, Reply(h, "error"))
    BY <1>1, <1>20, Zenon DEF AfterPut
  <2>2. "error" \in Status
    BY DEF Status
  <2>3. QED
    BY <1>2, <1>13, <1>14, <1>15, <1>16, <1>19, <2>1, <2>2, ReplyStep, Zenon
<1>21. CASE e = "ok"
  <2>. DEFINE g == Goto(h, "appendTribble")
              s == [g EXCEPT !.id = id]
              t == AfterCall(s, e)
  <2>1. g \in Goroutine /\ g.pc = "appendTribble" /\ SameCall(g, r)
    BY <1>3, GotoFields
  <2>2. BecomeAfter(h, e, s)
    BY <1>1, <1>21, Zenon DEF AfterPut
  <2>. HIDE DEF g
  <2>3. s \in Goroutine /\ s.pc = g.pc /\ s.id = id /\ s.call = g.call /\ s.n = g.n
        /\ s.before = g.before /\ s.steady = g.steady
    BY <1>6, <2>1 DEF Goroutine
  <2>. HIDE DEF s
  <2>4. t \in Goroutine /\ t.pc = s.pc /\ t.id = s.id /\ SameCall(t, s)
    BY <2>3, AfterCallFields
  <2>5. Become(h, t)
    BY <2>2, Zenon DEF BecomeAfter, AfterCall
  <2>. HIDE DEF t
  <2>6. /\ t.pc = "appendTribble" /\ t.id = id /\ t.call = r.call /\ t.n = n
        /\ t.before = r.before /\ t.steady = r.steady
    BY <2>1, <2>3, <2>4, Zenon DEF SameCall
  <2>7. /\ Active(t) /\ ~Read(t) /\ t.pc # "target" /\ t.pc # "change" /\ t.pc # "fetch"
        /\ t.pc \notin {"user", "list"}
    BY <2>6 DEF Active, Read
  <2>8. Posting(t, tribbles', posts')
    BY <1>5, <1>7, <1>9, <1>11, <1>21, <2>6, Zenon DEF Posting, key
  <2>9. Noted(t, subscribe_list, posts')
    BY <1>3, <1>9, <2>6, Zenon DEF IInv, GoroutineOK, Noted
  <2>10. Numbered(t, posts', calls)
    BY <1>3, <1>5, <2>6, CallFields, Zenon DEF Numbered
  <2>11. GoroutineOK(t, user, subscribe_list, tribbles', posts', calls)
    BY <1>4, <2>6, <2>7, <2>8, <2>9, <2>10, Zenon
       DEF GoroutineOK, Checked, Fresh, Fetching, Replied
  <2>12. QED
    BY <1>2, <1>13, <1>14, <1>15, <1>16, <1>18, <1>19, <2>4, <2>5, <2>6, <2>11, OneStep, Zenon
<1>22. QED
  BY <1>20, <1>21, Zenon

(* Post p after AppendTribble.                                             *)
Answered(h, e, p) == [p EXCEPT !.ok = @ \/ (p.post = hs[h].n /\ PostStatus(h, e) = "OK")]

(* Only ok changes.                                                        *)
LEMMA AnsweredPost ==
  ASSUME NEW h, NEW e, NEW p \in Post
  PROVE  /\ Answered(h, e, p) \in Post /\ SamePost(p, Answered(h, e, p))
         /\ Answered(h, e, p).ok => p.ok \/ (p.post = hs[h].n /\ PostStatus(h, e) = "OK")
         /\ p.ok => Answered(h, e, p) = p
<1>. DEFINE ok == p.ok \/ (p.post = hs[h].n /\ PostStatus(h, e) = "OK")
            q == [p EXCEPT !.ok = ok]
<1>1. Answered(h, e, p) = q /\ ok \in BOOLEAN /\ (p.ok => ok) /\ p.ok \in BOOLEAN
  BY DEF Answered, Post
<1>2. ok => p.ok \/ (p.post = hs[h].n /\ PostStatus(h, e) = "OK")
  BY Zenon
<1>. HIDE DEF ok
<1>3. q \in Post /\ q.user = p.user /\ q.id = p.id /\ q.post = p.post /\ q.posted = p.posted /\ q.ok = ok
  BY <1>1 DEF Post
<1>4. ok = p.ok => q = p
  BY DEF Post
<1>. HIDE DEF q
<1>5. p.ok => ok = p.ok
  BY <1>1
<1>6. QED
  BY <1>1, <1>2, <1>3, <1>4, <1>5, Zenon DEF SamePost

(* PostTribble puts the id in the list and is answered.                    *)
LEMMA AppendTribbleStep ==
  ASSUME IInv, NEW h \in Handler, AppendTribble(h)
  PROVE  IInv'
<1>. DEFINE r == hs[h]
            u == r.call.user
<1>1. PICK e \in {"ok", "lost", "failed"} :
        /\ Ends(e) /\ BecomeAfter(h, e, Reply(h, PostStatus(h, e)))
        /\ tribble_list' = IF e = "failed" THEN tribble_list
                           ELSE [tribble_list EXCEPT ![u] = @ \cup {r.id}]
        /\ posts' = {Answered(h, e, p) : p \in posts}
  BY Zenon DEF AppendTribble, Answered
<1>2. /\ user' = user /\ subscribe_list' = subscribe_list /\ hasList' = hasList
      /\ tribbles' = tribbles /\ now' = now /\ calls' = calls
  BY DEF AppendTribble
<1>3. r.pc = "appendTribble" /\ Active(r) /\ r \in Goroutine
  BY DEF AppendTribble, Active, IInv, TypeOK
<1>4. u \in User /\ r.id \in Nat
  BY <1>3, CallFields, Zenon DEF Goroutine
<1>5. u \in user
  <2>1. r.pc \in {"list", "putTribble", "appendTribble"}
    BY <1>3
  <2>2. QED
    BY <2>1, Zenon DEF IInv, GoroutineOK, Checked
<1>6. Posting(r, tribbles, posts)
  BY Zenon DEF IInv, GoroutineOK
<1>7. posts \subseteq Post /\ tribble_list \in [User -> SUBSET Nat]
  BY Zenon DEF IInv, TypeOK, StorageTypeOK
<1>8. /\ tribble_list' \in [User -> SUBSET Nat]
      /\ \A v \in User : tribble_list[v] \subseteq tribble_list'[v]
      /\ \A v \in User : \A id : id \in tribble_list'[v] => id \in tribble_list[v] \/ (v = u /\ id = r.id)
      /\ e = "ok" => r.id \in tribble_list'[u]
  BY <1>1, <1>4, <1>7, Zenon
<1>9. \A p \in posts : Answered(h, e, p) \in posts' /\ SamePost(p, Answered(h, e, p))
  BY <1>1, <1>7, AnsweredPost, Zenon
<1>10. \A q \in posts' : \E p \in posts : q = Answered(h, e, p) /\ SamePost(p, q) /\ q \in Post
  <2>. SUFFICES ASSUME NEW q \in posts'
               PROVE  \E p \in posts : q = Answered(h, e, p) /\ SamePost(p, q) /\ q \in Post
    BY Zenon
  <2>1. PICK p \in posts : q = Answered(h, e, p)
    BY <1>1, Zenon
  <2>2. QED
    BY <1>7, <2>1, AnsweredPost, Zenon
<1>11. fails' \in Nat
  BY <1>1, FailsCounted, Zenon DEF IInv, TypeOK, StorageTypeOK
<1>12. StorageTypeOK'
  <2>1. posts' \subseteq Post
    BY <1>10, Zenon
  <2>2. QED
    BY <1>2, <1>8, <1>11, <2>1, Zenon DEF IInv, TypeOK, StorageTypeOK
<1>13. SubscribersExist'
  BY <1>2, Zenon DEF IInv, SubscribersExist
<1>14. Grown(posts, posts')
  <2>1. \A p \in posts : p.ok => Answered(h, e, p) = p
    BY <1>7, AnsweredPost, Zenon
  <2>2. QED
    BY <1>9, <2>1, Zenon DEF Grown
<1>15. \A n : NoNewPosts(n, posts, posts')
  BY <1>10, Zenon DEF NoNewPosts
<1>16. PostsOK(posts', tribble_list', user, calls)
  <2>1. ASSUME NEW q1 \in posts', NEW q2 \in posts', q1.post = q2.post
        PROVE  q1 = q2
    <3>1. PICK p1 \in posts : q1 = Answered(h, e, p1) /\ SamePost(p1, q1)
      BY <1>10, Zenon
    <3>2. PICK p2 \in posts : q2 = Answered(h, e, p2) /\ SamePost(p2, q2)
      BY <1>10, Zenon
    <3>3. p1 = p2
      BY <2>1, <3>1, <3>2, Zenon DEF SamePost, IInv, PostsOK
    <3>4. QED
      BY <3>1, <3>2, <3>3, Zenon
  <2>2. \A q \in posts' : q.post <= calls
    BY <1>10, Zenon DEF SamePost, IInv, PostsOK
  <2>3. ASSUME NEW q \in posts', q.ok
        PROVE  q.user \in user /\ q.id \in tribble_list'[q.user]
    <3>1. PICK p \in posts : q = Answered(h, e, p) /\ SamePost(p, q)
      BY <1>10, Zenon
    <3>2. p \in Post /\ p.user \in User
      BY <1>7 DEF Post
    <3>3. p.ok \/ (p.post = r.n /\ PostStatus(h, e) = "OK")
      BY <2>3, <3>1, <3>2, AnsweredPost, Zenon
    <3>4. CASE p.ok
      BY <1>8, <3>1, <3>2, <3>4, Zenon DEF IInv, PostsOK, SamePost
    <3>5. CASE p.post = r.n /\ PostStatus(h, e) = "OK"
      <4>1. p.user = u /\ p.id = r.id
        BY <1>3, <1>6, <3>5, Zenon DEF Posting
      <4>2. e = "ok"
        BY <3>5 DEF PostStatus
      <4>3. QED
        BY <1>5, <1>8, <3>1, <4>1, <4>2, Zenon DEF SamePost
    <3>6. QED
      BY <3>3, <3>4, <3>5, Zenon
  <2>4. QED
    BY <2>1, <2>2, <2>3, Zenon DEF PostsOK
<1>17. Stored(tribble_list', tribbles, posts')
  <2>1. ASSUME NEW v \in User, NEW id \in tribble_list'[v] PROVE <<v, id>> \in DOMAIN tribbles
    BY <1>3, <1>6, <1>8, Zenon DEF IInv, Stored, Posting
  <2>2. ASSUME NEW k \in DOMAIN tribbles
        PROVE  \E q \in posts' :
                 k = <<q.user, q.id>> /\ tribbles[k].post = q.post /\ tribbles[k].posted = q.posted
    <3>1. PICK p \in posts :
            k = <<p.user, p.id>> /\ tribbles[k].post = p.post /\ tribbles[k].posted = p.posted
      BY Zenon DEF IInv, Stored
    <3>2. PICK q \in posts' : SamePost(p, q)
      BY <1>9, Zenon
    <3>3. q.user = p.user /\ q.id = p.id /\ q.post = p.post /\ q.posted = p.posted
      BY <3>2, Zenon DEF SamePost
    <3>4. QED
      BY <3>1, <3>3, Zenon
  <2>3. QED
    BY <2>1, <2>2, Zenon DEF Stored
<1>18. \A g \in Handler \ {h} :
        Later(hs[g], user, subscribe_list, tribbles, posts, calls,
              user, subscribe_list, tribbles, posts', calls)
  BY <1>14, <1>15, Zenon DEF Later
<1>19. PostStatus(h, e) \in Status
  BY Zenon DEF PostStatus, Status
<1>20. QED
  BY <1>1, <1>2, <1>12, <1>13, <1>16, <1>17, <1>18, <1>19, ReplyStep, Zenon

-----------------------------------------------------------------------------
(* The theorems.                                                           *)

(* The invariant holds at first.                                           *)
LEMMA InitIInv == Init => IInv
<1>. SUFFICES ASSUME Init PROVE IInv
  OBVIOUS
<1>1. hs = [h \in Handler |-> Idle] /\ posts = {} /\ DOMAIN tribbles = {}
  BY DEF Init
<1>2. \A h \in Handler : hs[h] = Idle
  BY <1>1, Zenon
<1>3. hs \in [Handler -> Goroutine]
  BY <1>1, IdleGoroutine, Zenon
<1>4. StorageTypeOK
  BY <1>1 DEF Init, StorageTypeOK
<1>5. SubscribersExist
  BY Zenon DEF Init, SubscribersExist
<1>6. Distinct
  BY <1>2, IdleGoroutine, Zenon DEF Distinct, Active
<1>7. PostsOK(posts, tribble_list, user, calls)
  BY <1>1, Zenon DEF PostsOK
<1>8. Stored(tribble_list, tribbles, posts)
  <2>1. \A u \in User : tribble_list[u] = {}
    BY Zenon DEF Init
  <2>2. QED
    BY <1>1, <2>1, Zenon DEF Stored
<1>9. \A h \in Handler : GoroutineOK(hs[h], user, subscribe_list, tribbles, posts, calls)
  BY <1>2, IdleGoroutine, RepliedOK, Zenon
<1>10. QED
  BY <1>3, <1>4, <1>5, <1>6, <1>7, <1>8, <1>9, Zenon DEF IInv, TypeOK

(* Steps that change nothing.                                              *)
LEMMA StutterStep ==
  ASSUME IInv, UNCHANGED vars
  PROVE  IInv'
<1>1. /\ user' = user /\ subscribe_list' = subscribe_list /\ hasList' = hasList
      /\ tribble_list' = tribble_list /\ tribbles' = tribbles /\ now' = now
      /\ calls' = calls /\ posts' = posts /\ fails' = fails /\ hs' = hs
  BY DEF vars, store
<1>2. TypeOK' /\ SubscribersExist' /\ Distinct'
  BY <1>1, Zenon DEF IInv, TypeOK, StorageTypeOK, SubscribersExist, Distinct
<1>3. QED
  BY <1>1, <1>2, Zenon DEF IInv

(* What every goroutine may rely on, at the point it has reached: the      *)
(* inductive invariant behind all that follows.                            *)
THEOREM GoroutinesRely == Spec => []IInv
<1>1. ASSUME IInv, [Next]_vars PROVE IInv'
  <2>1. CASE Next
    <3>1. PICK h \in Handler :
            \/ \E c \in Calls : Begin(h, c)
            \/ GetUser(h) \/ PutUser(h)
            \/ GetTarget(h) \/ AppendSubscription(h) \/ RemoveSubscription(h) \/ GetSubscriptions(h)
            \/ PutTribble(h) \/ AppendTribble(h)
            \/ ListSubscriptions(h) \/ Finish(h)
            \/ \E u \in hs[h].todo : GetTribblesOneuser(h, u)
            \/ \E k \in hs[h].pending : Arrive(h, k[1], k[2])
      BY <2>1, Zenon DEF Next
    <3>2. QED
      BY <1>1, <3>1, BeginStep, GetUserStep, PutUserStep, GetTargetStep, AppendSubscriptionStep,
         RemoveSubscriptionStep, GetSubscriptionsStep, PutTribbleStep, AppendTribbleStep,
         ListSubscriptionsStep, FinishStep, OneuserStep, ArriveStep, Zenon
  <2>2. CASE UNCHANGED vars
    BY <1>1, <2>2, StutterStep, Zenon
  <2>3. QED
    BY <1>1, <2>1, <2>2, Zenon
<1>2. QED
  BY <1>1, InitIInv, PTL DEF Spec

(* A list of subscriptions only holds users that exist.                    *)
THEOREM SubscribersSafe == Spec => []SubscribersExist
<1>1. IInv => SubscribersExist
  BY Zenon DEF IInv
<1>2. QED
  BY <1>1, GoroutinesRely, PTL

(* A post that was answered with OK is in the storage and stays there,     *)
(* unless another one of that user took the same id.                       *)
THEOREM PostsSafe == Spec => []PostsKept
<1>1. ASSUME IInv PROVE PostsKept
  <2>. SUFFICES ASSUME NEW p \in posts, p.ok, Unique(p)
               PROVE  /\ p.user \in user /\ p.id \in tribble_list[p.user]
                      /\ tribbles[<<p.user, p.id>>].post = p.post
    BY Zenon DEF PostsKept
  <2>1. p.user \in user /\ p.id \in tribble_list[p.user] /\ p.user \in User
    BY <1>1, Zenon DEF IInv, PostsOK, TypeOK, StorageTypeOK
  <2>2. <<p.user, p.id>> \in DOMAIN tribbles
    BY <1>1, <2>1, Zenon DEF IInv, Stored
  <2>3. PICK q \in posts : <<p.user, p.id>> = <<q.user, q.id>>
                           /\ tribbles[<<p.user, p.id>>].post = q.post
    BY <1>1, <2>2, Zenon DEF IInv, Stored
  <2>4. q.user = p.user /\ q.id = p.id
    BY <2>3
  <2>5. QED
    BY <2>1, <2>3, <2>4, Zenon DEF Unique
<1>2. QED
  BY <1>1, GoroutinesRely, PTL

(* A reply to GetTribbles or GetTribblesBySubscription, if none of its     *)
(* calls failed, shows every post that was answered before it was asked    *)
(* for, unless it is full of tribbles that are not older.                  *)
THEOREM RecentSafe == Spec => []RecentSeen
<1>1. ASSUME IInv PROVE RecentSeen
  <2>1. \A h \in Handler : Reading(h) => Read(hs[h]) /\ Replied(hs[h], user, posts)
    BY <1>1, Zenon DEF Reading, Read, IInv, GoroutineOK
  <2>2. \A p : Unique(p) => UniqueIn(p, posts)
    BY Zenon DEF Unique, UniqueIn
  <2>3. QED
    BY <2>1, <2>2, Zenon DEF RecentSeen, Replied, Whose
<1>2. QED
  BY <1>1, GoroutinesRely, PTL

(* Such a reply holds nothing but posts, each at most once and under the   *)
(* name of its user, in whatever order the goroutines brought the values.  *)
THEOREM RepliesSafe == Spec => []RepliesReal
<1>1. ASSUME IInv PROVE RepliesReal
  <2>. SUFFICES ASSUME NEW h \in Handler, Reading(h)
               PROVE  /\ \A x \in hs[h].reply :
                           /\ x.user \in hs[h].asked \cap user
                           /\ \E p \in posts : /\ p.post = x.value.post /\ p.user = x.user
                                              /\ p.id = x.id /\ p.posted = x.value.posted
                      /\ \A x, y \in hs[h].reply : x.value.post = y.value.post => x = y
    BY Zenon DEF RepliesReal
  <2>1. Read(hs[h]) /\ Replied(hs[h], user, posts) /\ hs[h] \in Goroutine
    BY <1>1, Zenon DEF Reading, Read, IInv, GoroutineOK, TypeOK
  <2>2. hs[h].asked \subseteq user /\ Real(hs[h], hs[h].reply, posts)
    BY <2>1, Zenon DEF Replied
  <2>3. ASSUME NEW x \in hs[h].reply, NEW y \in hs[h].reply, x.value.post = y.value.post
        PROVE  x = y
    <3>1. PICK p \in posts : Shows(x, p)
      BY <2>2, Zenon DEF Real
    <3>2. PICK q \in posts : Shows(y, q)
      BY <2>2, Zenon DEF Real
    <3>3. p = q
      BY <1>1, <2>3, <3>1, <3>2, Zenon DEF Shows, IInv, PostsOK
    <3>4. x.user = y.user /\ x.id = y.id /\ x.value.post = y.value.post /\ x.value.posted = y.value.posted
      BY <2>3, <3>1, <3>2, <3>3, Zenon DEF Shows
    <3>5. x \in Tribble /\ y \in Tribble
      BY <2>1 DEF Goroutine
    <3>6. x.value \in Value /\ y.value \in Value
      BY <3>5 DEF Tribble
    <3>7. x.value = y.value
      BY <3>4, <3>6 DEF Value
    <3>8. QED
      BY <3>4, <3>5, <3>7, SameTribble, Zenon
  <2>4. QED
    BY <2>2, <2>3, Zenon DEF Real, Shows
<1>2. QED
  BY <1>1, GoroutinesRely, PTL
=============================================================================
