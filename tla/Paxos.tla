------------------------------- MODULE Paxos -------------------------------
(***************************************************************************)
(* One time slot of the Paxos library of the flight reservation system     *)
(* (p3, flight_reservation/paxos/paxos.go).  Every slot has its own        *)
(* timeSlotValue and its own lock on every peer, so slots do not interact  *)
(* and one slot stands for all of them.                                    *)
(*                                                                         *)
(* The acceptor side is the three RPC handlers Prepare, Accept and Decide, *)
(* each atomic under the slot's lock.  The proposer side is the calls of   *)
(* startHelper, several of which may run at once on one peer (Start from   *)
(* the airline server, SyncPaxosValue from the Paxos admin).               *)
(*                                                                         *)
(* Messages.  A request is broadcast to all peers; each peer handles it at *)
(* most once, at any later time, or never.  call() reports a failure when  *)
(* the connection breaks, which may happen before or after the peer        *)
(* handled the request, so a caller may give up on a request that is still *)
(* handled later.  Every round has its own reply channel: a late reply     *)
(* never reaches a later round.                                            *)
(***************************************************************************)
EXTENDS Integers, FiniteSets

CONSTANTS N,         \* len(px.peers)
          Call,      \* the calls of startHelper on this slot
          Host,      \* Host[c] is px.me of the peer that runs call c
          Value,     \* the values a call may propose
          Input,     \* Input[c] is the argument v of call c
          Nil,       \* Go's nil, the value of a fresh slot
          Clock,     \* Clock[c]: what time.Now().UnixNano() may return to c
          Limit,     \* 2^63: an int64 is in -Limit .. Limit - 1
          MaxRound   \* bound: how often call c may go round its loop

Peer == 0 .. N - 1

ASSUME ConstantAssumption ==
  /\ N \in Nat \ {0}
  /\ Host \in [Call -> Peer]
  /\ Input \in [Call -> Value]
  /\ Nil \notin Value
  /\ Clock \in [Call -> SUBSET Int]
  /\ Limit \in Nat \ {0}
  /\ MaxRound \in [Call -> Nat]

VARIABLES
  value, isDecided, seqNumAccepted, seqNumHighest,    \* timeSlotValue, by peer
  pc, round, seqNum, proposeValue, maxSeqNumHighest,  \* startHelper, by call
  sent,      \* the requests broadcast so far
  replies    \* the replies the peers produced, each with its request

slotVars == <<value, isDecided, seqNumAccepted, seqNumHighest>>
callVars == <<pc, round, seqNum, proposeValue, maxSeqNumHighest>>
vars == <<slotVars, callVars, sent, replies>>

Int64 == -Limit .. Limit - 1

Request == [type : {"Prepare", "Accept", "Decide"}, call : Call, round : Nat,
            seqNum : Int64, value : Value \cup {Nil}]

Reply == [req : Request, from : Peer, ok : BOOLEAN,
          seqNumAccepted : Int64, valueAccepted : Value \cup {Nil},
          seqNumHighest : Int64]

-----------------------------------------------------------------------------
(* Sequence numbers: int64 arithmetic, which wraps around.                 *)

Wrap(x) == ((x + Limit) % (2 * Limit)) - Limit

GoMod(a, n) == IF a >= 0 THEN a % n ELSE -((-a) % n)

NextSeqNum(now, me, max) ==
  LET s == Wrap(now * N + me)
      d == Wrap(max - s)
  IN  IF s <= max THEN Wrap(s + d - GoMod(d, N) + N) ELSE s

-----------------------------------------------------------------------------

(* Variant: half of the peers.                                             *)
HalfOfPeers == {Q \in SUBSET Peer : Cardinality(Q) = N \div 2}

(* A set of peers whose OKs end the collecting loop: numOk has just passed *)
(* len(px.peers) / 2.                                                      *)
Majority == {Q \in SUBSET Peer : Cardinality(Q) = N \div 2 + 1}

RequestOf(c, type, v) ==
  [type |-> type, call |-> c, round |-> round[c], seqNum |-> seqNum[c],
   value |-> v]

Handled(m, q) == \E r \in replies : r.req = m /\ r.from = q

(* The replies to the current Prepare or Accept of call c.                 *)
RepliesTo(c, type) ==
  {r \in replies : /\ r.req.type = type
                   /\ r.req.call = c
                   /\ r.req.round = round[c]}

(* The sending loop goes through the peers in index order and calls its    *)
(* own handler synchronously: the peers after it are called only once that *)
(* call has returned.                                                      *)
Arrives(m, q) ==
  /\ m \in sent
  /\ ~ Handled(m, q)
  /\ q <= Host[m.call] \/ Handled(m, Host[m.call])

-----------------------------------------------------------------------------

Init ==
  /\ value = [q \in Peer |-> Nil]
  /\ isDecided = [q \in Peer |-> FALSE]
  /\ seqNumAccepted = [q \in Peer |-> 0]
  /\ seqNumHighest = [q \in Peer |-> 0]
  /\ pc = [c \in Call |-> "idle"]
  /\ round = [c \in Call |-> 0]
  /\ seqNum = [c \in Call |-> 0]
  /\ proposeValue = [c \in Call |-> Nil]
  /\ maxSeqNumHighest = [c \in Call |-> 0]
  /\ sent = {}
  /\ replies = {}

(* The RPC handlers of peer q. *)

(* Variant: >= instead of > in Prepare.                                    *)
PrepareAgain(m, q) ==
  /\ m.type = "Prepare"
  /\ Arrives(m, q)
  /\ LET ok == m.seqNum >= seqNumHighest[q]
     IN  /\ seqNumHighest' = [seqNumHighest EXCEPT ![q] = IF ok THEN m.seqNum ELSE @]
         /\ replies' = replies \cup
              {[req |-> m, from |-> q, ok |-> ok,
                seqNumAccepted |-> IF ok THEN seqNumAccepted[q] ELSE 0,
                valueAccepted |-> IF ok THEN value[q] ELSE Nil,
                seqNumHighest |-> IF ok THEN 0 ELSE seqNumHighest[q]]}
  /\ UNCHANGED <<value, isDecided, seqNumAccepted, callVars, sent>>

Prepare(m, q) ==
  /\ m.type = "Prepare"
  /\ Arrives(m, q)
  /\ LET ok == m.seqNum > seqNumHighest[q]
     IN  /\ seqNumHighest' = [seqNumHighest EXCEPT ![q] = IF ok THEN m.seqNum ELSE @]
         /\ replies' = replies \cup
              {[req |-> m, from |-> q, ok |-> ok,
                seqNumAccepted |-> IF ok THEN seqNumAccepted[q] ELSE 0,
                valueAccepted |-> IF ok THEN value[q] ELSE Nil,
                seqNumHighest |-> IF ok THEN 0 ELSE seqNumHighest[q]]}
  /\ UNCHANGED <<value, isDecided, seqNumAccepted, callVars, sent>>

(* Variant: Accept without its guard.                                      *)
AcceptAny(m, q) ==
  /\ m.type = "Accept"
  /\ Arrives(m, q)
  /\ seqNumAccepted' = [seqNumAccepted EXCEPT ![q] = m.seqNum]
  /\ seqNumHighest' = [seqNumHighest EXCEPT ![q] = m.seqNum]
  /\ value' = [value EXCEPT ![q] = m.value]
  /\ replies' = replies \cup {[req |-> m, from |-> q, ok |-> TRUE, seqNumAccepted |-> 0,
                               valueAccepted |-> Nil, seqNumHighest |-> 0]}
  /\ UNCHANGED <<isDecided, callVars, sent>>

Accept(m, q) ==
  /\ m.type = "Accept"
  /\ Arrives(m, q)
  /\ LET ok == m.seqNum >= seqNumHighest[q]
     IN  /\ seqNumAccepted' = [seqNumAccepted EXCEPT ![q] = IF ok THEN m.seqNum ELSE @]
         /\ seqNumHighest' = [seqNumHighest EXCEPT ![q] = IF ok THEN m.seqNum ELSE @]
         /\ value' = [value EXCEPT ![q] = IF ok THEN m.value ELSE @]
         /\ replies' = replies \cup
              {[req |-> m, from |-> q, ok |-> ok,
                seqNumAccepted |-> 0, valueAccepted |-> Nil,
                seqNumHighest |-> IF ok THEN 0 ELSE seqNumHighest[q]]}
  /\ UNCHANGED <<isDecided, callVars, sent>>

Decide(m, q) ==
  /\ m.type = "Decide"
  /\ Arrives(m, q)
  /\ value' = [value EXCEPT ![q] = m.value]
  /\ isDecided' = [isDecided EXCEPT ![q] = TRUE]
  /\ replies' = replies \cup
       {[req |-> m, from |-> q, ok |-> TRUE,
         seqNumAccepted |-> 0, valueAccepted |-> Nil, seqNumHighest |-> 0]}
  /\ UNCHANGED <<seqNumAccepted, seqNumHighest, callVars, sent>>

-----------------------------------------------------------------------------
(* The steps of a call of startHelper. *)

(* Read the peer's own seqNumHighest, under the slot's lock.               *)
StartHelper(c) ==
  /\ pc[c] = "idle"
  /\ pc' = [pc EXCEPT ![c] = "loop"]
  /\ maxSeqNumHighest' = [maxSeqNumHighest EXCEPT ![c] = seqNumHighest[Host[c]]]
  /\ UNCHANGED <<slotVars, round, seqNum, proposeValue, sent, replies>>

(* The top of the loop: a new number, and a Prepare to every peer.         *)
SendPrepare(c) ==
  /\ pc[c] = "loop"
  /\ round[c] < MaxRound[c]
  /\ pc' = [pc EXCEPT ![c] = "prepare"]
  /\ round' = [round EXCEPT ![c] = @ + 1]
  /\ \E now \in Clock[c] :
       seqNum' = [seqNum EXCEPT ![c] = NextSeqNum(now, Host[c], maxSeqNumHighest[c])]
  /\ proposeValue' = [proposeValue EXCEPT ![c] = Input[c]]
  /\ maxSeqNumHighest' = [maxSeqNumHighest EXCEPT ![c] = 0]
  /\ sent' = sent \cup {RequestOf(c, "Prepare", Nil)'}
  /\ UNCHANGED <<slotVars, replies>>

(* What the collecting loop may propose after the OKs in R: the value that *)
(* came with the largest SeqNumAccepted above zero (the first one collected*)
(* when several tie), or else the call's own.                              *)
Proposals(v, R) ==
  IF \A r \in R : r.seqNumAccepted <= 0
  THEN {v}
  ELSE {r.valueAccepted : r \in
          {b \in R : \A o \in R : o.seqNumAccepted <= b.seqNumAccepted}}

(* A majority of OKs was collected: an Accept to every peer.               *)
SendAccept(c) ==
  /\ pc[c] = "prepare"
  /\ Handled(RequestOf(c, "Prepare", Nil), Host[c])
  /\ \E Q \in Majority :
       LET R == {r \in RepliesTo(c, "Prepare") : r.ok /\ r.from \in Q}
       IN  /\ \A q \in Q : \E r \in R : r.from = q
           /\ \E v \in Proposals(Input[c], R) :
                /\ proposeValue' = [proposeValue EXCEPT ![c] = v]
                /\ sent' = sent \cup {RequestOf(c, "Accept", v)}
  /\ pc' = [pc EXCEPT ![c] = "accept"]
  /\ maxSeqNumHighest' = [maxSeqNumHighest EXCEPT ![c] = 0]
  /\ UNCHANGED <<slotVars, round, seqNum, replies>>

(* A majority of OKs was collected: a Decide to every peer.                *)
SendDecide(c) ==
  /\ pc[c] = "accept"
  /\ Handled(RequestOf(c, "Accept", proposeValue[c]), Host[c])
  /\ \E Q \in Majority : \A q \in Q :
       \E r \in RepliesTo(c, "Accept") : r.ok /\ r.from = q
  /\ sent' = sent \cup {RequestOf(c, "Decide", proposeValue[c])}
  /\ pc' = [pc EXCEPT ![c] = "decide"]
  /\ UNCHANGED <<slotVars, round, seqNum, proposeValue, maxSeqNumHighest, replies>>

(* All replies are in, those of the peers outside S as failures, and the   *)
(* OKs are no majority: remember the highest number a rejection named and  *)
(* start over.                                                             *)
Retry(c, phase, type, v) ==
  /\ pc[c] = phase
  /\ Handled(RequestOf(c, type, v), Host[c])
  /\ \E S \in SUBSET Peer :
       LET R == {r \in RepliesTo(c, type) : r.from \in S}
       IN  /\ Host[c] \in S
           /\ \A q \in S : \E r \in R : r.from = q
           /\ Cardinality({r.from : r \in {o \in R : o.ok}}) <= N \div 2
           /\ \E h \in {0} \cup {r.seqNumHighest : r \in {o \in R : ~ o.ok}} :
                /\ \A r \in R : ~ r.ok => r.seqNumHighest <= h
                /\ maxSeqNumHighest' = [maxSeqNumHighest EXCEPT ![c] = h]
  /\ pc' = [pc EXCEPT ![c] = "loop"]
  /\ UNCHANGED <<slotVars, round, seqNum, proposeValue, sent, replies>>

PrepareFails(c) == Retry(c, "prepare", "Prepare", Nil)

AcceptFails(c) == Retry(c, "accept", "Accept", proposeValue[c])

(* startHelper returns once its own Decide has returned.                   *)
Return(c) ==
  /\ pc[c] = "decide"
  /\ Handled(RequestOf(c, "Decide", proposeValue[c]), Host[c])
  /\ pc' = [pc EXCEPT ![c] = "done"]
  /\ UNCHANGED <<slotVars, round, seqNum, proposeValue, maxSeqNumHighest, sent, replies>>

Handle(q) == \E m \in sent : Prepare(m, q) \/ Accept(m, q) \/ Decide(m, q)

Step(c) ==
  \/ StartHelper(c) \/ SendPrepare(c) \/ SendAccept(c) \/ SendDecide(c)
  \/ PrepareFails(c) \/ AcceptFails(c) \/ Return(c)

Next ==
  \/ \E q \in Peer : Handle(q)
  \/ \E c \in Call : Step(c)

Spec == Init /\ [][Next]_vars

-----------------------------------------------------------------------------
(* Properties. *)

TypeOK ==
  /\ value \in [Peer -> Value \cup {Nil}]
  /\ isDecided \in [Peer -> BOOLEAN]
  /\ seqNumAccepted \in [Peer -> Int64]
  /\ seqNumHighest \in [Peer -> Int64]
  /\ pc \in [Call -> {"idle", "loop", "prepare", "accept", "decide", "done"}]
  /\ round \in [Call -> Nat]
  /\ seqNum \in [Call -> Int64]
  /\ proposeValue \in [Call -> Value \cup {Nil}]
  /\ maxSeqNumHighest \in [Call -> Int64]
  /\ sent \subseteq Request
  /\ replies \subseteq Reply

Requests(type) == {m \in sent : m.type = type}

VotedFor(q, n, v) ==
  \E r \in replies : /\ r.req.type = "Accept" /\ r.ok /\ r.from = q
                     /\ r.req.seqNum = n /\ r.req.value = v

(* All Decide broadcasts of a slot carry the same value, whichever calls   *)
(* reached the decide phase of startHelper, with whatever numbers, and     *)
(* however many Prepare, Accept and Decide requests were lost or late.     *)
DecideAgreement ==
  \A m1, m2 \in Requests("Decide") : m1.value = m2.value

(* A sequence number passes the prepare phase in at most one round of one  *)
(* call.  Two rounds may draw the same number, although a comment calls it *)
(* "globally unique"; Prepare's strict comparison keeps the second one     *)
(* from a majority.                                                        *)
AcceptNumbersUnique ==
  \A m1, m2 \in Requests("Accept") : m1.seqNum = m2.seqNum => m1 = m2

(* A value reported decided is never nil and was the argument of some call *)
(* of startHelper that has started, even after Decide, Accept and          *)
(* value adoption from Prepare replies have passed it between peers.       *)
DecidedWasProposed ==
  \A q \in Peer : isDecided[q] =>
    \E c \in Call : pc[c] # "idle" /\ value[q] = Input[c]

(* When startHelper returns, the slot is decided on its own peer: the loop *)
(* of addPaxosLogAndUpdateState and SyncPaxosValue's second read rely on   *)
(* it.                                                                     *)
ReturnedIsDecided ==
  \A c \in Call : pc[c] = "done" => isDecided[Host[c]]

(* The only way a decided slot holds a value other than the one that was   *)
(* broadcast by Decide: the peer accepted it in a round numbered below the *)
(* deciding one.  Accept looks at seqNumHighest only, and Decide leaves    *)
(* that number where it was.                                               *)
OnlyStaleAcceptsOverwrite ==
  \A q \in Peer, m \in Requests("Decide") :
    isDecided[q] /\ value[q] # m.value =>
      /\ seqNumAccepted[q] < m.seqNum
      /\ VotedFor(q, seqNumAccepted[q], value[q])

(* What a slot promises, as SlotConsensus states it: at most one value is  *)
(* ever chosen (broadcast by Decide), it does not change, and startHelper  *)
(* returns only after that.                                                *)
Consensus == INSTANCE SlotConsensus WITH
               chosen <- {m.value : m \in Requests("Decide")},
               returned <- {c \in Call : pc[c] = "done"}

ImplementsConsensus == Consensus!Spec
=============================================================================
