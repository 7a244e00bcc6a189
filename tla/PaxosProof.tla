----------------------------- MODULE PaxosProof -----------------------------
(***************************************************************************)
(* The invariant of one Paxos slot (PaxosInv) holds, for any number of     *)
(* peers, any calls of startHelper, any values, any clocks and any width   *)
(* of the integers: what the steps keep (types, what has been sent and     *)
(* voted), the steps of startHelper, the handlers of the peers; and what   *)
(* follows from it: agreement, validity and that the slot implements the   *)
(* consensus of SlotConsensus.                                             *)
(***************************************************************************)
EXTENDS PaxosInv, FiniteSetTheorems, TLAPS

(* Two majorities of px.peers have a peer in common.                       *)
LEMMA MajorityIntersect ==
  \A Q1, Q2 \in Majority : \E q \in Q1 : q \in Q2
<1> SUFFICES ASSUME NEW Q1 \in Majority, NEW Q2 \in Majority
             PROVE  Q1 \cap Q2 # {}
  OBVIOUS
<1>1. IsFiniteSet(Peer) /\ Cardinality(Peer) = N
  BY FS_Interval, ConstantAssumption DEF Peer
<1>2. Cardinality(Q1) + Cardinality(Q2) > N
  BY ConstantAssumption DEF Majority
<1> QED
  BY <1>1, <1>2, FS_MajoritiesIntersect, Zenon DEF Majority

(* A majority of px.peers consists of peers.                               *)
LEMMA MajorityPeers ==
  \A Q \in Majority : Q \subseteq Peer
BY Zenon DEF Majority

(* The numbers of peers and requests are integers.                         *)
LEMMA Int64IsInt ==
  /\ \A f \in [Peer -> Int64], p \in Peer : f[p] \in Int
  /\ \A m \in Request : m.seqNum \in Int
BY DEF Int64, Request

(* int64 arithmetic yields an int64.                                       *)
LEMMA WrapType ==
  \A x \in Int : Wrap(x) \in Int64
BY ConstantAssumption DEF Wrap, Int64

(* The number a round of startHelper draws is an int64.                    *)
LEMMA NextSeqNumType ==
  \A now \in Int, me \in Peer, max \in Int64 : NextSeqNum(now, me, max) \in Int64
<1> SUFFICES ASSUME NEW now \in Int, NEW me \in Peer, NEW max \in Int64
             PROVE  NextSeqNum(now, me, max) \in Int64
  OBVIOUS
<1> DEFINE s == Wrap(now * N + me)
           d == Wrap(max - s)
<1>1. now * N + me \in Int
  BY ConstantAssumption DEF Peer
<1>2. s \in Int64 /\ s \in Int /\ max \in Int
  BY <1>1, WrapType DEF Int64
<1>3. d \in Int
  BY <1>2, WrapType DEF Int64
<1>4. GoMod(d, N) \in Int
  BY <1>3, ConstantAssumption DEF GoMod
<1>5. Wrap(s + d - GoMod(d, N) + N) \in Int64
  <2>1. s + d - GoMod(d, N) + N \in Int
    BY <1>2, <1>3, <1>4, ConstantAssumption
  <2> QED
    BY <2>1, WrapType, Zenon
<1> QED
  BY <1>2, <1>5, Zenon DEF NextSeqNum

(* The replies of the handlers are well-formed.                            *)
LEMMA ReplyType ==
  ASSUME NEW m \in Request, NEW q \in Peer, NEW ok \in BOOLEAN,
         NEW a \in Int64, NEW v \in Value \cup {Nil}, NEW h \in Int64
  PROVE  [req |-> m, from |-> q, ok |-> ok, seqNumAccepted |-> a,
          valueAccepted |-> v, seqNumHighest |-> h] \in Reply
BY Zenon DEF Reply

(* The requests of startHelper are well-formed.                            *)
LEMMA RequestType ==
  ASSUME NEW c \in Call, round[c] \in Nat, seqNum[c] \in Int64,
         NEW v \in Value \cup {Nil}, NEW t \in {"Prepare", "Accept", "Decide"}
  PROVE  RequestOf(c, t, v) \in Request
BY Zenon DEF RequestOf, Request

(* Zero is an int64.                                                       *)
LEMMA ZeroInt64 == 0 \in Int64
BY ConstantAssumption DEF Int64

(* Every step of the handlers and of startHelper keeps the types.          *)
LEMMA TypeOKStep ==
  ASSUME TypeOK, [Next]_vars
  PROVE  TypeOK'
<1> USE ConstantAssumption, ZeroInt64
<1>1. ASSUME NEW q \in Peer, NEW m \in sent, Prepare(m, q)
      PROVE  TypeOK'
  <2> DEFINE ok == m.seqNum > seqNumHighest[q]
             rep == [req |-> m, from |-> q, ok |-> ok,
                     seqNumAccepted |-> IF ok THEN seqNumAccepted[q] ELSE 0,
                     valueAccepted |-> IF ok THEN value[q] ELSE Nil,
                     seqNumHighest |-> IF ok THEN 0 ELSE seqNumHighest[q]]
  <2>1. m \in Request /\ m.seqNum \in Int64
    BY Zenon DEF TypeOK, Request
  <2>2. rep \in Reply
    <3> HIDE DEF ok
    <3>1. ok \in BOOLEAN
      BY DEF ok
    <3> QED
      BY <2>1, <3>1, ReplyType, Zenon DEF TypeOK
  <2>3. replies' = replies \cup {rep}
    BY <1>1, Zenon DEF Prepare
  <2>4. seqNumHighest' \in [Peer -> Int64]
    BY <1>1, <2>1, Zenon DEF Prepare, TypeOK
  <2> QED
    BY <1>1, <2>2, <2>3, <2>4, Zenon DEF Prepare, TypeOK, callVars
<1>2. ASSUME NEW q \in Peer, NEW m \in sent, Accept(m, q)
      PROVE  TypeOK'
  <2> DEFINE ok == m.seqNum >= seqNumHighest[q]
             rep == [req |-> m, from |-> q, ok |-> ok,
                     seqNumAccepted |-> 0, valueAccepted |-> Nil,
                     seqNumHighest |-> IF ok THEN 0 ELSE seqNumHighest[q]]
  <2>1. m \in Request /\ m.seqNum \in Int64 /\ m.value \in Value \cup {Nil}
    BY Zenon DEF TypeOK, Request
  <2>2. rep \in Reply
    <3> HIDE DEF ok
    <3>1. ok \in BOOLEAN
      BY DEF ok
    <3> QED
      BY <2>1, <3>1, ReplyType, Zenon DEF TypeOK
  <2>3. replies' = replies \cup {rep}
    BY <1>2, Zenon DEF Accept
  <2>4. /\ seqNumHighest' \in [Peer -> Int64]
        /\ seqNumAccepted' \in [Peer -> Int64]
        /\ value' \in [Peer -> Value \cup {Nil}]
    BY <1>2, <2>1, Zenon DEF Accept, TypeOK
  <2> QED
    BY <1>2, <2>2, <2>3, <2>4, Zenon DEF Accept, TypeOK, callVars
<1>3. ASSUME NEW q \in Peer, NEW m \in sent, Decide(m, q)
      PROVE  TypeOK'
  <2> DEFINE rep == [req |-> m, from |-> q, ok |-> TRUE, seqNumAccepted |-> 0,
                     valueAccepted |-> Nil, seqNumHighest |-> 0]
  <2>1. m \in Request /\ m.value \in Value \cup {Nil}
    BY Zenon DEF TypeOK, Request
  <2>2. rep \in Reply
    BY <2>1, ReplyType, Zenon
  <2>3. replies' = replies \cup {rep}
    BY <1>3, Zenon DEF Decide
  <2> QED
    BY <1>3, <2>1, <2>2, <2>3, Zenon DEF Decide, TypeOK, callVars
<1>4. ASSUME NEW c \in Call, StartHelper(c)
      PROVE  TypeOK'
  BY <1>4, Zenon DEF StartHelper, TypeOK, slotVars
<1>5. ASSUME NEW c \in Call, SendPrepare(c)
      PROVE  TypeOK'
  <2>1. PICK now \in Clock[c] :
          seqNum' = [seqNum EXCEPT ![c] = NextSeqNum(now, Host[c], maxSeqNumHighest[c])]
    BY <1>5, Zenon DEF SendPrepare
  <2>2. NextSeqNum(now, Host[c], maxSeqNumHighest[c]) \in Int64
    BY NextSeqNumType, Zenon DEF TypeOK
  <2>3. seqNum' \in [Call -> Int64] /\ round' \in [Call -> Nat]
    BY <1>5, <2>1, <2>2 DEF SendPrepare, TypeOK
  <2>4. RequestOf(c, "Prepare", Nil)' \in Request
    BY <2>3, Zenon DEF RequestOf, Request
  <2> QED
    BY <1>5, <2>3, <2>4, Zenon DEF SendPrepare, TypeOK, slotVars
<1>6. ASSUME NEW c \in Call, SendAccept(c)
      PROVE  TypeOK'
  <2>1. PICK Q \in Majority :
          \E v \in Proposals(Input[c], {r \in RepliesTo(c, "Prepare") : r.ok /\ r.from \in Q}) :
            /\ proposeValue' = [proposeValue EXCEPT ![c] = v]
            /\ sent' = sent \cup {RequestOf(c, "Accept", v)}
    BY <1>6, Zenon DEF SendAccept
  <2>2. PICK v \in Proposals(Input[c], {r \in RepliesTo(c, "Prepare") : r.ok /\ r.from \in Q}) :
            /\ proposeValue' = [proposeValue EXCEPT ![c] = v]
            /\ sent' = sent \cup {RequestOf(c, "Accept", v)}
    BY <2>1, Zenon
  <2>3. v \in Value \cup {Nil}
    BY <2>2 DEF Proposals, RepliesTo, TypeOK, Reply
  <2>4. RequestOf(c, "Accept", v) \in Request
    BY <2>3, RequestType, Zenon DEF TypeOK
  <2> QED
    BY <1>6, <2>2, <2>3, <2>4, Zenon DEF SendAccept, TypeOK, slotVars
<1>7. ASSUME NEW c \in Call, SendDecide(c)
      PROVE  TypeOK'
  <2>1. RequestOf(c, "Decide", proposeValue[c]) \in Request
    BY RequestType, Zenon DEF TypeOK
  <2> QED
    BY <1>7, <2>1, Zenon DEF SendDecide, TypeOK, slotVars
<1>8. ASSUME NEW c \in Call, PrepareFails(c) \/ AcceptFails(c)
      PROVE  TypeOK'
  <2>1. PICK t, p, v : Retry(c, p, t, v)
    BY <1>8, Zenon DEF PrepareFails, AcceptFails
  <2>2. maxSeqNumHighest' \in [Call -> Int64]
    BY <2>1 DEF Retry, RepliesTo, TypeOK, Reply
  <2> QED
    BY <2>1, <2>2, Zenon DEF Retry, TypeOK, slotVars
<1>9. ASSUME NEW c \in Call, Return(c)
      PROVE  TypeOK'
  BY <1>9, Zenon DEF Return, TypeOK, slotVars
<1>10. CASE UNCHANGED vars
  BY <1>10, Zenon DEF vars, slotVars, callVars, TypeOK
<1> QED
  BY <1>1, <1>2, <1>3, <1>4, <1>5, <1>6, <1>7, <1>8, <1>9, <1>10, Zenon
     DEF Next, Handle, Step

-----------------------------------------------------------------------------
(* Consequences of the invariant in one state.                             *)

(* A vote answers an Accept that was sent, and stays below seqNumAccepted. *)
LEMMA VoteSent ==
  ASSUME TypeOK, ReplyInv, NEW q \in Peer, NEW n, NEW v, VotedFor(q, n, v)
  PROVE  /\ n \in Int64
         /\ n <= seqNumAccepted[q]
         /\ \E m \in Requests("Accept") : m.seqNum = n /\ m.value = v
<1>1. PICK r \in replies : /\ r.req.type = "Accept" /\ r.ok /\ r.from = q
                           /\ r.req.seqNum = n /\ r.req.value = v
  BY Zenon DEF VotedFor
<1>2. r.req \in sent /\ n <= seqNumAccepted[q]
  BY <1>1, Zenon DEF ReplyInv
<1> QED
  BY <1>1, <1>2, Zenon DEF Requests, TypeOK, Request

(* Prepare's strict comparison lets a number through at most once.         *)
LEMMA AcceptUnique ==
  ASSUME IInv
  PROVE  AcceptNumbersUnique
<1> SUFFICES ASSUME NEW m1 \in Requests("Accept"), NEW m2 \in Requests("Accept"),
                    m1.seqNum = m2.seqNum
             PROVE  m1 = m2
  BY Zenon DEF AcceptNumbersUnique
<1>1. PICK Q1 \in Majority : \A q \in Q1 : Promised(q, PrepareOf(m1))
  BY Zenon DEF IInv, AcceptInv
<1>2. PICK Q2 \in Majority : \A q \in Q2 : Promised(q, PrepareOf(m2))
  BY Zenon DEF IInv, AcceptInv
<1>3. PICK q \in Q1 : q \in Q2
  BY MajorityIntersect, Zenon
<1>4. PICK r1 \in replies : r1.req = PrepareOf(m1) /\ r1.from = q /\ r1.ok
  BY <1>1, <1>3, Zenon DEF Promised
<1>5. PICK r2 \in replies : r2.req = PrepareOf(m2) /\ r2.from = q /\ r2.ok
  BY <1>2, <1>3, Zenon DEF Promised
<1>6. /\ PrepareOf(m1).type = "Prepare" /\ PrepareOf(m2).type = "Prepare"
      /\ PrepareOf(m1).seqNum = PrepareOf(m2).seqNum
      /\ PrepareOf(m1).call = m1.call /\ PrepareOf(m2).call = m2.call
      /\ PrepareOf(m1).round = m1.round /\ PrepareOf(m2).round = m2.round
  BY Zenon DEF PrepareOf
<1>7. PrepareOf(m1) = PrepareOf(m2)
  BY <1>4, <1>5, <1>6 DEF IInv, PromiseOnce
<1>8. m1.call = m2.call /\ m1.round = m2.round
  BY <1>6, <1>7, Zenon
<1> QED
  BY <1>8, Zenon DEF IInv, CallInv, Requests

(* All votes with one number are for one value.                            *)
LEMMA VoteUnique ==
  ASSUME IInv, NEW q1 \in Peer, NEW q2 \in Peer, NEW n, NEW v1, NEW v2,
         VotedFor(q1, n, v1), VotedFor(q2, n, v2)
  PROVE  v1 = v2
<1>1. PICK m1 \in Requests("Accept") : m1.seqNum = n /\ m1.value = v1
  BY VoteSent DEF IInv
<1>2. PICK m2 \in Requests("Accept") : m2.seqNum = n /\ m2.value = v2
  BY VoteSent DEF IInv
<1> QED
  BY <1>1, <1>2, AcceptUnique, Zenon DEF AcceptNumbersUnique

(* A vote is for a proposed value that is safe at the vote's number.       *)
LEMMA VoteSafe ==
  ASSUME IInv, NEW q \in Peer, NEW n, NEW v, VotedFor(q, n, v)
  PROVE  0 < n /\ v \in Value /\ v \in Started /\ SafeAt(v, n)
<1>1. PICK m \in Requests("Accept") : m.seqNum = n /\ m.value = v
  BY VoteSent DEF IInv
<1> QED
  BY <1>1, Zenon DEF IInv, AcceptInv

(* Once a majority accepted w in round d, only w is safe in later rounds.  *)
LEMMA ChosenIsOnlySafe ==
  ASSUME IInv, NEW Q \in Majority, NEW d \in Int64, NEW w \in Value,
         \A q \in Q : VotedFor(q, d, w),
         NEW n \in Int64, d < n, NEW v, SafeAt(v, n)
  PROVE  v = w
<1>1. PICK p \in Q : TRUE
  BY MajorityIntersect, Zenon
<1>2. 0 < d
  BY <1>1, MajorityPeers, VoteSafe, Zenon
<1>3. d \in 1 .. n - 1
  BY <1>2 DEF Int64
<1>4. PICK Q2 \in Majority : \A q \in Q2 : VotedFor(q, d, v) \/ WontVote(q, d)
  BY <1>3, Zenon DEF SafeAt
<1>5. PICK q \in Q : q \in Q2
  BY MajorityIntersect, Zenon
<1>6. VotedFor(q, d, w) /\ q \in Peer
  BY <1>5, MajorityPeers, Zenon
<1>7. VotedFor(q, d, v)
  BY <1>4, <1>5, <1>6, Zenon DEF WontVote
<1> QED
  BY <1>6, <1>7, VoteUnique, Zenon

(* What Decide broadcasts was accepted by a majority with its number.      *)
LEMMA DecideChosen ==
  ASSUME IInv, NEW m \in Requests("Decide")
  PROVE  /\ m.seqNum \in Int64 /\ 0 < m.seqNum /\ m.value \in Value
         /\ m.value \in Started
         /\ SafeAt(m.value, m.seqNum)
         /\ \E Q \in Majority : \A q \in Q : VotedFor(q, m.seqNum, m.value)
<1>1. PICK Q \in Majority : \A q \in Q : VotedFor(q, m.seqNum, m.value)
  BY Zenon DEF IInv, DecideInv
<1>2. PICK p \in Q : TRUE
  BY MajorityIntersect, Zenon
<1>3. p \in Peer /\ VotedFor(p, m.seqNum, m.value)
  BY <1>1, <1>2, MajorityPeers, Zenon
<1> QED
  BY <1>1, <1>3, VoteSafe, VoteSent, Zenon DEF IInv

(* A vote numbered at or above a deciding round is for the decided value.  *)
LEMMA LaterVotesAgree ==
  ASSUME IInv, NEW m \in Requests("Decide"), NEW q \in Peer, NEW n, NEW v,
         VotedFor(q, n, v), m.seqNum <= n
  PROVE  v = m.value
<1>1. PICK Q \in Majority : \A p \in Q : VotedFor(p, m.seqNum, m.value)
  BY DecideChosen, Zenon
<1>2. /\ m.seqNum \in Int64 /\ m.value \in Value
  BY DecideChosen, Zenon
<1>3. n \in Int64 /\ SafeAt(v, n)
  BY VoteSent, VoteSafe, Zenon DEF IInv
<1>4. CASE m.seqNum = n
  <2>1. PICK p \in Q : TRUE
    BY MajorityIntersect, Zenon
  <2>2. p \in Peer /\ VotedFor(p, n, m.value)
    BY <1>1, <1>4, <2>1, MajorityPeers, Zenon
  <2> QED
    BY <2>2, VoteUnique, Zenon
<1>5. CASE m.seqNum < n
  BY <1>1, <1>2, <1>3, <1>5, ChosenIsOnlySafe, Zenon
<1> QED
  BY <1>2, <1>3, <1>4, <1>5 DEF Int64

(* The invariant carries the agreement of the Decide broadcasts.           *)
LEMMA AgreementFromInv ==
  ASSUME IInv
  PROVE  DecideAgreement
<1> SUFFICES ASSUME NEW m1 \in Requests("Decide"), NEW m2 \in Requests("Decide"),
                    m1.seqNum <= m2.seqNum
             PROVE  m1.value = m2.value
  <2>1. \A m \in Requests("Decide") : m.seqNum \in Int64
    BY DecideChosen, Zenon
  <2> QED
    BY <2>1 DEF DecideAgreement, Int64
<1>1. PICK Q \in Majority : \A p \in Q : VotedFor(p, m2.seqNum, m2.value)
  BY DecideChosen, Zenon
<1>2. PICK p \in Q : TRUE
  BY MajorityIntersect, Zenon
<1>3. p \in Peer /\ VotedFor(p, m2.seqNum, m2.value)
  BY <1>1, <1>2, MajorityPeers, Zenon
<1> QED
  BY <1>3, LaterVotesAgree, Zenon

-----------------------------------------------------------------------------
(* What every step keeps.                                                  *)

(* Nothing that was sent or answered is forgotten, seqNumHighest only      *)
(* grows, a decided slot stays decided, and a started call has started.    *)
LEMMA Growth ==
  ASSUME IInv, Next
  PROVE  /\ sent \subseteq sent'
         /\ replies \subseteq replies'
         /\ \A q \in Peer : seqNumHighest[q] <= seqNumHighest'[q]
         /\ \A q \in Peer : isDecided[q] => isDecided'[q]
         /\ Started \subseteq Started'
<1> DEFINE Goal == /\ sent \subseteq sent'
                   /\ replies \subseteq replies'
                   /\ \A p \in Peer : seqNumHighest[p] <= seqNumHighest'[p]
                   /\ \A p \in Peer : isDecided[p] => isDecided'[p]
                   /\ Started \subseteq Started'
<1>1. ASSUME NEW q \in Peer, NEW m \in sent, Prepare(m, q) \/ Accept(m, q) \/ Decide(m, q)
      PROVE  Goal
  BY <1>1, SMTT(60) DEF Prepare, Accept, Decide, Request, IInv, TypeOK, Int64, callVars, Started
<1>2. ASSUME NEW c \in Call, Step(c)
      PROVE  Goal
  <2>1. sent \subseteq sent' /\ replies \subseteq replies' /\ UNCHANGED slotVars
    BY <1>2, Zenon DEF Step, StartHelper, SendPrepare, SendAccept, SendDecide,
         PrepareFails, AcceptFails, Retry, Return
  <2>2. PICK l \in {"loop", "prepare", "accept", "decide", "done"} :
          pc' = [pc EXCEPT ![c] = l]
    BY <1>2, Zenon DEF Step, StartHelper, SendPrepare, SendAccept, SendDecide,
         PrepareFails, AcceptFails, Retry, Return
  <2>3. Started \subseteq Started'
    BY <2>2, Zenon DEF Started, IInv, TypeOK
  <2> QED
    BY <2>1, <2>3 DEF slotVars, IInv, TypeOK, Int64
<1> HIDE DEF Goal
<1>3. Goal
  BY <1>1, <1>2, Zenon DEF Next, Handle
<1> QED
  BY <1>3, Zenon DEF Goal

(* Only the Accept handler adds votes.                                     *)
LEMMA NewVotes ==
  ASSUME IInv, Next, NEW q \in Peer, NEW n, NEW v, VotedFor(q, n, v)'
  PROVE  \/ VotedFor(q, n, v)
         \/ \E m \in sent : /\ Accept(m, q) /\ m.seqNum >= seqNumHighest[q]
                            /\ m.seqNum = n /\ m.value = v
<1>1. PICK r \in replies' : /\ r.req.type = "Accept" /\ r.ok /\ r.from = q
                            /\ r.req.seqNum = n /\ r.req.value = v
  BY Zenon DEF VotedFor
<1>2. CASE r \in replies
  BY <1>1, <1>2, Zenon DEF VotedFor
<1>3. CASE r \notin replies
  <2>1. ASSUME NEW c \in Call, Step(c)
        PROVE  UNCHANGED replies
    BY <2>1, Zenon DEF Step, StartHelper, SendPrepare, SendAccept, SendDecide,
         PrepareFails, AcceptFails, Retry, Return
  <2>2. PICK p \in Peer : Handle(p)
    BY <1>1, <1>3, <2>1, Zenon DEF Next
  <2>3. PICK m \in sent : Prepare(m, p) \/ Accept(m, p) \/ Decide(m, p)
    BY <2>2, Zenon DEF Handle
  <2>4. r.req = m /\ r.from = p
    BY <1>1, <1>3, <2>3, SMTT(60) DEF Prepare, Accept, Decide
  <2>5. Accept(m, p)
    BY <1>1, <2>3, <2>4, Zenon DEF Prepare, Decide
  <2>6. m.seqNum >= seqNumHighest[p]
    <3> DEFINE ok == m.seqNum >= seqNumHighest[p]
               rep == [req |-> m, from |-> p, ok |-> ok,
                       seqNumAccepted |-> 0, valueAccepted |-> Nil,
                       seqNumHighest |-> IF ok THEN 0 ELSE seqNumHighest[p]]
    <3>1. r = rep
      BY <1>1, <1>3, <2>5, Zenon DEF Accept
    <3>2. rep.ok = ok
      OBVIOUS
    <3>3. ok
      BY <1>1, <3>1, <3>2, Zenon
    <3> QED
      BY <3>3, Zenon
  <2> QED
    BY <1>1, <2>4, <2>5, <2>6, Zenon
<1> QED
  BY <1>2, <1>3, Zenon

(* A vote is never taken back.                                             *)
LEMMA VotesStay ==
  ASSUME IInv, Next, NEW q, NEW n, NEW v, VotedFor(q, n, v)
  PROVE  VotedFor(q, n, v)'
BY Growth, Zenon DEF VotedFor

(* A Decide broadcast is never taken back.                                 *)
LEMMA DecidedStays ==
  ASSUME IInv, Next, NEW v, Decided(v)
  PROVE  Decided(v)'
BY Growth, Zenon DEF Decided, Requests

(* A peer whose seqNumHighest passed n never accepts with number n again.  *)
LEMMA WontVoteStays ==
  ASSUME IInv, Next, TypeOK', NEW q \in Peer, NEW n \in Int64, WontVote(q, n)
  PROVE  WontVote(q, n)'
<1>1. seqNumHighest'[q] > n
  BY Growth DEF WontVote, IInv, TypeOK, Int64
<1>2. ASSUME NEW v \in Value, VotedFor(q, n, v)'
      PROVE  FALSE
  <2>1. PICK m \in sent : m.seqNum >= seqNumHighest[q] /\ m.seqNum = n
    BY <1>2, NewVotes DEF WontVote
  <2> QED
    BY <2>1 DEF WontVote, IInv, TypeOK, Int64
<1> QED
  BY <1>1, <1>2, Zenon DEF WontVote

(* Safety of a value at a number is stable.                                *)
LEMMA SafeAtStays ==
  ASSUME IInv, Next, TypeOK', NEW n \in Int64, NEW v, SafeAt(v, n)
  PROVE  SafeAt(v, n)'
<1> SUFFICES ASSUME NEW k \in 1 .. n - 1
             PROVE  \E Q \in Majority : \A q \in Q :
                       VotedFor(q, k, v)' \/ WontVote(q, k)'
  BY Zenon DEF SafeAt
<1>1. PICK Q \in Majority : \A q \in Q : VotedFor(q, k, v) \/ WontVote(q, k)
  BY Zenon DEF SafeAt
<1>2. k \in Int64
  BY ConstantAssumption DEF Int64
<1>3. ASSUME NEW q \in Q
      PROVE  VotedFor(q, k, v)' \/ WontVote(q, k)'
  BY <1>1, <1>2, MajorityPeers, VotesStay, WontVoteStays, Zenon
<1> QED
  BY <1>3, Zenon

(* What the invariant says of a sent Accept is stable.                     *)
LEMMA OldAccepts ==
  ASSUME IInv, Next, TypeOK', NEW m \in Requests("Accept")
  PROVE  /\ 0 < m.seqNum /\ m.value \in Value /\ m.value \in Started'
         /\ \E Q \in Majority : \A q \in Q : Promised(q, PrepareOf(m))'
         /\ SafeAt(m.value, m.seqNum)'
<1>1. m.seqNum \in Int64
  BY Zenon DEF Requests, IInv, TypeOK, Request
<1>2. /\ 0 < m.seqNum /\ m.value \in Value /\ m.value \in Started
      /\ SafeAt(m.value, m.seqNum)
  BY Zenon DEF IInv, AcceptInv
<1>3. PICK Q \in Majority : \A q \in Q : Promised(q, PrepareOf(m))
  BY Zenon DEF IInv, AcceptInv
<1>4. \A q \in Q : Promised(q, PrepareOf(m))'
  BY <1>3, Growth, Zenon DEF Promised, PrepareOf
<1> QED
  BY <1>1, <1>2, <1>4, SafeAtStays, Growth, Zenon

(* What the invariant says of a sent Decide is stable.                     *)
LEMMA OldDecides ==
  ASSUME IInv, Next, NEW m \in Requests("Decide")
  PROVE  \E Q \in Majority : \A q \in Q : VotedFor(q, m.seqNum, m.value)'
<1>1. PICK Q \in Majority : \A q \in Q : VotedFor(q, m.seqNum, m.value)
  BY Zenon DEF IInv, DecideInv
<1> QED
  BY <1>1, VotesStay, Zenon

-----------------------------------------------------------------------------
(* The steps of startHelper, of one call at a time.                        *)

(* The steps of startHelper leave the slots and the replies alone.         *)
LEMMA CallFrame ==
  ASSUME IInv, NEW c \in Call, Step(c)
  PROVE  SlotInv' /\ PromiseInv' /\ ReplyInv' /\ PromiseOnce'
<1>1. /\ UNCHANGED <<value, isDecided, seqNumAccepted, seqNumHighest, replies>>
      /\ sent \subseteq sent'
  BY Zenon DEF Step, StartHelper, SendPrepare, SendAccept, SendDecide,
         PrepareFails, AcceptFails, Retry, Return, slotVars
<1>2. \A q, n, v : VotedFor(q, n, v)' <=> VotedFor(q, n, v)
  BY <1>1, Zenon DEF VotedFor
<1>3. \A v : Decided(v) => Decided(v)'
  BY <1>1, Zenon DEF Decided, Requests
<1>4. SlotInv'
  BY <1>1, <1>2, <1>3, Zenon DEF IInv, SlotInv
<1>5. PromiseInv'
  BY <1>1, <1>2, <1>3, Zenon DEF IInv, PromiseInv
<1>6. ReplyInv'
  BY <1>1, Zenon DEF IInv, ReplyInv
<1>7. PromiseOnce'
  BY <1>1, Zenon DEF IInv, PromiseOnce
<1> QED
  BY <1>4, <1>5, <1>6, <1>7, Zenon

(* StartHelper, the two failing ends of a round and Return send nothing.   *)
LEMMA QuietSteps ==
  ASSUME IInv, TypeOK', NEW c \in Call,
         StartHelper(c) \/ PrepareFails(c) \/ AcceptFails(c) \/ Return(c)
  PROVE  IInv'
<1>1. Step(c) /\ Next
  BY Zenon DEF Step, Next
<1>2. UNCHANGED <<isDecided, round, seqNum, proposeValue, sent, replies>>
  BY Zenon DEF StartHelper, PrepareFails, AcceptFails, Retry, Return, slotVars
<1>3. SlotInv' /\ PromiseInv' /\ ReplyInv' /\ PromiseOnce'
  BY <1>1, CallFrame, Zenon
<1>4. AcceptInv'
  BY <1>1, <1>2, OldAccepts, Zenon DEF AcceptInv, Requests
<1>5. DecideInv'
  BY <1>1, <1>2, OldDecides, Zenon DEF DecideInv, Requests
<1>6. CallInv'
  <2>1. ASSUME NEW t, NEW v
        PROVE  RequestOf(c, t, v)' = RequestOf(c, t, v)
    BY <1>2, Zenon DEF RequestOf
  <2>2. PICK l \in {"loop", "done"} : pc' = [pc EXCEPT ![c] = l]
    BY Zenon DEF StartHelper, PrepareFails, AcceptFails, Retry, Return
  <2>3. l = "done" => pc[c] = "decide" /\ isDecided[Host[c]]
    <3> SUFFICES ASSUME l = "done"
                 PROVE  pc[c] = "decide" /\ isDecided[Host[c]]
      OBVIOUS
    <3>1. Return(c)
      BY <2>2, Zenon DEF StartHelper, PrepareFails, AcceptFails, Retry, IInv, TypeOK
    <3>2. Handled(RequestOf(c, "Decide", proposeValue[c]), Host[c])
      BY <3>1, Zenon DEF Return
    <3>3. PICK r \in replies : r.req = RequestOf(c, "Decide", proposeValue[c]) /\ r.from = Host[c]
      BY <3>2, Zenon DEF Handled
    <3>4. r.req.type = "Decide"
      <4>1. RequestOf(c, "Decide", proposeValue[c]).type = "Decide"
        BY Zenon DEF RequestOf
      <4> QED
        BY <3>3, <4>1, Zenon
    <3>5. isDecided[r.from]
      BY <3>4, Zenon DEF IInv, ReplyInv
    <3> QED
      BY <3>1, <3>3, <3>5, Zenon DEF Return
  <2>4. \A m \in sent' :
       /\ m.round <= round'[m.call]
       /\ m.type = "Accept" /\ m.round = round'[m.call] => pc'[m.call] # "prepare"
       /\ m.type = "Prepare" => m.value = Nil
    BY <1>2, <2>2 DEF IInv, CallInv, TypeOK, Request
  <2>5. \A d \in Call :
       /\ pc'[d] \in {"prepare", "accept", "decide", "done"} =>
            RequestOf(d, "Prepare", Nil)' \in sent'
       /\ pc'[d] \in {"accept", "decide", "done"} =>
            RequestOf(d, "Accept", proposeValue[d])' \in sent'
       /\ pc'[d] = "done" => isDecided'[Host[d]]
    BY <1>2, <2>2, <2>3 DEF IInv, CallInv, TypeOK, RequestOf
  <2> QED
    BY <1>2, <2>4, <2>5, Zenon DEF CallInv, IInv
<1> QED
  BY <1>3, <1>4, <1>5, <1>6, Zenon DEF IInv

(* A new round sends a Prepare that no earlier request of the call equals. *)
LEMMA SendPrepareStep ==
  ASSUME IInv, TypeOK', NEW c \in Call, SendPrepare(c)
  PROVE  IInv'
<1>1. Step(c) /\ Next
  BY Zenon DEF Step, Next
<1> DEFINE p == RequestOf(c, "Prepare", Nil)'
<1>2. /\ UNCHANGED <<isDecided, replies>>
      /\ sent' = sent \cup {p}
      /\ round' = [round EXCEPT ![c] = @ + 1]
      /\ pc' = [pc EXCEPT ![c] = "prepare"]
      /\ \A d \in Call \ {c} : seqNum'[d] = seqNum[d] /\ proposeValue'[d] = proposeValue[d]
  BY DEF SendPrepare, slotVars, IInv, TypeOK
<1>3. p.type = "Prepare" /\ p.call = c /\ p.round = round[c] + 1 /\ p.value = Nil
  BY <1>2, Zenon DEF RequestOf, IInv, TypeOK
<1>4. SlotInv' /\ PromiseInv' /\ ReplyInv' /\ PromiseOnce'
  BY <1>1, CallFrame, Zenon
<1>5. AcceptInv'
  BY <1>1, <1>2, <1>3, OldAccepts, Zenon DEF AcceptInv, Requests
<1>6. DecideInv'
  BY <1>1, <1>2, <1>3, OldDecides, Zenon DEF DecideInv, Requests
<1>7. CallInv'
  <2>1. \A m \in sent : m.call \in Call /\ m.round \in Nat /\ m.round <= round[m.call]
    BY Zenon DEF IInv, CallInv, TypeOK, Request
  <2>2. \A m \in sent' :
       /\ m.round <= round'[m.call]
       /\ m.type = "Accept" /\ m.round = round'[m.call] => pc'[m.call] # "prepare"
       /\ m.type = "Prepare" => m.value = Nil
    BY <1>2, <1>3, <2>1 DEF IInv, CallInv, TypeOK
  <2>3. \A m1, m2 \in sent' :
       m1.type = m2.type /\ m1.type # "Decide" /\ m1.call = m2.call /\ m1.round = m2.round
       => m1 = m2
    BY <1>2, <1>3, <2>1 DEF IInv, CallInv, TypeOK
  <2>4. \A d \in Call :
       /\ pc'[d] \in {"prepare", "accept", "decide", "done"} =>
            RequestOf(d, "Prepare", Nil)' \in sent'
       /\ pc'[d] \in {"accept", "decide", "done"} =>
            RequestOf(d, "Accept", proposeValue[d])' \in sent'
       /\ pc'[d] = "done" => isDecided'[Host[d]]
    <3> SUFFICES ASSUME NEW d \in Call, d # c
                 PROVE  /\ pc'[d] = pc[d]
                        /\ RequestOf(d, "Prepare", Nil)' = RequestOf(d, "Prepare", Nil)
                        /\ RequestOf(d, "Accept", proposeValue[d])' = RequestOf(d, "Accept", proposeValue[d])
      BY <1>2 DEF IInv, CallInv, TypeOK
    <3> QED
      BY <1>2 DEF RequestOf, IInv, TypeOK
  <2> QED
    BY <2>2, <2>3, <2>4, Zenon DEF CallInv
<1> QED
  BY <1>4, <1>5, <1>6, <1>7, Zenon DEF IInv

-----------------------------------------------------------------------------
(* The replies a call collects answer its own current request.             *)
LEMMA RepliesMatch ==
  ASSUME IInv, NEW c \in Call, NEW t \in {"Prepare", "Accept"}, NEW v,
         RequestOf(c, t, v) \in sent, NEW r \in RepliesTo(c, t)
  PROVE  r \in replies /\ r.req = RequestOf(c, t, v)
<1>1. /\ r \in replies /\ r.req \in sent
      /\ r.req.type = t /\ r.req.call = c /\ r.req.round = round[c]
  BY Zenon DEF RepliesTo, IInv, ReplyInv
<1>2. /\ RequestOf(c, t, v).type = t /\ RequestOf(c, t, v).call = c
      /\ RequestOf(c, t, v).round = round[c]
  BY Zenon DEF RequestOf
<1> QED
  BY <1>1, <1>2 DEF IInv, CallInv

(* The core of the argument.  After a majority of OKs, what the collecting *)
(* loop of startHelper proposes is safe at the round's number.  The value  *)
(* that came with the largest SeqNumAccepted k need not be the one voted   *)
(* for in round k, since Decide overwrites value and not seqNumAccepted;   *)
(* but then it was decided, in a round that is either below k, so that     *)
(* round k voted for it too, or at least the new number, so that it is     *)
(* safe there and hence here.                                              *)
LEMMA ProposalSafe ==
  ASSUME IInv, NEW c \in Call, pc[c] = "prepare", NEW Q \in Majority,
         NEW R, R = {r \in RepliesTo(c, "Prepare") : r.ok /\ r.from \in Q},
         \A q \in Q : \E r \in R : r.from = q,
         NEW v \in Proposals(Input[c], R)
  PROVE  /\ 0 < seqNum[c]
         /\ v \in Value /\ v \in Started
         /\ \A q \in Q : Promised(q, RequestOf(c, "Prepare", Nil))
         /\ SafeAt(v, seqNum[c])
<1> DEFINE n == seqNum[c]
           best == {b \in R : \A o \in R : o.seqNumAccepted <= b.seqNumAccepted}
<1>1. n \in Int64 /\ n \in Int /\ Q \subseteq Peer
  BY MajorityPeers DEF IInv, TypeOK, Int64
<1>2. RequestOf(c, "Prepare", Nil) \in sent
  BY Zenon DEF IInv, CallInv
<1>3. ASSUME NEW r \in R
      PROVE  /\ r \in replies /\ r.ok /\ r.from \in Q
             /\ r.req = RequestOf(c, "Prepare", Nil)
             /\ r.req.type = "Prepare" /\ r.req.seqNum = n
             /\ r.seqNumAccepted \in Int64
  <2>1. r \in RepliesTo(c, "Prepare") /\ r.ok /\ r.from \in Q
    OBVIOUS
  <2>2. r \in replies /\ r.req = RequestOf(c, "Prepare", Nil)
    BY <1>2, <2>1, RepliesMatch
  <2> QED
    BY <2>1, <2>2 DEF RequestOf, IInv, TypeOK, Reply
<1>4. ASSUME NEW r \in R
      PROVE  /\ 0 < n
             /\ n <= seqNumHighest[r.from]
             /\ 0 <= r.seqNumAccepted
             /\ r.seqNumAccepted < n
             /\ \A k \in r.seqNumAccepted + 1 .. n - 1 : WontVote(r.from, k)
             /\ r.seqNumAccepted > 0 =>
                  /\ \E u \in Value : VotedFor(r.from, r.seqNumAccepted, u)
                  /\ \/ VotedFor(r.from, r.seqNumAccepted, r.valueAccepted)
                     \/ Decided(r.valueAccepted)
  <2>1. r \in replies /\ r.req.type = "Prepare" /\ r.ok /\ r.req.seqNum = n
        /\ r.from \in Peer /\ r.seqNumAccepted \in Int
    BY <1>1, <1>3 DEF Int64
  <2>2. /\ 0 < n /\ n <= seqNumHighest[r.from]
        /\ 0 <= r.seqNumAccepted /\ r.seqNumAccepted < n
        /\ \A k \in r.seqNumAccepted + 1 .. n - 1, u \in Value : ~ VotedFor(r.from, k, u)
        /\ r.seqNumAccepted > 0 =>
             /\ \E u \in Value : VotedFor(r.from, r.seqNumAccepted, u)
             /\ \/ VotedFor(r.from, r.seqNumAccepted, r.valueAccepted)
                \/ Decided(r.valueAccepted)
    BY <2>1, Zenon DEF IInv, PromiseInv
  <2>3. seqNumHighest[r.from] \in Int
    BY <2>1 DEF IInv, TypeOK, Int64
  <2> QED
    BY <1>1, <2>1, <2>2, <2>3 DEF WontVote
<1>5. PICK q0 \in Q : TRUE
  BY MajorityIntersect, Zenon
<1>6. 0 < n
  BY <1>4, <1>5, Zenon
<1>7. \A q \in Q : Promised(q, RequestOf(c, "Prepare", Nil))
  BY <1>3 DEF Promised
<1>8. CASE \A r \in R : r.seqNumAccepted <= 0
  <2>1. v = Input[c]
    BY <1>8, Zenon DEF Proposals
  <2>2. v \in Value /\ v \in Started
    BY <2>1, ConstantAssumption, Zenon DEF Started
  <2>3. \A r \in R : r.seqNumAccepted = 0
    BY <1>3, <1>4, <1>8 DEF Int64
  <2>4. SafeAt(v, n)
    BY <1>4, <2>3 DEF SafeAt
  <2> QED
    BY <1>6, <1>7, <2>2, <2>4, Zenon
<1>9. ASSUME NEW b \in best, v = b.valueAccepted, b.seqNumAccepted > 0
      PROVE  v \in Value /\ v \in Started /\ SafeAt(v, n)
  <2> DEFINE k == b.seqNumAccepted
  <2>1. /\ b \in R /\ 0 < k /\ k < n /\ k \in Int64 /\ k \in Int /\ b.from \in Peer
        /\ \A r \in R : r.seqNumAccepted <= k
    BY <1>1, <1>3, <1>4, <1>9 DEF Int64
  <2>2. PICK u \in Value : VotedFor(b.from, k, u)
    BY <1>4, <2>1, Zenon
  <2>3. u \in Started /\ SafeAt(u, k)
    BY <2>1, <2>2, VoteSafe, Zenon
  <2>4. \* round k's value is safe at n
        SafeAt(u, n)
    <3> SUFFICES ASSUME NEW i \in 1 .. n - 1
                 PROVE  \E Q2 \in Majority : \A q \in Q2 : VotedFor(q, i, u) \/ WontVote(q, i)
      BY Zenon DEF SafeAt
    <3>1. CASE i < k
      BY <2>1, <2>3, <3>1 DEF SafeAt
    <3>2. CASE i >= k
      <4>1. ASSUME NEW q \in Q
            PROVE  VotedFor(q, i, u) \/ WontVote(q, i)
        <5>1. PICK r \in R : r.from = q
          OBVIOUS
        <5>2. r.seqNumAccepted \in Int /\ r.seqNumAccepted <= k /\ q \in Peer
          BY <1>1, <1>3, <2>1 DEF Int64
        <5>3. CASE r.seqNumAccepted < i
          BY <1>1, <1>4, <5>1, <5>2, <5>3
        <5>4. CASE r.seqNumAccepted >= i
          <6>1. i = k /\ r.seqNumAccepted = k
            BY <2>1, <3>2, <5>2, <5>4
          <6>2. PICK w \in Value : VotedFor(q, k, w)
            BY <1>4, <2>1, <5>1, <6>1, Zenon
          <6>3. w = u
            BY <2>1, <2>2, <5>2, <6>2, VoteUnique, Zenon
          <6> QED
            BY <6>1, <6>2, <6>3, Zenon
        <5> QED
          BY <5>2, <5>3, <5>4
      <4> QED
        BY <4>1, Zenon
    <3> QED
      BY <2>1, <3>1, <3>2
  <2>5. CASE VotedFor(b.from, k, v)
    <3>1. u = v
      BY <2>1, <2>2, <2>5, VoteUnique, Zenon
    <3> QED
      BY <2>3, <2>4, <3>1, Zenon
  <2>6. CASE Decided(v)
    <3>1. PICK m \in Requests("Decide") : m.value = v
      BY <2>6, Zenon DEF Decided
    <3>2. /\ m.seqNum \in Int64 /\ m.seqNum \in Int /\ v \in Value /\ v \in Started
          /\ SafeAt(v, m.seqNum)
      BY <3>1, DecideChosen DEF Int64
    <3>3. CASE m.seqNum >= n
      BY <1>1, <3>2, <3>3 DEF SafeAt
    <3>4. CASE m.seqNum < n
      <4>1. PICK D \in Majority : \A q \in D : VotedFor(q, m.seqNum, v)
        BY <3>1, DecideChosen, Zenon
      <4>2. PICK q \in Q : q \in D
        BY MajorityIntersect, Zenon
      <4>3. PICK r \in R : r.from = q
        OBVIOUS
      <4>4. VotedFor(q, m.seqNum, v) /\ q \in Peer
        BY <1>1, <4>1, <4>2, Zenon
      <4>5. m.seqNum <= k
        <5>1. ~ WontVote(q, m.seqNum)
          BY <3>2, <4>4, Zenon DEF WontVote
        <5>2. m.seqNum <= r.seqNumAccepted
          BY <1>1, <1>3, <1>4, <3>2, <3>4, <4>3, <5>1 DEF Int64
        <5> QED
          BY <1>3, <2>1, <3>2, <5>2 DEF Int64
      <4>6. u = v
        BY <2>1, <2>2, <3>1, <4>5, LaterVotesAgree, Zenon
      <4> QED
        BY <2>3, <2>4, <4>6, Zenon
    <3> QED
      BY <1>1, <3>2, <3>3, <3>4
  <2> QED
    BY <1>4, <1>9, <2>1, <2>5, <2>6, Zenon
<1>10. CASE \E r \in R : ~ (r.seqNumAccepted <= 0)
  <2>1. PICK b \in best : v = b.valueAccepted
    BY <1>10, Zenon DEF Proposals
  <2>2. b.seqNumAccepted > 0
    BY <1>3, <1>10, <2>1 DEF Int64
  <2> QED
    BY <1>6, <1>7, <1>9, <2>1, <2>2
<1> QED
  BY <1>8, <1>10, Zenon

(* An Accept goes out with a safe value, once in a round.                  *)
LEMMA SendAcceptStep ==
  ASSUME IInv, TypeOK', NEW c \in Call, SendAccept(c)
  PROVE  IInv'
<1>1. Step(c) /\ Next
  BY Zenon DEF Step, Next
<1>2. /\ pc[c] = "prepare" /\ pc' = [pc EXCEPT ![c] = "accept"]
      /\ UNCHANGED <<isDecided, seqNumHighest, round, seqNum, replies>>
  BY Zenon DEF SendAccept, slotVars
<1>3. PICK Q \in Majority :
        LET R == {r \in RepliesTo(c, "Prepare") : r.ok /\ r.from \in Q}
        IN  /\ \A q \in Q : \E r \in R : r.from = q
            /\ \E v \in Proposals(Input[c], R) :
                 /\ proposeValue' = [proposeValue EXCEPT ![c] = v]
                 /\ sent' = sent \cup {RequestOf(c, "Accept", v)}
  BY Zenon DEF SendAccept
<1> DEFINE R == {r \in RepliesTo(c, "Prepare") : r.ok /\ r.from \in Q}
<1>4. PICK v \in Proposals(Input[c], R) :
        /\ proposeValue' = [proposeValue EXCEPT ![c] = v]
        /\ sent' = sent \cup {RequestOf(c, "Accept", v)}
  BY <1>3, Zenon
<1>0. PICK a : a = RequestOf(c, "Accept", v)
  BY Zenon
<1>5. /\ a.type = "Accept" /\ a.call = c /\ a.round = round[c]
      /\ a.seqNum = seqNum[c] /\ a.value = v
      /\ PrepareOf(a) = RequestOf(c, "Prepare", Nil)
      /\ sent' = sent \cup {a}
  BY <1>0, <1>4, Zenon DEF RequestOf, PrepareOf
<1>6. /\ 0 < seqNum[c] /\ v \in Value /\ v \in Started
      /\ \A q \in Q : Promised(q, RequestOf(c, "Prepare", Nil))
      /\ SafeAt(v, seqNum[c])
  <2>1. \A q \in Q : \E r \in R : r.from = q
    BY <1>3, Zenon
  <2> HIDE DEF R
  <2>2. R = {r \in RepliesTo(c, "Prepare") : r.ok /\ r.from \in Q}
    BY Zenon DEF R
  <2> QED
    BY <1>2, <1>4, <2>1, <2>2, ProposalSafe
<1>7. SlotInv' /\ PromiseInv' /\ ReplyInv' /\ PromiseOnce'
  BY <1>1, CallFrame, Zenon
<1>8. AcceptInv'
  <2>1. /\ 0 < a.seqNum /\ a.value \in Value /\ a.value \in Started'
        /\ SafeAt(a.value, a.seqNum)'
    BY <1>1, <1>5, <1>6, SafeAtStays, Growth, Zenon DEF IInv, TypeOK
  <2>2. \A q \in Q : Promised(q, PrepareOf(a))'
    BY <1>2, <1>5, <1>6, Zenon DEF Promised, PrepareOf
  <2>3. ASSUME NEW m \in Requests("Accept")'
        PROVE  m = a \/ m \in Requests("Accept")
    BY <1>5, Zenon DEF Requests
  <2> QED
    BY <1>1, <2>1, <2>2, <2>3, OldAccepts DEF AcceptInv
<1>9. DecideInv'
  <2>1. Requests("Decide")' = Requests("Decide")
    BY <1>5, Zenon DEF Requests
  <2> QED
    BY <1>1, <2>1, OldDecides, Zenon DEF DecideInv
<1>10. CallInv'
  <2>1. \A m \in sent' :
       /\ m.round <= round'[m.call]
       /\ m.type = "Accept" /\ m.round = round'[m.call] => pc'[m.call] # "prepare"
       /\ m.type = "Prepare" => m.value = Nil
    BY <1>2, <1>5 DEF IInv, CallInv, TypeOK, Request
  <2>2. \A m1, m2 \in sent' :
       m1.type = m2.type /\ m1.type # "Decide" /\ m1.call = m2.call /\ m1.round = m2.round
       => m1 = m2
    <3>1. \A m \in sent : ~ (m.type = "Accept" /\ m.call = c /\ m.round = round[c])
      BY <1>2, Zenon DEF IInv, CallInv
    <3>2. \A m1, m2 \in sent :
         m1.type = m2.type /\ m1.type # "Decide" /\ m1.call = m2.call /\ m1.round = m2.round
         => m1 = m2
      BY Zenon DEF IInv, CallInv
    <3> QED
      <4> SUFFICES ASSUME NEW m1 \in sent', NEW m2 \in sent', m1.type = m2.type,
                          m1.type # "Decide", m1.call = m2.call, m1.round = m2.round
                   PROVE  m1 = m2
        BY Zenon
      <4>1. CASE m1 \in sent /\ m2 \in sent
        BY <3>2, <4>1, Zenon
      <4>2. CASE m1 = a /\ m2 \in sent
        BY <1>5, <3>1, <4>2, Zenon
      <4>3. CASE m1 \in sent /\ m2 = a
        BY <1>5, <3>1, <4>3, Zenon
      <4> QED
        BY <1>5, <4>1, <4>2, <4>3, Zenon
  <2>3. \A d \in Call :
       /\ pc'[d] \in {"prepare", "accept", "decide", "done"} =>
            RequestOf(d, "Prepare", Nil)' \in sent'
       /\ pc'[d] \in {"accept", "decide", "done"} =>
            RequestOf(d, "Accept", proposeValue[d])' \in sent'
       /\ pc'[d] = "done" => isDecided'[Host[d]]
    BY <1>2, <1>4, Zenon DEF IInv, CallInv, TypeOK, RequestOf
  <2> QED
    BY <2>1, <2>2, <2>3, Zenon DEF CallInv
<1> QED
  BY <1>7, <1>8, <1>9, <1>10, Zenon DEF IInv

(* A Decide goes out with a value that a majority accepted.                *)
LEMMA SendDecideStep ==
  ASSUME IInv, TypeOK', NEW c \in Call, SendDecide(c)
  PROVE  IInv'
<1>1. Step(c) /\ Next
  BY Zenon DEF Step, Next
<1>0. PICK m : m = RequestOf(c, "Decide", proposeValue[c])
  BY Zenon
<1>2. /\ pc[c] = "accept" /\ pc' = [pc EXCEPT ![c] = "decide"]
      /\ sent' = sent \cup {m}
      /\ UNCHANGED <<isDecided, round, seqNum, proposeValue, replies>>
  BY <1>0, Zenon DEF SendDecide, slotVars
<1>3. m.type = "Decide" /\ m.call = c /\ m.round = round[c]
      /\ m.seqNum = seqNum[c] /\ m.value = proposeValue[c]
  BY <1>0, Zenon DEF RequestOf
<1>4. PICK Q \in Majority : \A q \in Q :
        \E r \in RepliesTo(c, "Accept") : r.ok /\ r.from = q
  BY Zenon DEF SendDecide
<1>5. RequestOf(c, "Accept", proposeValue[c]) \in sent
  BY <1>2 DEF IInv, CallInv
<1>6. ASSUME NEW q \in Q
      PROVE  VotedFor(q, m.seqNum, m.value)
  <2>1. PICK r \in RepliesTo(c, "Accept") : r.ok /\ r.from = q
    BY <1>4, Zenon
  <2>2. r \in replies /\ r.req = RequestOf(c, "Accept", proposeValue[c])
    BY <1>5, RepliesMatch, Zenon
  <2> QED
    BY <1>3, <2>1, <2>2, SMTT(60) DEF VotedFor, RequestOf
<1>7. SlotInv' /\ PromiseInv' /\ ReplyInv' /\ PromiseOnce'
  BY <1>1, CallFrame, Zenon
<1>8. AcceptInv'
  <2>1. Requests("Accept")' = Requests("Accept")
    BY <1>2, <1>3, Zenon DEF Requests
  <2> QED
    BY <1>1, <2>1, OldAccepts, Zenon DEF AcceptInv
<1>9. DecideInv'
  <2>1. \A q \in Q : VotedFor(q, m.seqNum, m.value)'
    BY <1>1, <1>6, VotesStay, Zenon
  <2>2. ASSUME NEW d \in Requests("Decide")'
        PROVE  d = m \/ d \in Requests("Decide")
    BY <1>2, Zenon DEF Requests
  <2> QED
    BY <1>1, <2>1, <2>2, OldDecides DEF DecideInv
<1>10. CallInv'
  <2>1. \A x \in sent' :
       /\ x.round <= round'[x.call]
       /\ x.type = "Accept" /\ x.round = round'[x.call] => pc'[x.call] # "prepare"
       /\ x.type = "Prepare" => x.value = Nil
    BY <1>2, <1>3 DEF IInv, CallInv, TypeOK, Request
  <2>2. \A m1, m2 \in sent' :
       m1.type = m2.type /\ m1.type # "Decide" /\ m1.call = m2.call /\ m1.round = m2.round
       => m1 = m2
    BY <1>2, <1>3, SMTT(60) DEF IInv, CallInv
  <2>3. \A d \in Call :
       /\ pc'[d] \in {"prepare", "accept", "decide", "done"} =>
            RequestOf(d, "Prepare", Nil)' \in sent'
       /\ pc'[d] \in {"accept", "decide", "done"} =>
            RequestOf(d, "Accept", proposeValue[d])' \in sent'
       /\ pc'[d] = "done" => isDecided'[Host[d]]
    BY <1>2, Zenon DEF IInv, CallInv, TypeOK, RequestOf
  <2> QED
    BY <2>1, <2>2, <2>3 DEF CallInv
<1> QED
  BY <1>7, <1>8, <1>9, <1>10, Zenon DEF IInv

-----------------------------------------------------------------------------
(* The handlers of the peers.                                              *)

(* A handler changes no call, sends nothing, and keeps what the invariant  *)
(* says of the requests.                                                   *)
LEMMA HandlerFrame ==
  ASSUME IInv, TypeOK', NEW q \in Peer, NEW m \in sent,
         Prepare(m, q) \/ Accept(m, q) \/ Decide(m, q)
  PROVE  /\ Next
         /\ sent' = sent
         /\ \A v : Decided(v)' <=> Decided(v)
         /\ AcceptInv' /\ DecideInv' /\ CallInv'
<1>1. Next
  BY Zenon DEF Next, Handle
<1>2. UNCHANGED <<pc, round, seqNum, proposeValue, sent>>
  BY Zenon DEF Prepare, Accept, Decide, callVars
<1>3. \A v : Decided(v)' <=> Decided(v)
  BY <1>2, Zenon DEF Decided, Requests
<1>4. AcceptInv'
  BY <1>1, <1>2, OldAccepts, Zenon DEF AcceptInv, Requests
<1>5. DecideInv'
  BY <1>1, <1>2, OldDecides DEF DecideInv, Requests
<1>6. CallInv'
  <2>1. \A d \in Call : isDecided[Host[d]] => isDecided'[Host[d]]
    BY <1>1, Growth, ConstantAssumption, Zenon
  <2>2. \A d \in Call :
       /\ pc'[d] \in {"prepare", "accept", "decide", "done"} =>
            RequestOf(d, "Prepare", Nil)' \in sent'
       /\ pc'[d] \in {"accept", "decide", "done"} =>
            RequestOf(d, "Accept", proposeValue[d])' \in sent'
       /\ pc'[d] = "done" => isDecided'[Host[d]]
    BY <1>2, <2>1, Zenon DEF IInv, CallInv, RequestOf
  <2> QED
    BY <1>2, <2>2, Zenon DEF IInv, CallInv
<1> QED
  BY <1>1, <1>2, <1>3, <1>4, <1>5, <1>6

(* A promise is recorded with what the slot holds.                         *)
LEMMA PrepareStep ==
  ASSUME IInv, TypeOK', NEW q \in Peer, NEW m \in sent, Prepare(m, q)
  PROVE  IInv'
<1>1. /\ Next /\ sent' = sent /\ (\A v : Decided(v)' <=> Decided(v))
      /\ AcceptInv' /\ DecideInv' /\ CallInv'
  BY HandlerFrame, Zenon
<1>2. PICK rep : rep = [req |-> m, from |-> q, ok |-> m.seqNum > seqNumHighest[q],
        seqNumAccepted |-> IF m.seqNum > seqNumHighest[q] THEN seqNumAccepted[q] ELSE 0,
        valueAccepted |-> IF m.seqNum > seqNumHighest[q] THEN value[q] ELSE Nil,
        seqNumHighest |-> IF m.seqNum > seqNumHighest[q] THEN 0 ELSE seqNumHighest[q]]
  BY Zenon
<1>3. /\ m.type = "Prepare" /\ replies' = replies \cup {rep}
      /\ UNCHANGED <<value, isDecided, seqNumAccepted>>
      /\ seqNumHighest' = [seqNumHighest EXCEPT ![q] = IF m.seqNum > seqNumHighest[q] THEN m.seqNum ELSE @]
  BY <1>2, Zenon DEF Prepare
<1>4. /\ rep.req = m /\ rep.from = q
      /\ rep.ok = (m.seqNum > seqNumHighest[q])
  BY <1>2, Zenon
<1>5. \A p, n, v : VotedFor(p, n, v)' <=> VotedFor(p, n, v)
  BY <1>3, <1>4, Zenon DEF VotedFor
<1>6. \A p \in Peer : seqNumHighest[p] <= seqNumHighest'[p]
  BY <1>1, Growth, Zenon
<1>7. /\ m.seqNum \in Int
      /\ \A p \in Peer : /\ seqNumHighest[p] \in Int /\ seqNumHighest'[p] \in Int
                         /\ seqNumAccepted[p] \in Int
  BY Int64IsInt, Zenon DEF IInv, TypeOK
<1>8. SlotInv'
  BY <1>1, <1>3, <1>5, <1>6, <1>7 DEF IInv, SlotInv
<1>9. rep.ok =>
        /\ m.seqNum > seqNumHighest[q] /\ m.seqNum = seqNumHighest'[q]
        /\ rep.seqNumAccepted = seqNumAccepted[q] /\ rep.valueAccepted = value[q]
  <2>1. rep.ok => m.seqNum > seqNumHighest[q]
    BY <1>4, Zenon
  <2> QED
    BY <1>2, <1>3, <2>1, Zenon DEF IInv, TypeOK
<1>10. PromiseInv'
  <2>1. ASSUME NEW r \in replies, r.req.type = "Prepare", r.ok
        PROVE  r.req.seqNum <= seqNumHighest'[r.from]
    <3>1. r.from \in Peer /\ r.req.seqNum \in Int
      BY DEF IInv, TypeOK, Reply, Request, Int64
    <3>2. r.req.seqNum <= seqNumHighest[r.from]
      BY <2>1, Zenon DEF IInv, PromiseInv
    <3> QED
      BY <1>6, <1>7, <3>1, <3>2
  <2>2. ASSUME rep.ok
        PROVE  /\ 0 < m.seqNum /\ m.seqNum <= seqNumHighest'[q]
               /\ 0 <= rep.seqNumAccepted /\ rep.seqNumAccepted < m.seqNum
               /\ \A k \in rep.seqNumAccepted + 1 .. m.seqNum - 1, v \in Value : ~ VotedFor(q, k, v)
               /\ rep.seqNumAccepted > 0 =>
                    /\ \E v \in Value : VotedFor(q, rep.seqNumAccepted, v)
                    /\ VotedFor(q, rep.seqNumAccepted, rep.valueAccepted) \/ Decided(rep.valueAccepted)
    <3>1. /\ 0 < m.seqNum /\ m.seqNum <= seqNumHighest'[q]
          /\ 0 <= seqNumAccepted[q] /\ seqNumAccepted[q] < m.seqNum
          /\ seqNumAccepted[q] > 0 =>
               /\ \E v \in Value : VotedFor(q, seqNumAccepted[q], v)
               /\ VotedFor(q, seqNumAccepted[q], value[q]) \/ Decided(value[q])
      <4>1. /\ 0 <= seqNumAccepted[q] /\ seqNumAccepted[q] <= seqNumHighest[q]
            /\ seqNumAccepted[q] > 0 =>
                 /\ \E v \in Value : VotedFor(q, seqNumAccepted[q], v)
                 /\ VotedFor(q, seqNumAccepted[q], value[q]) \/ Decided(value[q])
        BY Zenon DEF IInv, SlotInv
      <4> QED
        BY <1>7, <1>9, <2>2, <4>1
    <3>2. ASSUME NEW k \in seqNumAccepted[q] + 1 .. m.seqNum - 1, NEW v \in Value,
                 VotedFor(q, k, v)
          PROVE  FALSE
      BY <1>7, <3>2, VoteSent DEF IInv
    <3> QED
      BY <1>9, <2>2, <3>1, <3>2, Zenon
  <2> QED
    BY <1>1, <1>3, <1>4, <1>5, <2>1, <2>2, Zenon DEF IInv, PromiseInv
<1>11. ReplyInv'
  BY <1>1, <1>3, <1>4, Zenon DEF IInv, ReplyInv
<1>12. PromiseOnce'
  <2>1. ASSUME NEW r \in replies, r.req.type = "Prepare", r.ok, r.from = q,
               r.req.seqNum = m.seqNum, rep.ok
        PROVE  FALSE
    BY <1>7, <1>9, <2>1 DEF IInv, PromiseInv
  <2> QED
    BY <1>3, <1>4, <2>1 DEF IInv, PromiseOnce
<1> QED
  BY <1>1, <1>8, <1>10, <1>11, <1>12 DEF IInv

(* A new vote is at or above every promise of the peer.                    *)
LEMMA AcceptStep ==
  ASSUME IInv, TypeOK', NEW q \in Peer, NEW m \in sent, Accept(m, q)
  PROVE  IInv'
<1>1. /\ Next /\ sent' = sent /\ (\A v : Decided(v)' <=> Decided(v))
      /\ AcceptInv' /\ DecideInv' /\ CallInv'
  BY HandlerFrame, Zenon
<1>2. PICK rep : rep = [req |-> m, from |-> q, ok |-> m.seqNum >= seqNumHighest[q],
        seqNumAccepted |-> 0, valueAccepted |-> Nil,
        seqNumHighest |-> IF m.seqNum >= seqNumHighest[q] THEN 0 ELSE seqNumHighest[q]]
  BY Zenon
<1> DEFINE ok == m.seqNum >= seqNumHighest[q]
<1>3. /\ m.type = "Accept" /\ replies' = replies \cup {rep} /\ UNCHANGED isDecided
      /\ seqNumAccepted' = [seqNumAccepted EXCEPT ![q] = IF ok THEN m.seqNum ELSE @]
      /\ seqNumHighest' = [seqNumHighest EXCEPT ![q] = IF ok THEN m.seqNum ELSE @]
      /\ value' = [value EXCEPT ![q] = IF ok THEN m.value ELSE @]
  BY <1>2, Zenon DEF Accept
<1>4. rep.req = m /\ rep.from = q /\ rep.ok = ok
  BY <1>2, Zenon
<1>5. /\ m.seqNum \in Int
      /\ \A p \in Peer : /\ seqNumHighest[p] \in Int /\ seqNumHighest'[p] \in Int
                         /\ seqNumAccepted[p] \in Int /\ seqNumAccepted'[p] \in Int
  BY Int64IsInt, Zenon DEF IInv, TypeOK
<1>6. 0 < m.seqNum /\ m.value \in Value
  BY <1>3, Zenon DEF IInv, AcceptInv, Requests
<1>7. ok => VotedFor(q, m.seqNum, m.value)'
  <2>1. ok => rep.ok
    BY <1>4, Zenon
  <2> QED
    BY <1>3, <1>4, <2>1, Zenon DEF VotedFor
<1>8. ASSUME NEW p, NEW n, NEW v, VotedFor(p, n, v)
      PROVE  VotedFor(p, n, v)'
  BY <1>1, <1>8, VotesStay, Zenon
<1>9. ok => /\ seqNumAccepted'[q] = m.seqNum /\ seqNumHighest'[q] = m.seqNum
            /\ value'[q] = m.value
  BY <1>3, Zenon DEF IInv, TypeOK
<1>10. \A p \in Peer : p # q \/ ~ ok =>
         /\ seqNumAccepted'[p] = seqNumAccepted[p]
         /\ seqNumHighest'[p] = seqNumHighest[p] /\ value'[p] = value[p]
  BY <1>3, Zenon DEF IInv, TypeOK
<1> HIDE DEF ok
<1>11. SlotInv'
  <2> SUFFICES ASSUME NEW p \in Peer
               PROVE  /\ 0 <= seqNumAccepted'[p]
                      /\ seqNumAccepted'[p] <= seqNumHighest'[p]
                      /\ seqNumAccepted'[p] > 0 =>
                           /\ \E v \in Value : VotedFor(p, seqNumAccepted[p], v)'
                           /\ VotedFor(p, seqNumAccepted[p], value[p])' \/ Decided(value[p])'
                      /\ isDecided'[p] =>
                           VotedFor(p, seqNumAccepted[p], value[p])' \/ Decided(value[p])'
    BY Zenon DEF SlotInv
  <2>1. CASE p = q /\ ok
    <3>1. VotedFor(p, seqNumAccepted[p], value[p])'
      BY <1>7, <1>9, <2>1, Zenon DEF VotedFor
    <3>2. \E v \in Value : VotedFor(p, seqNumAccepted[p], v)'
      <4>1. value'[p] \in Value
        BY <1>6, <1>9, <2>1, Zenon
      <4> QED
        BY <3>1, <4>1, Zenon DEF VotedFor
    <3> QED
      BY <1>5, <1>6, <1>9, <2>1, <3>1, <3>2
  <2>2. CASE p # q \/ ~ ok
    <3>1. /\ seqNumAccepted'[p] = seqNumAccepted[p]
          /\ seqNumHighest'[p] = seqNumHighest[p] /\ value'[p] = value[p]
          /\ isDecided'[p] = isDecided[p]
      BY <1>3, <1>10, <2>2, Zenon
    <3>2. \A v : VotedFor(p, seqNumAccepted[p], v) => VotedFor(p, seqNumAccepted[p], v)'
      BY <1>8, <3>1 DEF VotedFor
    <3>3. VotedFor(p, seqNumAccepted[p], value[p]) => VotedFor(p, seqNumAccepted[p], value[p])'
      BY <1>8, <3>1 DEF VotedFor
    <3>4. Decided(value[p]) => Decided(value[p])'
      BY <1>1, <3>1, Zenon DEF Decided, Requests
    <3> QED
      BY <1>5, <3>1, <3>2, <3>3, <3>4, Zenon DEF IInv, SlotInv
  <2> QED
    BY <2>1, <2>2, Zenon
<1>12. PromiseInv'
  <2> SUFFICES ASSUME NEW r \in replies, r.req.type = "Prepare", r.ok
               PROVE  /\ r.req.seqNum <= seqNumHighest'[r.from]
                      /\ \A k \in r.seqNumAccepted + 1 .. r.req.seqNum - 1, v \in Value :
                           ~ VotedFor(r.from, k, v)'
    <3>1. rep.req.type # "Prepare"
      BY <1>3, <1>4
    <3> QED
      BY <1>1, <1>3, <1>8, <3>1, Zenon DEF IInv, PromiseInv
  <2>1. r.from \in Peer /\ r.req.seqNum \in Int /\ r.seqNumAccepted \in Int
    BY DEF IInv, TypeOK, Reply, Request, Int64
  <2>2. /\ r.req.seqNum <= seqNumHighest[r.from]
        /\ \A k \in r.seqNumAccepted + 1 .. r.req.seqNum - 1, v \in Value :
             ~ VotedFor(r.from, k, v)
    BY Zenon DEF IInv, PromiseInv
  <2>3. r.req.seqNum <= seqNumHighest'[r.from]
    BY <1>1, <1>5, <2>1, <2>2, Growth
  <2>4. ASSUME NEW k \in r.seqNumAccepted + 1 .. r.req.seqNum - 1, NEW v \in Value,
               VotedFor(r.from, k, v)'
        PROVE  FALSE
    <3>1. PICK a \in sent : a.seqNum >= seqNumHighest[r.from] /\ a.seqNum = k
      BY <1>1, <2>1, <2>2, <2>4, NewVotes
    <3> QED
      BY <1>5, <2>1, <2>2, <3>1
  <2> QED
    BY <2>3, <2>4, Zenon
<1>13. ReplyInv'
  <2>1. ASSUME NEW r \in replies, r.req.type = "Accept", r.ok
        PROVE  r.req.seqNum <= seqNumAccepted'[r.from]
    <3>1. r.from \in Peer /\ r.req.seqNum \in Int
      BY DEF IInv, TypeOK, Reply, Request, Int64
    <3>2. r.req.seqNum <= seqNumAccepted[r.from]
      BY <2>1, Zenon DEF IInv, ReplyInv
    <3>3. seqNumAccepted[q] <= seqNumHighest[q]
      BY Zenon DEF IInv, SlotInv
    <3>4. ok => seqNumAccepted[q] <= m.seqNum
      BY <1>5, <3>3 DEF ok
    <3>5. CASE r.from = q
      <4>1. ok => seqNumAccepted'[q] = m.seqNum
        BY <1>9, Zenon
      <4>2. ~ ok => seqNumAccepted'[q] = seqNumAccepted[q]
        BY <1>10, Zenon
      <4> QED
        BY <1>5, <3>1, <3>2, <3>4, <3>5, <4>1, <4>2
    <3>6. CASE r.from # q
      BY <1>10, <3>1, <3>2, <3>6, Zenon
    <3> QED
      BY <3>5, <3>6, Zenon
  <2>2. rep.ok => rep.req.seqNum <= seqNumAccepted'[rep.from]
    BY <1>4, <1>5, <1>9
  <2> QED
    BY <1>1, <1>3, <1>4, <2>1, <2>2, Zenon DEF IInv, ReplyInv
<1>14. PromiseOnce'
  BY <1>3, <1>4 DEF IInv, PromiseOnce
<1> QED
  BY <1>1, <1>11, <1>12, <1>13, <1>14 DEF IInv

(* Decide overwrites value and leaves seqNumAccepted and seqNumHighest.    *)
LEMMA DecideStep ==
  ASSUME IInv, TypeOK', NEW q \in Peer, NEW m \in sent, Decide(m, q)
  PROVE  IInv'
<1>1. /\ Next /\ sent' = sent /\ (\A v : Decided(v)' <=> Decided(v))
      /\ AcceptInv' /\ DecideInv' /\ CallInv'
  BY HandlerFrame, Zenon
<1>2. PICK rep : rep = [req |-> m, from |-> q, ok |-> TRUE, seqNumAccepted |-> 0,
                        valueAccepted |-> Nil, seqNumHighest |-> 0]
  BY Zenon
<1>3. /\ m.type = "Decide" /\ replies' = replies \cup {rep}
      /\ UNCHANGED <<seqNumAccepted, seqNumHighest>>
      /\ value' = [value EXCEPT ![q] = m.value]
      /\ isDecided' = [isDecided EXCEPT ![q] = TRUE]
  BY <1>2, Zenon DEF Decide
<1>4. rep.req = m /\ rep.from = q
  BY <1>2, Zenon
<1>5. \A p, n, v : VotedFor(p, n, v)' <=> VotedFor(p, n, v)
  BY <1>3, <1>4, Zenon DEF VotedFor
<1>6. Decided(m.value)
  BY <1>3, Zenon DEF Decided, Requests
<1>7. SlotInv'
  <2>1. value'[q] = m.value /\ isDecided'[q]
    BY <1>3, Zenon DEF IInv, TypeOK
  <2>2. \A p \in Peer \ {q} : value'[p] = value[p] /\ isDecided'[p] = isDecided[p]
    BY <1>3, Zenon DEF IInv, TypeOK
  <2> QED
    BY <1>1, <1>3, <1>5, <1>6, <2>1, <2>2, Zenon DEF IInv, SlotInv
<1>8. PromiseInv'
  BY <1>1, <1>3, <1>4, <1>5, Zenon DEF IInv, PromiseInv
<1>9. ReplyInv'
  <2>1. \A p \in Peer : isDecided[p] => isDecided'[p]
    BY <1>1, Growth, Zenon
  <2>2. isDecided'[q]
    BY <1>3 DEF IInv, TypeOK
  <2>3. \A r \in replies : r.from \in Peer
    BY Zenon DEF IInv, TypeOK, Reply
  <2> QED
    BY <1>1, <1>3, <1>4, <2>1, <2>2, <2>3 DEF IInv, ReplyInv
<1>10. PromiseOnce'
  BY <1>3, <1>4 DEF IInv, PromiseOnce
<1> QED
  BY <1>1, <1>7, <1>8, <1>9, <1>10 DEF IInv

-----------------------------------------------------------------------------
(* Type correctness of the slot, of the calls and of all messages.         *)
THEOREM TypeCorrect == Spec => []TypeOK
<1>1. Init => TypeOK
  BY ConstantAssumption, ZeroInt64 DEF Init, TypeOK
<1> QED
  BY <1>1, TypeOKStep, PTL DEF Spec

(* The inductive invariant holds in every reachable state of the slot.     *)
THEOREM Invariant == Spec => []IInv
<1>1. Init => IInv
  <2> SUFFICES ASSUME Init PROVE IInv
    OBVIOUS
  <2>1. TypeOK
    BY ConstantAssumption, ZeroInt64, Zenon DEF Init, TypeOK
  <2>2. SlotInv /\ PromiseInv /\ ReplyInv /\ PromiseOnce
    BY DEF Init, SlotInv, PromiseInv, ReplyInv, PromiseOnce
  <2>3. AcceptInv /\ DecideInv /\ CallInv
    BY Zenon DEF Init, AcceptInv, DecideInv, CallInv, Requests
  <2> QED
    BY <2>1, <2>2, <2>3, Zenon DEF IInv
<1>2. IInv /\ [Next]_vars => IInv'
  <2> SUFFICES ASSUME IInv, [Next]_vars PROVE IInv'
    OBVIOUS
  <2>1. TypeOK'
    BY TypeOKStep, Zenon DEF IInv
  <2>2. ASSUME NEW q \in Peer, Handle(q) PROVE IInv'
    BY <2>1, <2>2, PrepareStep, AcceptStep, DecideStep, Zenon DEF Handle
  <2>3. ASSUME NEW c \in Call, Step(c) PROVE IInv'
    BY <2>1, <2>3, QuietSteps, SendPrepareStep, SendAcceptStep, SendDecideStep, Zenon DEF Step
  <2>4. CASE UNCHANGED vars
    <3>1. /\ UNCHANGED <<value, isDecided, seqNumAccepted, seqNumHighest, pc, round>>
          /\ UNCHANGED <<seqNum, proposeValue, sent, replies>>
      BY <2>4, Zenon DEF vars, slotVars, callVars
    <3>2. /\ \A q, n, v : VotedFor(q, n, v)' <=> VotedFor(q, n, v)
          /\ \A v : Decided(v)' <=> Decided(v)
          /\ \A q, m : Promised(q, m)' <=> Promised(q, m)
          /\ \A t : Requests(t)' = Requests(t)
          /\ Started' = Started
      BY <3>1, Zenon DEF VotedFor, Decided, Promised, Requests, Started
    <3>3. \A v, n : SafeAt(v, n)' <=> SafeAt(v, n)
      BY <3>1, <3>2 DEF SafeAt, WontVote
    <3>4. SlotInv' /\ PromiseInv'
      BY <3>1, <3>2, Zenon DEF IInv, SlotInv, PromiseInv
    <3>5. ReplyInv' /\ PromiseOnce'
      BY <3>1, Zenon DEF IInv, ReplyInv, PromiseOnce
    <3>6. AcceptInv' /\ DecideInv'
      BY <3>1, <3>2, <3>3 DEF IInv, AcceptInv, DecideInv
    <3>7. CallInv'
      BY <3>1, Zenon DEF IInv, CallInv, RequestOf
    <3> QED
      BY <2>1, <3>4, <3>5, <3>6, <3>7 DEF IInv
  <2> QED
    BY <2>2, <2>3, <2>4, Zenon DEF Next
<1> QED
  BY <1>1, <1>2, PTL DEF Spec

(* All Decide broadcasts of a slot carry one value: startHelper never      *)
(* decides two values, whatever the numbers its rounds draw.               *)
THEOREM Agreement == Spec => []DecideAgreement
BY Invariant, AgreementFromInv, PTL

(* A sequence number passes the prepare phase at most once, although two   *)
(* rounds may draw the same one.                                           *)
THEOREM NumberWinsOnce == Spec => []AcceptNumbersUnique
BY Invariant, AcceptUnique, PTL

(* Whatever a peer reports decided was proposed by a call that started.    *)
THEOREM Validity == Spec => []DecidedWasProposed
<1>1. IInv => DecidedWasProposed
  <2> SUFFICES ASSUME IInv, NEW q \in Peer, isDecided[q]
               PROVE  value[q] \in Started
    BY Zenon DEF DecidedWasProposed, Started
  <2>1. CASE VotedFor(q, seqNumAccepted[q], value[q])
    BY <2>1, VoteSafe, Zenon
  <2>2. CASE Decided(value[q])
    BY <2>2, DecideChosen DEF Decided
  <2> QED
    BY <2>1, <2>2, Zenon DEF IInv, SlotInv
<1> QED
  BY <1>1, Invariant, PTL

(* When startHelper returns, its peer's slot is decided.                   *)
THEOREM ReturnMeansDecided == Spec => []ReturnedIsDecided
<1>1. IInv => ReturnedIsDecided
  BY Zenon DEF IInv, CallInv, ReturnedIsDecided
<1> QED
  BY <1>1, Invariant, PTL

(* A decided slot differs from what Decide broadcast only when the peer    *)
(* accepted another value in a round numbered below the deciding one.      *)
THEOREM StaleOverwrite == Spec => []OnlyStaleAcceptsOverwrite
<1>1. IInv => OnlyStaleAcceptsOverwrite
  <2> SUFFICES ASSUME IInv, NEW q \in Peer, NEW m \in Requests("Decide"),
                      isDecided[q], value[q] # m.value
               PROVE  /\ seqNumAccepted[q] < m.seqNum
                      /\ VotedFor(q, seqNumAccepted[q], value[q])
    BY Zenon DEF OnlyStaleAcceptsOverwrite
  <2>1. ~ Decided(value[q])
    BY AgreementFromInv, Zenon DEF Decided, DecideAgreement
  <2>2. VotedFor(q, seqNumAccepted[q], value[q])
    BY <2>1, Zenon DEF IInv, SlotInv
  <2>3. ~ (m.seqNum <= seqNumAccepted[q])
    BY <2>2, LaterVotesAgree, Zenon
  <2>4. m.seqNum \in Int /\ seqNumAccepted[q] \in Int
    BY DecideChosen DEF IInv, TypeOK, Int64
  <2> QED
    BY <2>2, <2>3, <2>4
<1> QED
  BY <1>1, Invariant, PTL

-----------------------------------------------------------------------------
(* The protocol implements what a slot promises: at most one value is      *)
(* chosen, it stays, and startHelper returns only after that.              *)
THEOREM Refinement == Spec => ImplementsConsensus
<1> DEFINE chosen == {m.value : m \in Requests("Decide")}
           returned == {c \in Call : pc[c] = "done"}
<1>1. Init => Consensus!Init
  BY Zenon DEF Init, Consensus!Init, Requests
<1>2. IInv' => DecideAgreement'
  <2>1. IInv => DecideAgreement
    BY AgreementFromInv, Zenon
  <2> QED
    BY <2>1, PTL
<1>3. IInv /\ IInv' /\ [Next]_vars => [Consensus!Next]_<<chosen, returned>>
  <2> SUFFICES ASSUME IInv, IInv', Next
               PROVE  Consensus!Next \/ UNCHANGED <<chosen, returned>>
    BY Zenon DEF vars, callVars, Requests
  <2>1. ASSUME NEW q \in Peer, Handle(q)
        PROVE  UNCHANGED <<chosen, returned>>
    BY <2>1, Zenon DEF Handle, Prepare, Accept, Decide, callVars, Requests
  <2>2. ASSUME NEW c \in Call, SendDecide(c)
        PROVE  Consensus!Next \/ UNCHANGED <<chosen, returned>>
    <3>1. PICK m : m = RequestOf(c, "Decide", proposeValue[c])
      BY Zenon
    <3>2. Requests("Decide")' = Requests("Decide") \cup {m}
      <4>1. sent' = sent \cup {m} /\ m.type = "Decide"
        BY <2>2, <3>1, Zenon DEF SendDecide, RequestOf
      <4> QED
        BY <4>1, Zenon DEF Requests
    <3>3. UNCHANGED returned
      BY <2>2, Zenon DEF SendDecide, IInv, TypeOK
    <3>4. chosen' = chosen \cup {m.value}
      BY <3>2, Zenon
    <3>5. m.value \in Value /\ m \in Requests("Decide")'
      <4>1. RequestOf(c, "Accept", proposeValue[c]) \in Requests("Accept")
        BY <2>2, Zenon DEF SendDecide, IInv, CallInv, RequestOf, Requests
      <4> QED
        BY <3>1, <3>2, <4>1, Zenon DEF IInv, AcceptInv, RequestOf
    <3>6. CASE chosen = {}
      BY <3>3, <3>4, <3>5, <3>6, Zenon DEF Consensus!Next, Consensus!Choose
    <3>7. CASE chosen # {}
      <4>1. PICK d \in Requests("Decide") : TRUE
        BY <3>7, Zenon
      <4>2. DecideAgreement'
        BY <1>2, Zenon
      <4>3. d.value = m.value
        BY <3>2, <3>5, <4>1, <4>2, Zenon DEF DecideAgreement
      <4> QED
        BY <3>3, <3>4, <4>1, <4>3, Zenon
    <3> QED
      BY <3>6, <3>7, Zenon
  <2>3. ASSUME NEW c \in Call, Return(c)
        PROVE  Consensus!Next
    <3>1. /\ UNCHANGED chosen
          /\ returned' = returned \cup {c}
      BY <2>3, Zenon DEF Return, Requests, IInv, TypeOK
    <3>2. RequestOf(c, "Decide", proposeValue[c]) \in Requests("Decide")
      BY <2>3, Zenon DEF Return, Handled, RequestOf, Requests, IInv, ReplyInv
    <3> QED
      BY <3>1, <3>2, Zenon DEF Consensus!Next, Consensus!Return
  <2>4. ASSUME NEW c \in Call,
               StartHelper(c) \/ SendPrepare(c) \/ SendAccept(c)
                 \/ PrepareFails(c) \/ AcceptFails(c)
        PROVE  UNCHANGED <<chosen, returned>>
    <3>1. Requests("Decide")' = Requests("Decide")
      <4>1. CASE SendPrepare(c)
        <5>1. sent' = sent \cup {RequestOf(c, "Prepare", Nil)'}
          BY <4>1, Zenon DEF SendPrepare
        <5>2. RequestOf(c, "Prepare", Nil)'.type = "Prepare"
          BY Zenon DEF RequestOf
        <5> QED
          BY <5>1, <5>2, Zenon DEF Requests
      <4>2. CASE SendAccept(c)
        <5>1. PICK v : sent' = sent \cup {RequestOf(c, "Accept", v)}
          BY <4>2, Zenon DEF SendAccept
        <5>2. RequestOf(c, "Accept", v).type = "Accept"
          BY Zenon DEF RequestOf
        <5> QED
          BY <5>1, <5>2, Zenon DEF Requests
      <4>3. CASE StartHelper(c) \/ PrepareFails(c) \/ AcceptFails(c)
        BY <4>3, Zenon DEF StartHelper, PrepareFails, AcceptFails, Retry, Requests
      <4> QED
        BY <2>4, <4>1, <4>2, <4>3, Zenon
    <3>2. PICK l \in {"loop", "prepare", "accept"} :
            pc[c] # "done" /\ pc' = [pc EXCEPT ![c] = l]
      <4>1. CASE StartHelper(c)
        BY <4>1, Zenon DEF StartHelper
      <4>2. CASE SendPrepare(c)
        BY <4>2, Zenon DEF SendPrepare
      <4>3. CASE SendAccept(c)
        BY <4>3, Zenon DEF SendAccept
      <4>4. CASE PrepareFails(c) \/ AcceptFails(c)
        BY <4>4, Zenon DEF PrepareFails, AcceptFails, Retry
      <4> QED
        BY <2>4, <4>1, <4>2, <4>3, <4>4
    <3>3. UNCHANGED returned
      BY <3>2, Zenon DEF IInv, TypeOK
    <3> QED
      BY <3>1, <3>3, Zenon
  <2> QED
    BY <2>1, <2>2, <2>3, <2>4, Zenon DEF Next, Step
<1> QED
  BY <1>1, <1>3, Invariant, PTL DEF Spec, ImplementsConsensus, Consensus!Spec
=============================================================================
