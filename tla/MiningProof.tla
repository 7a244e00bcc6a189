---------------------------- MODULE MiningProof ----------------------------
(***************************************************************************)
(* Proofs about Mining, for any clients, miners, jobs, hashes and moments  *)
(* at which connections are lost: the server always knows where every job  *)
(* of a client is, and a client that gets a result gets the minimum over   *)
(* the whole range it has asked for.                                       *)
(*                                                                         *)
(* IInv has three parts: every miner and the server agree about its job    *)
(* (MinersOK); notFinishedJob of a client counts its jobs in the queue     *)
(* and at miners (Accounted); and the minimum so far together with those   *)
(* jobs covers the range of the client (AllSearched).                      *)
(***************************************************************************)
EXTENDS Mining, FiniteSetTheorems, SequenceTheorems, WellFoundedInduction, TLAPS

Answer(job) == calculateMinHash(job.lower, job.upper)

Result == [hash : Uint64, nonce : Uint64]

TypeOK ==
  /\ minerCurrWork \in [Miner -> Job \cup {Nil, Absent}]
  /\ unOccupiedMiner \subseteq Miner /\ todo \subseteq unOccupiedMiner
  /\ clients \in [Client -> clientStatus \cup {Nil}] /\ jobQ \in Seq(Job)
  /\ inbox \in [Conn -> Seq(Message)] /\ work \in [Miner -> Seq(Job)]
  /\ results \in [Client -> Seq(Result)] /\ sends \in [Conn -> Nat]
  /\ lost \subseteq Conn /\ reported \subseteq lost

(* A miner has joined once, and has the job that the server thinks it has, *)
(* or has answered it.                                                     *)
MinerOK(w, free, in, jobs, sent, gone) ==
  /\ free <=> w = Nil
  /\ w = Absent => \/ in = <<>> /\ (jobs = <<>> \/ gone)
                   \/ in = <<JoinMsg>> /\ jobs = <<>>
  /\ w = Nil => in = <<>> /\ jobs = <<>>
  /\ w \in Job => \/ in = <<>> /\ jobs = <<w>>
                  \/ in = <<Answer(w)>> /\ jobs = <<>> /\ w.upper < Max
  /\ sent = 0 => w = Absent /\ in = <<>> /\ jobs = <<>>

AtOK(m) ==
  MinerOK(minerCurrWork[m], m \in unOccupiedMiner, inbox[m], work[m], sends[m], m \in lost)

MinersOK == \A m \in Miner : AtOK(m)

(* A client whose loss the server knows of asks no more.                   *)
Left(cl, in, rep) == \A c \in Client : c \in rep => in[c] = <<>> /\ cl[c] = Nil

(* The jobs of one client in the queue and at miners.                      *)
InQueue(q, c) == {i \in 1 .. Len(q) : q[i].client = c}

AtMiners(w, c) == {m \in Miner : w[m] \in Job /\ w[m].client = c}

Count(q, w, c) == Cardinality(InQueue(q, c)) + Cardinality(AtMiners(w, c))

Accounted(cl, q, w, rep) ==
  \A c \in Client :
    /\ c \notin rep => Count(q, w, c) = IF cl[c] = Nil THEN 0 ELSE cl[c].notFinishedJob
    /\ cl[c] # Nil => cl[c].notFinishedJob > 0

(* All the jobs.                                                           *)
Pool(q, w) == {q[i] : i \in 1 .. Len(q)} \cup {j \in Job : \E m \in Miner : w[m] = j}

(* A job does not reach beyond what its client asked for, or never ends.   *)
Fits(pool) == \A j \in pool : j.upper < Max => j.upper <= Upper[j.client]

Covers(pool, c, n) == \E j \in pool : j.client = c /\ n \in j.lower .. j.upper

(* A hash smaller than the best one so far is in a job that is not done.   *)
Searched(status, c, pool) ==
  /\ \A n \in 0 .. Upper[c] : Covers(pool, c, n) \/ status.minHash <= Hash[n]
  /\ status.minHash < Max => status.nonce \in 0 .. Upper[c] /\ Hash[status.nonce] = status.minHash

AllSearched(cl, pool) == \A c \in Client : cl[c] # Nil => Searched(cl[c], c, pool)

JobsOK(cl, q, w, rep) ==
  Accounted(cl, q, w, rep) /\ Fits(Pool(q, w)) /\ AllSearched(cl, Pool(q, w))

IInv ==
  /\ TypeOK /\ MinersOK /\ Left(clients, inbox, reported)
  /\ JobsOK(clients, jobQ, minerCurrWork, reported)
  /\ ResultIsMinimum

-----------------------------------------------------------------------------
(* Arithmetic and the least element of a set.                              *)

(* A set of natural numbers has a least element.                           *)
LEMMA LeastNat ==
  ASSUME NEW T \in SUBSET Nat, T # {}
  PROVE  \E x \in T : \A y \in T : x <= y
<1>1. PICK x \in T : \A y \in T : ~(<<y, x>> \in OpToRel(<, Nat))
  BY WFMin, NatLessThanWellFounded, Zenon
<1>2. OpToRel(<, Nat) = {q \in Nat \X Nat : q[1] < q[2]}
  BY Zenon DEF OpToRel
<1>3. ASSUME NEW y \in T  PROVE x <= y
  <2>1. <<y, x>> \in Nat \X Nat /\ <<y, x>>[1] = y /\ <<y, x>>[2] = x
    BY <1>3, Zenon
  <2>2. ~(y < x)
    BY <1>1, <1>2, <1>3, <2>1, Zenon
  <2> QED  BY <1>3, <2>2
<1> QED  BY <1>3

(* The order is transitive.                                                *)
LEMMA AtMost ==
  ASSUME NEW x \in Nat, NEW y \in Nat, NEW z \in Nat, x <= y, y <= z
  PROVE  x <= z
  OBVIOUS

(* Parts of equal size do not exceed the whole.                            *)
LEMMA PartsFit ==
  ASSUME NEW a \in Nat, NEW b \in Nat, b > 0, NEW i \in 0 .. b
  PROVE  a \div b \in Nat /\ i * (a \div b) \in Nat /\ i * (a \div b) <= a
<1> DEFINE d == a \div b
<1>1. d \in Nat /\ b * d <= a
  OBVIOUS
<1> HIDE DEF d
<1>2. i * d \in Nat /\ i * d <= b * d
  BY <1>1
<1>3. b * d \in Nat
  BY <1>1
<1> QED  BY <1>1, <1>2, <1>3 DEF d

(* A miner answers with the least hash of its range, and a nonce that has  *)
(* it, unless all hashes are MaxUint64.                                    *)
LEMMA AnswerIsMinimum ==
  ASSUME NEW l \in Uint64, NEW u \in Uint64
  PROVE  LET r == calculateMinHash(l, u)
         IN  /\ r \in Message /\ r.type = "Result"
             /\ \A n \in l .. u : r.hash <= Hash[n]
             /\ r.hash < Max => r.nonce \in l .. u /\ Hash[r.nonce] = r.hash
<1> DEFINE good == {i \in l .. u : Hash[i] < Max}
           Best(i) == \A j \in good : Hash[i] < Hash[j] \/ (Hash[i] = Hash[j] /\ i <= j)
           best == CHOOSE i \in good : Best(i)
           r == calculateMinHash(l, u)
<1>1. /\ Max \in Nat /\ l \in Nat /\ u \in Nat
      /\ \A i \in l .. u : i \in Nat /\ i \in Uint64 /\ Hash[i] \in Nat /\ Hash[i] <= Max
  BY MiningAssumption DEF Uint64
<1>2. r = IF good = {} THEN [type |-> "Result", hash |-> Max, nonce |-> 0]
          ELSE [type |-> "Result", hash |-> Hash[best], nonce |-> best]
  BY Zenon DEF calculateMinHash
<1>3. CASE good = {}
  <2>1. r = [type |-> "Result", hash |-> Max, nonce |-> 0]
    BY <1>2, <1>3, Zenon
  <2>2. \A n \in l .. u : Max <= Hash[n]
    BY <1>1, <1>3
  <2> QED  BY <1>1, <2>1, <2>2 DEF Message, Uint64
<1>4. CASE good # {}
  <2>1. PICK h \in {Hash[i] : i \in good} : \A g \in {Hash[i] : i \in good} : h <= g
    <3>1. {Hash[i] : i \in good} \in SUBSET Nat /\ {Hash[i] : i \in good} # {}
      BY <1>1, <1>4
    <3> QED  BY <3>1, LeastNat, Zenon
  <2>2. \A i \in good : h <= Hash[i]
    BY <2>1
  <2>3. PICK k \in {i \in good : Hash[i] = h} : \A j \in {i \in good : Hash[i] = h} : k <= j
    <3>1. {i \in good : Hash[i] = h} \in SUBSET Nat /\ {i \in good : Hash[i] = h} # {}
      BY <1>1, <2>1
    <3> QED  BY <3>1, LeastNat, Zenon
  <2>4. k \in good /\ Best(k)
    BY <1>1, <2>2, <2>3
  <2>5. best \in good /\ Best(best)
    BY <2>4, Zenon
  <2> HIDE DEF best
  <2>6. r = [type |-> "Result", hash |-> Hash[best], nonce |-> best]
    BY <1>2, <1>4, Zenon
  <2>7. \A n \in l .. u : Hash[best] <= Hash[n]
    BY <1>1, <2>5
  <2>8. best \in l .. u /\ best \in Uint64 /\ Hash[best] \in Uint64
    BY <1>1, <2>5 DEF Uint64
  <2> QED  BY <2>6, <2>7, <2>8 DEF Message
<1> QED  BY <1>3, <1>4

-----------------------------------------------------------------------------
(* Counting the jobs of a client.                                          *)

(* The jobs of a client can be counted.                                    *)
LEMMA CountsExist ==
  ASSUME NEW q \in Seq(Job), NEW w, NEW c
  PROVE  /\ IsFiniteSet(InQueue(q, c)) /\ Cardinality(InQueue(q, c)) \in Nat
         /\ IsFiniteSet(AtMiners(w, c)) /\ Cardinality(AtMiners(w, c)) \in Nat
<1>1. 1 \in Int /\ Len(q) \in Int
  BY LenProperties
<1>2. IsFiniteSet(1 .. Len(q)) /\ InQueue(q, c) \in SUBSET (1 .. Len(q))
  BY <1>1, FS_Interval, Zenon DEF InQueue
<1>3. IsFiniteSet(Miner) /\ AtMiners(w, c) \in SUBSET Miner
  BY MiningAssumption, Zenon DEF AtMiners
<1>4. IsFiniteSet(InQueue(q, c)) /\ IsFiniteSet(AtMiners(w, c))
  BY <1>2, <1>3, FS_Subset, Zenon
<1> QED  BY <1>4, FS_CardinalityType

(* What two queues hold of a client adds up when they are joined.          *)
LEMMA JoinedQueues ==
  ASSUME NEW p \in Seq(Job), NEW q \in Seq(Job), NEW c
  PROVE  Cardinality(InQueue(p \o q, c)) = Cardinality(InQueue(p, c)) + Cardinality(InQueue(q, c))
<1> DEFINE r == p \o q
           n == Len(p)
           A == InQueue(p, c)
           B == InQueue(q, c)
           D == {i + n : i \in B}
<1>1. n \in Nat /\ Len(q) \in Nat
  BY LenProperties
<1>2. /\ Len(r) = n + Len(q)
      /\ \A i \in 1 .. n + Len(q) : r[i] = IF i <= n THEN p[i] ELSE q[i - n]
  BY ConcatProperties
<1> HIDE DEF r, n
<1>3. \A i \in B : i \in Nat /\ i \in 1 .. Len(q) /\ q[i].client = c
  BY <1>1 DEF InQueue
<1>4. InQueue(r, c) = A \cup D
  <2>1. ASSUME NEW i \in InQueue(r, c)  PROVE i \in A \cup D
    <3>1. i \in 1 .. n + Len(q) /\ r[i].client = c
      BY <1>2, <2>1 DEF InQueue
    <3>2. CASE i <= n
      BY <1>1, <1>2, <3>1, <3>2 DEF InQueue, n
    <3>3. CASE ~(i <= n)
      <4>1. i - n \in 1 .. Len(q) /\ q[i - n].client = c /\ i = (i - n) + n
        BY <1>1, <1>2, <3>1, <3>3
      <4>2. i - n \in B
        BY <4>1 DEF InQueue
      <4> QED  BY <4>1, <4>2
    <3> QED  BY <3>2, <3>3
  <2>2. ASSUME NEW i \in A  PROVE i \in InQueue(r, c)
    BY <1>1, <1>2, <2>2 DEF InQueue, n
  <2>3. ASSUME NEW i \in B  PROVE i + n \in InQueue(r, c)
    <3>1. i + n \in 1 .. n + Len(q) /\ ~(i + n <= n) /\ (i + n) - n = i
      BY <1>1, <1>3, <2>3
    <3> QED  BY <1>2, <1>3, <2>3, <3>1 DEF InQueue
  <2> QED  BY <2>1, <2>2, <2>3
<1>5. A \cap D = {}
  BY <1>1, <1>3 DEF InQueue, n
<1>6. IsFiniteSet(A) /\ IsFiniteSet(B) /\ Cardinality(A) \in Nat /\ Cardinality(B) \in Nat
  BY CountsExist
<1>7. IsFiniteSet(D) /\ Cardinality(D) = Cardinality(B)
  <2> DEFINE f == [i \in B |-> i + n]
  <2>1. f \in Bijection(B, D)
    <3>1. f \in [B -> D]
      OBVIOUS
    <3>2. \A i, j \in B : f[i] = f[j] => i = j
      BY <1>1, <1>3
    <3>3. \A d \in D : \E i \in B : f[i] = d
      OBVIOUS
    <3> HIDE DEF f, D
    <3> QED  BY <3>1, <3>2, <3>3, Zenon DEF Bijection, Injection, Surjection, IsInjective
  <2>2. ExistsBijection(B, D)
    BY <2>1, Zenon DEF ExistsBijection
  <2> QED  BY <1>6, <2>2, FS_Bijection, Zenon
<1> HIDE DEF A, D, B
<1>8. Cardinality(A \cup D) = Cardinality(A) + Cardinality(D)
  <2>1. Cardinality(A \cup D) = Cardinality(A) + Cardinality(D) - Cardinality(A \cap D)
    BY <1>6, <1>7, FS_Union, Zenon
  <2>2. Cardinality(A \cap D) = 0
    BY <1>5, FS_EmptySet, Zenon
  <2> QED  BY <1>6, <1>7, <2>1, <2>2
<1> QED  BY <1>4, <1>7, <1>8 DEF r, A, B

(* A queue in which every job is of client c, or none is.                  *)
LEMMA UniformQueue ==
  ASSUME NEW q \in Seq(Job), NEW c
  PROVE  /\ (\A i \in 1 .. Len(q) : q[i].client = c) => Cardinality(InQueue(q, c)) = Len(q)
         /\ (\A i \in 1 .. Len(q) : q[i].client # c) => Cardinality(InQueue(q, c)) = 0
<1>1. Len(q) \in Nat
  BY LenProperties
<1>2. ASSUME \A i \in 1 .. Len(q) : q[i].client = c  PROVE Cardinality(InQueue(q, c)) = Len(q)
  <2>1. InQueue(q, c) = 1 .. Len(q)
    BY <1>2, Zenon DEF InQueue
  <2>2. 1 \in Int /\ Len(q) \in Int
    BY <1>1
  <2>3. Cardinality(1 .. Len(q)) = IF 1 > Len(q) THEN 0 ELSE Len(q) - 1 + 1
    BY <2>2, FS_Interval, Zenon
  <2> QED  BY <1>1, <2>1, <2>3
<1>3. ASSUME \A i \in 1 .. Len(q) : q[i].client # c  PROVE Cardinality(InQueue(q, c)) = 0
  <2>1. InQueue(q, c) = {}
    BY <1>3, Zenon DEF InQueue
  <2> QED  BY <2>1, FS_EmptySet
<1> QED  BY <1>2, <1>3

(* One for a job of client c, zero for anything else.                      *)
Of(v, c) == IF v \in Job /\ v.client = c THEN 1 ELSE 0

(* A job put before a queue counts for its client.                         *)
LEMMA FrontJob ==
  ASSUME NEW q \in Seq(Job), NEW j \in Job, NEW c
  PROVE  /\ <<j>> \o q \in Seq(Job)
         /\ Cardinality(InQueue(<<j>> \o q, c)) = Of(j, c) + Cardinality(InQueue(q, c))
<1> DEFINE p == <<j>>
<1>1. p \in Seq(Job) /\ Len(p) = 1 /\ p[1] = j
  OBVIOUS
<1>2. \A i \in 1 .. Len(p) : p[i] = j
  BY <1>1
<1> HIDE DEF p
<1>3. Cardinality(InQueue(p, c)) = Of(j, c)
  <2>1. CASE j.client = c
    BY <1>1, <1>2, <2>1, UniformQueue DEF Of
  <2>2. CASE j.client # c
    BY <1>1, <1>2, <2>2, UniformQueue DEF Of
  <2> QED  BY <2>1, <2>2
<1>4. Cardinality(InQueue(p \o q, c)) = Cardinality(InQueue(p, c)) + Cardinality(InQueue(q, c))
  BY <1>1, JoinedQueues, Zenon
<1>5. p \o q \in Seq(Job)
  BY <1>1, ConcatProperties, Zenon
<1> QED  BY <1>3, <1>4, <1>5, Zenon DEF p

(* What is left of a queue without its first jobs.                         *)
LEMMA CutQueue ==
  ASSUME NEW q \in Seq(Job), NEW k \in 1 .. Len(q) + 1
  PROVE  LET r == SubSeq(q, k, Len(q))
         IN  /\ r \in Seq(Job) /\ Len(r) = Len(q) - k + 1
             /\ \A i \in 1 .. Len(r) : k + i - 1 \in k .. Len(q) /\ r[i] = q[k + i - 1]
             /\ \A c : Cardinality(InQueue(r, c)) <= Cardinality(InQueue(q, c))
             /\ \A c : (\A i \in 1 .. k - 1 : q[i].client # c) =>
                        Cardinality(InQueue(r, c)) = Cardinality(InQueue(q, c))
<1> DEFINE r == SubSeq(q, k, Len(q))
           p == SubSeq(q, 1, k - 1)
<1>1. Len(q) \in Nat /\ \A i \in 1 .. Len(q) : q[i] \in Job
  BY LenProperties, ElementOfSeq
<1>2. k \in Int /\ k - 1 \in Int /\ 1 \in Int /\ Len(q) \in Int
      /\ (\A i \in k .. Len(q) : q[i] \in Job) /\ (\A i \in 1 .. k - 1 : q[i] \in Job)
  BY <1>1
<1>3. /\ r \in Seq(Job) /\ Len(r) = (IF k <= Len(q) THEN Len(q) - k + 1 ELSE 0)
      /\ \A i \in 1 .. Len(q) - k + 1 : r[i] = q[k + i - 1]
  <2>1. \A i \in k .. Len(q) : q[i] \in Job
    BY <1>2
  <2> QED  BY <1>1, <2>1, SubSeqProperties
<1>4. /\ p \in Seq(Job) /\ Len(p) = (IF 1 <= k - 1 THEN k - 1 - 1 + 1 ELSE 0)
      /\ \A i \in 1 .. k - 1 - 1 + 1 : p[i] = q[1 + i - 1]
  <2>1. \A i \in 1 .. k - 1 : q[i] \in Job
    BY <1>2
  <2> QED  BY <1>1, <2>1, SubSeqProperties
<1>5. q = p \o r
  <2>1. 1 \in 1 .. Len(q) + 1 /\ k - 1 \in 1 - 1 .. Len(q) /\ Len(q) \in k - 1 .. Len(q)
    BY <1>1
  <2>2. SubSeq(q, 1, k - 1) \o SubSeq(q, (k - 1) + 1, Len(q)) = SubSeq(q, 1, Len(q))
    BY <2>1, ConcatAdjacentSubSeq, Zenon
  <2>3. (k - 1) + 1 = k
    BY <1>1
  <2>4. SubSeq(q, 1, Len(q)) = q
    BY SubSeqFull, Zenon
  <2> QED  BY <2>2, <2>3, <2>4, Zenon
<1>6. Len(p) = k - 1 /\ \A i \in 1 .. k - 1 : p[i] = q[i]
  BY <1>1, <1>4
<1>7. Len(r) = Len(q) - k + 1
  BY <1>1, <1>3
<1> HIDE DEF p, r
<1>8. ASSUME NEW c
      PROVE  /\ Cardinality(InQueue(q, c)) =
                  Cardinality(InQueue(p, c)) + Cardinality(InQueue(r, c))
             /\ Cardinality(InQueue(r, c)) <= Cardinality(InQueue(q, c))
  <2>1. p \in Seq(Job) /\ r \in Seq(Job)
    BY <1>3, <1>4
  <2>2. Cardinality(InQueue(p \o r, c)) = Cardinality(InQueue(p, c)) + Cardinality(InQueue(r, c))
    BY <2>1, JoinedQueues
  <2>3. Cardinality(InQueue(r, c)) \in Nat /\ Cardinality(InQueue(p, c)) \in Nat
    BY <2>1, CountsExist, Zenon
  <2>4. Cardinality(InQueue(q, c)) = Cardinality(InQueue(p, c)) + Cardinality(InQueue(r, c))
    BY <1>5, <2>2, Zenon
  <2> QED  BY <2>3, <2>4
<1>9. ASSUME NEW c, \A i \in 1 .. k - 1 : q[i].client # c
      PROVE  Cardinality(InQueue(r, c)) = Cardinality(InQueue(q, c))
  <2>1. Cardinality(InQueue(p, c)) = 0
    BY <1>4, <1>6, <1>9, UniformQueue
  <2>2. Cardinality(InQueue(q, c)) = Cardinality(InQueue(p, c)) + Cardinality(InQueue(r, c))
    BY <1>8
  <2>3. Cardinality(InQueue(r, c)) \in Nat
    BY <1>3, CountsExist, Zenon
  <2> QED  BY <2>1, <2>2, <2>3
<1>10. ASSUME NEW i \in 1 .. Len(r)  PROVE k + i - 1 \in k .. Len(q) /\ r[i] = q[k + i - 1]
  BY <1>1, <1>3, <1>7, <1>10
<1>11. /\ r \in Seq(Job) /\ Len(r) = Len(q) - k + 1
       /\ \A i \in 1 .. Len(r) : k + i - 1 \in k .. Len(q) /\ r[i] = q[k + i - 1]
       /\ \A c : Cardinality(InQueue(r, c)) <= Cardinality(InQueue(q, c))
       /\ \A c : (\A i \in 1 .. k - 1 : q[i].client # c) =>
                  Cardinality(InQueue(r, c)) = Cardinality(InQueue(q, c))
  BY <1>3, <1>7, <1>8, <1>9, <1>10, Zenon
<1> QED  BY <1>11, Zenon DEF r

(* The first job that is left goes to a miner.                             *)
LEMMA CutJob ==
  ASSUME NEW q \in Seq(Job), NEW k \in 1 .. Len(q), NEW c
  PROVE  LET r == SubSeq(q, k + 1, Len(q))
         IN  /\ Of(q[k], c) + Cardinality(InQueue(r, c)) <= Cardinality(InQueue(q, c))
             /\ (\A i \in 1 .. k - 1 : q[i].client # c) =>
                  Cardinality(InQueue(q, c)) = Of(q[k], c) + Cardinality(InQueue(r, c))
<1>1. k \in 1 .. Len(q) + 1 /\ k + 1 \in 1 .. Len(q) + 1 /\ Len(q) \in k .. Len(q) /\ q[k] \in Job
  BY LenProperties, ElementOfSeq
<1>2. SubSeq(q, k, Len(q)) = <<q[k]>> \o SubSeq(q, k + 1, Len(q))
  BY <1>1, SubSeqRecursiveFirst, Zenon
<1>3. SubSeq(q, k + 1, Len(q)) \in Seq(Job)
  BY <1>1, CutQueue, Zenon
<1>4. /\ Cardinality(InQueue(SubSeq(q, k, Len(q)), c)) <= Cardinality(InQueue(q, c))
      /\ (\A i \in 1 .. k - 1 : q[i].client # c) =>
           Cardinality(InQueue(SubSeq(q, k, Len(q)), c)) = Cardinality(InQueue(q, c))
  BY <1>1, CutQueue, Zenon
<1>5. Cardinality(InQueue(<<q[k]>> \o SubSeq(q, k + 1, Len(q)), c)) =
        Of(q[k], c) + Cardinality(InQueue(SubSeq(q, k + 1, Len(q)), c))
  BY <1>1, <1>3, FrontJob, Zenon
<1> QED  BY <1>2, <1>4, <1>5, Zenon

(* Only what miner m has may differ.                                       *)
ExceptAt(w1, w, m) == \A x \in Miner : x # m => w1[x] = w[x]

Balance(w1, w, m, c) ==
  Cardinality(AtMiners(w1, c)) + Of(w[m], c) = Cardinality(AtMiners(w, c)) + Of(w1[m], c)

(* What a miner has counts for its client.                                 *)
LEMMA MinerTakes ==
  ASSUME NEW w, NEW w1, NEW m \in Miner, NEW c, ExceptAt(w1, w, m)
  PROVE  Balance(w1, w, m, c)
<1> DEFINE A == AtMiners(w, c)
           B == AtMiners(w1, c)
           D == A \ {m}
<1>1. \A x \in Miner : /\ x \in A <=> w[x] \in Job /\ w[x].client = c
                       /\ x \in B <=> w1[x] \in Job /\ w1[x].client = c
  BY Zenon DEF AtMiners
<1>2. A \subseteq Miner /\ B \subseteq Miner
  BY Zenon DEF AtMiners
<1> HIDE DEF A, B, Balance
<1>3. /\ A = (IF w[m] \in Job /\ w[m].client = c THEN D \cup {m} ELSE D)
      /\ B = (IF w1[m] \in Job /\ w1[m].client = c THEN D \cup {m} ELSE D)
  BY <1>1, <1>2 DEF ExceptAt
<1>4. IsFiniteSet(D)
  <2>1. D \in SUBSET Miner /\ IsFiniteSet(Miner)
    BY <1>2, MiningAssumption, Zenon
  <2> QED  BY <2>1, FS_Subset, Zenon
<1>5. Cardinality(D) \in Nat
  BY <1>4, FS_CardinalityType, Zenon
<1>6. Cardinality(D \cup {m}) = Cardinality(D) + 1
  <2>1. m \notin D
    BY Zenon
  <2> HIDE DEF D
  <2> QED  BY <1>4, <2>1, FS_AddElement, Zenon
<1> HIDE DEF D
<1>7. Cardinality(A) = Cardinality(D) + Of(w[m], c)
  BY <1>3, <1>5, <1>6 DEF Of
<1>8. Cardinality(B) = Cardinality(D) + Of(w1[m], c)
  BY <1>3, <1>5, <1>6 DEF Of
<1>9. Of(w1[m], c) \in Nat /\ Of(w[m], c) \in Nat
  BY DEF Of
<1> QED  BY <1>5, <1>7, <1>8, <1>9 DEF A, B, Balance

-----------------------------------------------------------------------------
(* The jobs of a request.                                                  *)

(* The jobs that a request is split into are of its client, do not reach   *)
(* beyond its range unless they never end, and cover the range.            *)
LEMMA PartitionCovers ==
  ASSUME NEW c \in Client, NEW p, p = partitionJob(c)
  PROVE  /\ p \in Seq(Job) /\ Len(p) \in Nat /\ Len(p) >= 1
         /\ \A i \in 1 .. Len(p) :
              p[i].client = c /\ (p[i].upper < Max => p[i].upper <= Upper[c])
         /\ \A n \in 0 .. Upper[c] : \E i \in 1 .. Len(p) : n \in p[i].lower .. p[i].upper
<1> DEFINE U == Upper[c]
           size == (U + 1) % (Max + 1)
           k == numOfMiner
           d == size \div k
           whole == [client |-> c, lower |-> 0, upper |-> U]
           part == [i \in 1 .. k |->
                      [client |-> c, lower |-> (i - 1) * d,
                       upper |-> IF i = k THEN U ELSE (i * d - 1) % (Max + 1)]]
<1>1. p = IF size <= Threshold THEN <<whole>> ELSE part
  BY Zenon DEF partitionJob
<1>2. k \in Nat /\ k > 0
  <2> DEFINE T == {m \in Miner : minerCurrWork[m] # Absent}
  <2>1. T \in SUBSET Miner /\ IsFiniteSet(Miner)
    BY MiningAssumption, Zenon
  <2> HIDE DEF T
  <2>2. IsFiniteSet(T)
    BY <2>1, FS_Subset, Zenon
  <2>3. Cardinality(T) \in Nat
    BY <2>2, FS_CardinalityType, Zenon
  <2>4. k = IF Cardinality(T) = 0 THEN 1 ELSE Cardinality(T)
    BY Zenon DEF numOfMiner, T
  <2> QED  BY <2>3, <2>4
<1>3. Max \in Nat /\ U \in Nat /\ U <= Max /\ U \in Uint64 /\ Threshold \in Nat /\ 0 \in Uint64
  BY MiningAssumption DEF Uint64
<1> HIDE DEF k, U
<1>4. CASE size <= Threshold
  <2>1. p = <<whole>> /\ whole \in Job
    BY <1>1, <1>3, <1>4 DEF Job
  <2>2. p \in Seq(Job) /\ Len(p) = 1 /\ p[1] = whole
    BY <2>1
  <2> HIDE DEF whole
  <2>3. \A i \in 1 .. Len(p) : p[i] = whole
    BY <2>2
  <2> QED  BY <1>3, <2>2, <2>3 DEF whole, U
<1>5. CASE ~(size <= Threshold)
  <2>1. U < Max /\ size = U + 1
    <3>1. CASE U = Max
      <4>1. size = 0
        BY <1>3, <3>1
      <4> QED  BY <1>3, <1>5, <4>1
    <3>2. CASE U < Max
      BY <1>3, <3>2
    <3> QED  BY <1>3, <3>1, <3>2
  <2>2. size \in Nat
    BY <1>3, <2>1
  <2> HIDE DEF size
  <2>3. ASSUME NEW i \in 0 .. k  PROVE d \in Nat /\ i * d \in Nat /\ i * d <= size
    BY <1>2, <2>2, <2>3, PartsFit
  <2>4. d \in Nat
    BY <1>2, <2>3
  <2> HIDE DEF d
  <2>5. p = part
    BY <1>1, <1>5, Zenon
  <2>6. ASSUME NEW i \in 1 .. k, i # k
        PROVE  /\ (i * d - 1) % (Max + 1) \in Uint64
               /\ (i * d - 1) % (Max + 1) < Max => (i * d - 1) % (Max + 1) <= U
               /\ i * d > 0 => (i * d - 1) % (Max + 1) = i * d - 1
    <3> DEFINE e == i * d
    <3>1. e \in Nat /\ e <= U + 1
      BY <1>2, <2>1, <2>3
    <3> HIDE DEF e
    <3>2. CASE e = 0
      <4>1. (e - 1) % (Max + 1) = Max
        BY <1>3, <3>2
      <4> QED  BY <1>3, <3>2, <4>1 DEF e, Uint64
    <3>3. CASE e > 0
      <4>1. (e - 1) % (Max + 1) = e - 1
        BY <1>3, <2>1, <3>1, <3>3
      <4> QED  BY <1>3, <3>1, <3>3, <4>1 DEF e, Uint64
    <3> QED  BY <3>1, <3>2, <3>3
  <2>7. ASSUME NEW i \in 1 .. k
        PROVE  /\ part[i] \in Job /\ part[i].client = c /\ part[i].lower = (i - 1) * d
               /\ part[i].upper = IF i = k THEN U ELSE (i * d - 1) % (Max + 1)
               /\ part[i].upper < Max => part[i].upper <= U
    <3>1. i - 1 \in 0 .. k /\ i \in 0 .. k
      BY <1>2
    <3>2. (i - 1) * d \in Nat /\ (i - 1) * d <= Max
      BY <1>3, <2>1, <2>3, <3>1
    <3>3. (i - 1) * d \in Uint64
      BY <1>3, <3>2 DEF Uint64
    <3> DEFINE x == (i - 1) * d
               y == IF i = k THEN U ELSE (i * d - 1) % (Max + 1)
    <3>4. y \in Uint64 /\ (y < Max => y <= U)
      BY <1>3, <2>6
    <3>5. part[i] = [client |-> c, lower |-> x, upper |-> y]
      BY Zenon
    <3> HIDE DEF x, y, part
    <3>6. x \in Uint64
      BY <3>3 DEF x
    <3>7. part[i] \in Job /\ part[i].client = c /\ part[i].lower = x /\ part[i].upper = y
      BY <3>4, <3>5, <3>6 DEF Job
    <3> QED  BY <3>4, <3>7, Zenon DEF x, y
  <2>8. part \in Seq(Job) /\ Len(part) = k
    <3>1. part \in [1 .. k -> Job]
      <4>1. \A i \in 1 .. k : part[i] \in Job
        BY <2>7
      <4>2. DOMAIN part = 1 .. k /\ part = [i \in DOMAIN part |-> part[i]]
        BY Zenon
      <4> HIDE DEF part
      <4> QED  BY <4>1, <4>2
    <3> HIDE DEF part
    <3> QED  BY <1>2, <3>1
  <2> HIDE DEF part
  <2>9. ASSUME NEW n \in 0 .. U  PROVE \E i \in 1 .. k : n \in part[i].lower .. part[i].upper
    <3> DEFINE T == {i \in 1 .. k : i = k \/ n < i * d}
    <3>1. T \in SUBSET Nat /\ T # {}
      BY <1>2
    <3> HIDE DEF T
    <3>2. PICK i \in T : \A j \in T : i <= j
      BY <3>1, LeastNat, Zenon
    <3>3. i \in 1 .. k /\ (i = k \/ n < i * d)
      BY <3>2 DEF T
    <3>4. (i - 1) * d <= n
      <4>1. CASE i = 1
        <5>1. (i - 1) * d = 0
          BY <2>4, <4>1
        <5> QED  BY <1>3, <2>9, <5>1
      <4>2. CASE i # 1
        <5>1. i - 1 \in 1 .. k /\ ~(i <= i - 1)
          BY <1>2, <3>3, <4>2
        <5>2. i - 1 \notin T
          BY <3>2, <5>1
        <5>3. ~(n < (i - 1) * d)
          BY <5>1, <5>2 DEF T
        <5>4. (i - 1) * d \in Nat /\ n \in Nat
          BY <1>2, <1>3, <2>3, <2>9, <5>1
        <5> QED  BY <5>3, <5>4
      <4> QED  BY <4>1, <4>2
    <3>5. n <= part[i].upper
      <4>1. CASE i = k
        BY <1>3, <2>7, <2>9, <3>3, <4>1
      <4>2. CASE i # k
        <5>1. n < i * d /\ i * d \in Nat /\ n \in Nat
          BY <1>2, <1>3, <2>3, <2>9, <3>3, <4>2
        <5>2. part[i].upper = (i * d - 1) % (Max + 1)
          BY <2>7, <3>3, <4>2
        <5>3. i * d > 0
          BY <5>1
        <5>4. part[i].upper = i * d - 1
          BY <2>6, <3>3, <4>2, <5>2, <5>3
        <5> QED  BY <5>1, <5>4
      <4> QED  BY <4>1, <4>2
    <3>6. part[i].lower = (i - 1) * d /\ part[i].upper \in Int /\ (i - 1) * d \in Int
      <4>1. part[i] \in Job /\ part[i].lower = (i - 1) * d
        BY <2>7, <3>3
      <4>2. part[i].lower \in Uint64 /\ part[i].upper \in Uint64
        BY <4>1 DEF Job
      <4> QED  BY <1>3, <4>1, <4>2 DEF Uint64
    <3>7. n \in Int
      BY <1>3, <2>9
    <3> QED  BY <3>3, <3>4, <3>5, <3>6, <3>7
  <2>10. \A i \in 1 .. k : part[i].client = c /\ (part[i].upper < Max => part[i].upper <= U)
    BY <2>7
  <2> QED  BY <1>2, <2>5, <2>8, <2>9, <2>10 DEF U
<1> QED  BY <1>4, <1>5

-----------------------------------------------------------------------------
(* What happens to the jobs.                                               *)

(* The counts of jobs are numbers, and with none there is no job.          *)
LEMMA NoJobs ==
  ASSUME NEW q \in Seq(Job), NEW w, NEW c
  PROVE  /\ Count(q, w, c) \in Nat
         /\ Count(q, w, c) = 0 => \A j \in Pool(q, w) : j.client # c
<1>1. /\ IsFiniteSet(InQueue(q, c)) /\ Cardinality(InQueue(q, c)) \in Nat
      /\ IsFiniteSet(AtMiners(w, c)) /\ Cardinality(AtMiners(w, c)) \in Nat
  BY CountsExist, Zenon
<1>2. ASSUME Count(q, w, c) = 0  PROVE \A j \in Pool(q, w) : j.client # c
  <2>1. Cardinality(InQueue(q, c)) = 0 /\ Cardinality(AtMiners(w, c)) = 0
    BY <1>1, <1>2 DEF Count
  <2>2. InQueue(q, c) = {} /\ AtMiners(w, c) = {}
    BY <1>1, <2>1, FS_EmptySet, Zenon
  <2> QED  BY <2>2 DEF InQueue, AtMiners, Pool
<1> QED  BY <1>1, <1>2 DEF Count

(* A job is in the queue or at a miner.                                    *)
LEMMA PoolCases ==
  ASSUME NEW q, NEW w, NEW j
  PROVE  j \in Pool(q, w) <=> \/ \E i \in 1 .. Len(q) : j = q[i]
                              \/ j \in Job /\ \E m \in Miner : w[m] = j
  BY DEF Pool

(* Jobs move, or are dropped when their client is gone.                    *)
Moved(cl, q, w, q1, w1) ==
  /\ Pool(q1, w1) \subseteq Pool(q, w)
  /\ \A j \in Pool(q, w) : cl[j.client] # Nil => j \in Pool(q1, w1)
  /\ \A c \in Client : /\ Count(q1, w1, c) <= Count(q, w, c)
                       /\ cl[c] # Nil => Count(q1, w1, c) = Count(q, w, c)

(* That is fine, as long as the server finds each job of the others.       *)
LEMMA MovedJobs ==
  ASSUME NEW cl, NEW q \in Seq(Job), NEW w, NEW rep, NEW q1 \in Seq(Job), NEW w1,
         JobsOK(cl, q, w, rep), Moved(cl, q, w, q1, w1)
  PROVE  JobsOK(cl, q1, w1, rep)
<1>1. Accounted(cl, q1, w1, rep)
  <2>1. \A c \in Client : Count(q1, w1, c) \in Nat
    BY NoJobs, Zenon
  <2> QED  BY <2>1 DEF JobsOK, Accounted, Moved
<1>2. Fits(Pool(q1, w1))
  BY Zenon DEF JobsOK, Fits, Moved
<1>3. AllSearched(cl, Pool(q1, w1))
  BY Zenon DEF JobsOK, AllSearched, Searched, Covers, Moved
<1> QED  BY <1>1, <1>2, <1>3, Zenon DEF JobsOK

(* Nothing is dropped.                                                     *)
LEMMA SameJobs ==
  ASSUME NEW cl, NEW q \in Seq(Job), NEW w, NEW rep, NEW q1 \in Seq(Job), NEW w1,
         JobsOK(cl, q, w, rep), Pool(q1, w1) = Pool(q, w),
         \A c : Count(q1, w1, c) = Count(q, w, c)
  PROVE  JobsOK(cl, q1, w1, rep)
<1>1. \A c \in Client : Count(q, w, c) \in Nat
  BY NoJobs, Zenon
<1>2. \A c \in Client : Count(q1, w1, c) <= Count(q, w, c)
  BY <1>1
<1>3. Moved(cl, q, w, q1, w1)
  BY <1>2, Zenon DEF Moved
<1> QED  BY <1>3, MovedJobs, Zenon

(* A miner without a job still has none.                                   *)
LEMMA JobsKept ==
  ASSUME NEW cl, NEW q \in Seq(Job), NEW w \in [Miner -> Job \cup {Nil, Absent}], NEW rep,
         NEW m \in Miner, NEW v, w[m] \notin Job, v \notin Job,
         JobsOK(cl, q, w, rep)
  PROVE  JobsOK(cl, q, [w EXCEPT ![m] = v], rep)
<1> DEFINE w1 == [w EXCEPT ![m] = v]
<1>1. w1[m] = v /\ \A x \in Miner : x # m => w1[x] = w[x]
  OBVIOUS
<1>2. \A c : Count(q, w1, c) = Count(q, w, c)
  <2>1. ASSUME NEW c  PROVE Count(q, w1, c) = Count(q, w, c)
    <3>1. Cardinality(AtMiners(w1, c)) + Of(w[m], c) = Cardinality(AtMiners(w, c)) + Of(v, c)
      <4> HIDE DEF w1
      <4>1. ExceptAt(w1, w, m)
        BY <1>1, Zenon DEF ExceptAt
      <4>2. Balance(w1, w, m, c)
        BY <4>1, MinerTakes, Zenon
      <4> QED  BY <1>1, <4>2, Zenon DEF Balance
    <3>2. Of(v, c) = 0 /\ Of(w[m], c) = 0
      BY Zenon DEF Of
    <3>3. Cardinality(AtMiners(w1, c)) \in Nat /\ Cardinality(AtMiners(w, c)) \in Nat
      BY CountsExist, Zenon
    <3> HIDE DEF w1
    <3>4. Cardinality(AtMiners(w1, c)) = Cardinality(AtMiners(w, c))
      BY <3>1, <3>2, <3>3
    <3> QED  BY <3>4, Zenon DEF Count
  <2> QED  BY <2>1, Zenon
<1> HIDE DEF w1
<1>3. Pool(q, w1) = Pool(q, w)
  <2>1. {j \in Job : \E x \in Miner : w1[x] = j} = {j \in Job : \E x \in Miner : w[x] = j}
    BY <1>1
  <2> QED  BY <2>1, Zenon DEF Pool
<1>4. JobsOK(cl, q, w1, rep)
  BY <1>2, <1>3, SameJobs, Zenon
<1> QED  BY <1>4 DEF w1

(* The job of a lost miner goes back to the queue.                         *)
LEMMA JobsBack ==
  ASSUME NEW cl, NEW q \in Seq(Job), NEW w \in [Miner -> Job \cup {Nil, Absent}], NEW rep,
         NEW m \in Miner, NEW v, w[m] \in Job, v \notin Job,
         JobsOK(cl, q, w, rep)
  PROVE  JobsOK(cl, <<w[m]>> \o q, [w EXCEPT ![m] = v], rep)
<1> DEFINE w1 == [w EXCEPT ![m] = v]
           q1 == <<w[m]>> \o q
<1>1. w1[m] = v /\ \A x \in Miner : x # m => w1[x] = w[x]
  OBVIOUS
<1>2. q1 \in Seq(Job) /\ \A c : Count(q1, w1, c) = Count(q, w, c)
  <2>1. ASSUME NEW c  PROVE q1 \in Seq(Job) /\ Count(q1, w1, c) = Count(q, w, c)
    <3>1. Cardinality(AtMiners(w1, c)) + Of(w[m], c) = Cardinality(AtMiners(w, c)) + Of(v, c)
      <4> HIDE DEF w1
      <4>1. ExceptAt(w1, w, m)
        BY <1>1, Zenon DEF ExceptAt
      <4>2. Balance(w1, w, m, c)
        BY <4>1, MinerTakes, Zenon
      <4> QED  BY <1>1, <4>2, Zenon DEF Balance
    <3>2. q1 \in Seq(Job) /\ Cardinality(InQueue(q1, c)) = Of(w[m], c) + Cardinality(InQueue(q, c))
      BY FrontJob, Zenon
    <3>3. Of(v, c) = 0 /\ Of(w[m], c) \in Nat
      BY DEF Of
    <3>4. /\ Cardinality(AtMiners(w1, c)) \in Nat /\ Cardinality(AtMiners(w, c)) \in Nat
          /\ Cardinality(InQueue(q, c)) \in Nat
      BY CountsExist, Zenon
    <3> HIDE DEF w1, q1
    <3> QED  BY <3>1, <3>2, <3>3, <3>4 DEF Count
  <2> QED  BY <2>1, Zenon
<1>3. Len(q) \in Nat /\ Len(q1) = Len(q) + 1 /\ q1[1] = w[m] /\ \A i \in 1 .. Len(q) : q1[i + 1] = q[i]
  <2>1. <<w[m]>> \in Seq(Job) /\ Len(<<w[m]>>) = 1 /\ <<w[m]>>[1] = w[m]
    OBVIOUS
  <2>2. Len(q) \in Nat
    BY LenProperties
  <2> DEFINE p == <<w[m]>>
  <2>3. Len(p \o q) = Len(p) + Len(q) /\
        \A i \in 1 .. Len(p) + Len(q) : (p \o q)[i] = IF i <= Len(p) THEN p[i] ELSE q[i - Len(p)]
    <3> HIDE DEF p
    <3>1. p \in Seq(Job)
      BY <2>1 DEF p
    <3> QED  BY <3>1, ConcatProperties, Zenon
  <2>4. Len(p) = 1 /\ p[1] = w[m] /\ q1 = p \o q
    BY <2>1
  <2> HIDE DEF p, q1
  <2> QED  BY <2>2, <2>3, <2>4
<1> HIDE DEF w1, q1
<1>4. Pool(q1, w1) = Pool(q, w)
  <2>1. \A j \in {q1[i] : i \in 1 .. Len(q1)} : j = w[m] \/ j \in {q[i] : i \in 1 .. Len(q)}
    <3>1. ASSUME NEW i \in 1 .. Len(q1)  PROVE q1[i] = w[m] \/ q1[i] \in {q[k] : k \in 1 .. Len(q)}
      <4>1. CASE i = 1
        BY <1>3, <4>1
      <4>2. CASE i # 1
        <5>1. i - 1 \in 1 .. Len(q) /\ (i - 1) + 1 = i
          BY <1>3, <3>1, <4>2
        <5>2. q1[i] = q[i - 1]
          BY <1>3, <5>1
        <5> QED  BY <5>1, <5>2, Zenon
      <4> QED  BY <4>1, <4>2
    <3> QED  BY <3>1
  <2>2. w[m] \in {q1[i] : i \in 1 .. Len(q1)} /\ \A i \in 1 .. Len(q) : q[i] \in {q1[k] : k \in 1 .. Len(q1)}
    <3>1. 1 \in 1 .. Len(q1) /\ \A i \in 1 .. Len(q) : i + 1 \in 1 .. Len(q1)
      BY <1>3
    <3> QED  BY <1>3, <3>1
  <2>3. \A j \in Job : (\E x \in Miner : w1[x] = j) => \E x \in Miner : w[x] = j
    BY <1>1
  <2>4. \A j \in Job : (\E x \in Miner : w[x] = j) => j = w[m] \/ \E x \in Miner : w1[x] = j
    BY <1>1
  <2>5. ASSUME NEW j \in Pool(q1, w1)  PROVE j \in Pool(q, w)
    BY <2>1, <2>3, <2>5, Zenon DEF Pool
  <2>6. ASSUME NEW j \in Pool(q, w)  PROVE j \in Pool(q1, w1)
    <3>1. CASE j \in {q[i] : i \in 1 .. Len(q)}
      BY <2>2, <3>1, Zenon DEF Pool
    <3>2. CASE j \in Job /\ \E x \in Miner : w[x] = j
      BY <2>2, <2>4, <3>2, Zenon DEF Pool
    <3> QED  BY <2>6, <3>1, <3>2, Zenon DEF Pool
  <2> QED  BY <2>5, <2>6, Zenon
<1>5. JobsOK(cl, q1, w1, rep)
  BY <1>2, <1>4, SameJobs, Zenon
<1> QED  BY <1>5 DEF w1, q1

(* The jobs of clients that are gone are dropped.                          *)
LEMMA JobsDropped ==
  ASSUME NEW cl, NEW q \in Seq(Job), NEW w, NEW rep, NEW k \in 1 .. Len(q) + 1,
         \A i \in 1 .. k - 1 : cl[q[i].client] = Nil,
         JobsOK(cl, q, w, rep)
  PROVE  SubSeq(q, k, Len(q)) \in Seq(Job) /\ JobsOK(cl, SubSeq(q, k, Len(q)), w, rep)
<1> DEFINE r == SubSeq(q, k, Len(q))
<1>1. Len(q) \in Nat
  BY LenProperties
<1>2. /\ r \in Seq(Job) /\ Len(r) = Len(q) - k + 1
      /\ \A i \in 1 .. Len(r) : k + i - 1 \in k .. Len(q) /\ r[i] = q[k + i - 1]
      /\ \A c : Cardinality(InQueue(r, c)) <= Cardinality(InQueue(q, c))
      /\ \A c : (\A i \in 1 .. k - 1 : q[i].client # c) =>
                 Cardinality(InQueue(r, c)) = Cardinality(InQueue(q, c))
  BY CutQueue, Zenon
<1> HIDE DEF r
<1>3. ASSUME NEW c \in Client
      PROVE  /\ Count(r, w, c) <= Count(q, w, c)
             /\ cl[c] # Nil => Count(r, w, c) = Count(q, w, c)
  <2>1. /\ Cardinality(InQueue(r, c)) \in Nat /\ Cardinality(InQueue(q, c)) \in Nat
        /\ Cardinality(AtMiners(w, c)) \in Nat
    BY <1>2, CountsExist, Zenon
  <2>2. cl[c] # Nil => \A i \in 1 .. k - 1 : q[i].client # c
    BY Zenon
  <2>3. Cardinality(InQueue(r, c)) <= Cardinality(InQueue(q, c))
    BY <1>2, Zenon
  <2>4. cl[c] # Nil => Cardinality(InQueue(r, c)) = Cardinality(InQueue(q, c))
    BY <1>2, <2>2, Zenon
  <2> QED  BY <2>1, <2>3, <2>4 DEF Count
<1>4. ASSUME NEW i \in 1 .. Len(q), cl[q[i].client] # Nil  PROVE q[i] \in {r[x] : x \in 1 .. Len(r)}
  <2>1. i \notin 1 .. k - 1
    BY <1>4, Zenon
  <2>2. i - k + 1 \in 1 .. Len(r) /\ k + (i - k + 1) - 1 = i
    BY <1>1, <1>2, <1>4, <2>1
  <2>3. r[i - k + 1] = q[i]
    BY <1>2, <2>2
  <2> QED  BY <2>2, <2>3, Zenon
<1>5. \A i \in 1 .. Len(r) : r[i] \in {q[x] : x \in 1 .. Len(q)}
  <2>1. ASSUME NEW i \in 1 .. Len(r)  PROVE r[i] \in {q[x] : x \in 1 .. Len(q)}
    <3>1. k + i - 1 \in 1 .. Len(q) /\ r[i] = q[k + i - 1]
      BY <1>1, <1>2, <2>1
    <3> QED  BY <3>1, Zenon
  <2> QED  BY <2>1, Zenon
<1>6. Pool(r, w) \subseteq Pool(q, w)
  BY <1>5, Zenon DEF Pool
<1>7. \A j \in Pool(q, w) : cl[j.client] # Nil => j \in Pool(r, w)
  BY <1>4, Zenon DEF Pool
<1>8. Moved(cl, q, w, r, w)
  BY <1>3, <1>6, <1>7, Zenon DEF Moved
<1>9. JobsOK(cl, r, w, rep)
  BY <1>2, <1>8, MovedJobs, Zenon
<1> QED  BY <1>2, <1>9 DEF r

(* The first job that is left goes to a miner that has none.               *)
LEMMA JobTaken ==
  ASSUME NEW cl, NEW q \in Seq(Job), NEW w \in [Miner -> Job \cup {Nil, Absent}], NEW rep,
         NEW k \in 1 .. Len(q), NEW m \in Miner, w[m] \notin Job,
         \A i \in 1 .. k - 1 : cl[q[i].client] = Nil,
         JobsOK(cl, q, w, rep)
  PROVE  /\ SubSeq(q, k + 1, Len(q)) \in Seq(Job)
         /\ JobsOK(cl, SubSeq(q, k + 1, Len(q)), [w EXCEPT ![m] = q[k]], rep)
<1> DEFINE r == SubSeq(q, k + 1, Len(q))
           w1 == [w EXCEPT ![m] = q[k]]
<1>1. Len(q) \in Nat /\ q[k] \in Job /\ k + 1 \in 1 .. Len(q) + 1
  BY LenProperties, ElementOfSeq
<1>2. /\ r \in Seq(Job) /\ Len(r) = Len(q) - (k + 1) + 1
      /\ \A i \in 1 .. Len(r) : (k + 1) + i - 1 \in k + 1 .. Len(q) /\ r[i] = q[(k + 1) + i - 1]
  BY <1>1, CutQueue, Zenon
<1>3. w1[m] = q[k] /\ \A x \in Miner : x # m => w1[x] = w[x]
  OBVIOUS
<1>4. ASSUME NEW c
      PROVE  /\ Of(q[k], c) + Cardinality(InQueue(r, c)) <= Cardinality(InQueue(q, c))
             /\ (\A i \in 1 .. k - 1 : q[i].client # c) =>
                  Cardinality(InQueue(q, c)) = Of(q[k], c) + Cardinality(InQueue(r, c))
  BY CutJob, Zenon
<1> HIDE DEF r, w1
<1>5. ASSUME NEW c \in Client
      PROVE  /\ Count(r, w1, c) <= Count(q, w, c)
             /\ cl[c] # Nil => Count(r, w1, c) = Count(q, w, c)
  <2>1. /\ Cardinality(InQueue(r, c)) \in Nat /\ Cardinality(InQueue(q, c)) \in Nat
        /\ Cardinality(AtMiners(w, c)) \in Nat /\ Cardinality(AtMiners(w1, c)) \in Nat
    BY <1>2, CountsExist, Zenon
  <2>2. cl[c] # Nil => \A i \in 1 .. k - 1 : q[i].client # c
    BY Zenon
  <2>3. /\ Of(q[k], c) + Cardinality(InQueue(r, c)) <= Cardinality(InQueue(q, c))
        /\ cl[c] # Nil => Cardinality(InQueue(q, c)) = Of(q[k], c) + Cardinality(InQueue(r, c))
    BY <1>4, <2>2, Zenon
  <2>4. Cardinality(AtMiners(w1, c)) + Of(w[m], c) = Cardinality(AtMiners(w, c)) + Of(w1[m], c)
    <3>1. ExceptAt(w1, w, m)
      BY <1>3, Zenon DEF ExceptAt
    <3>2. Balance(w1, w, m, c)
      BY <3>1, MinerTakes, Zenon
    <3> QED  BY <3>2, Zenon DEF Balance
  <2>5. Of(w[m], c) = 0 /\ Of(w1[m], c) = Of(q[k], c) /\ Of(q[k], c) \in Nat
    BY <1>3 DEF Of
  <2>6. Cardinality(AtMiners(w1, c)) = Cardinality(AtMiners(w, c)) + Of(q[k], c)
    BY <2>1, <2>4, <2>5
  <2> QED  BY <2>1, <2>3, <2>5, <2>6 DEF Count
<1>6. ASSUME NEW i \in 1 .. Len(q), cl[q[i].client] # Nil
      PROVE  q[i] = q[k] \/ q[i] \in {r[x] : x \in 1 .. Len(r)}
  <2>1. CASE i = k
    BY <2>1, Zenon
  <2>2. CASE i # k
    <3>1. i \notin 1 .. k - 1
      BY <1>6, Zenon
    <3>2. i - k \in 1 .. Len(r) /\ (k + 1) + (i - k) - 1 = i
      BY <1>1, <1>2, <1>6, <2>2, <3>1
    <3>3. r[i - k] = q[i]
      BY <1>2, <3>2
    <3> QED  BY <3>2, <3>3, Zenon
  <2> QED  BY <2>1, <2>2
<1>7. \A i \in 1 .. Len(r) : r[i] \in {q[x] : x \in 1 .. Len(q)}
  <2>1. ASSUME NEW i \in 1 .. Len(r)  PROVE r[i] \in {q[x] : x \in 1 .. Len(q)}
    <3>1. (k + 1) + i - 1 \in 1 .. Len(q) /\ r[i] = q[(k + 1) + i - 1]
      BY <1>1, <1>2, <2>1
    <3> QED  BY <3>1, Zenon
  <2> QED  BY <2>1, Zenon
<1>8. Pool(r, w1) \subseteq Pool(q, w)
  <2>1. q[k] \in {q[x] : x \in 1 .. Len(q)}
    BY Zenon
  <2>2. \A x \in Miner : w1[x] = q[k] \/ w1[x] = w[x]
    BY <1>3, Zenon
  <2>3. ASSUME NEW j \in Job, \E x \in Miner : w1[x] = j  PROVE j \in Pool(q, w)
    <3>1. PICK x \in Miner : w1[x] = j
      BY <2>3
    <3>2. j = q[k] \/ w[x] = j
      BY <2>2, <3>1, Zenon
    <3>3. q[k] \in Pool(q, w)
      BY <2>1, Zenon DEF Pool
    <3>4. w[x] = j => j \in Pool(q, w)
      BY <2>3, Zenon DEF Pool
    <3> QED  BY <3>2, <3>3, <3>4
  <2>4. ASSUME NEW j \in Pool(r, w1)  PROVE j \in Pool(q, w)
    <3>1. CASE \E i \in 1 .. Len(r) : j = r[i]
      BY <1>7, <3>1, Zenon DEF Pool
    <3>2. (\E i \in 1 .. Len(r) : j = r[i]) \/ (j \in Job /\ \E x \in Miner : w1[x] = j)
      BY <2>4, PoolCases
    <3> QED  BY <2>3, <3>1, <3>2, Zenon
  <2> QED  BY <2>4, Zenon
<1>9. \A j \in Pool(q, w) : cl[j.client] # Nil => j \in Pool(r, w1)
  <2>1. \A x \in Miner : w[x] \in Job => w1[x] = w[x]
    BY <1>3, Zenon
  <2>2. \A j \in Job : (\E x \in Miner : w[x] = j) => \E x \in Miner : w1[x] = j
    BY <2>1, Zenon
  <2>3. q[k] \in Pool(r, w1)
    BY <1>1, <1>3, Zenon DEF Pool
  <2>4. ASSUME NEW j \in Pool(q, w), cl[j.client] # Nil  PROVE j \in Pool(r, w1)
    <3>1. CASE \E i \in 1 .. Len(q) : j = q[i]
      <4>1. PICK i \in 1 .. Len(q) : j = q[i]
        BY <3>1
      <4>2. cl[q[i].client] # Nil
        BY <2>4, <4>1, Zenon
      <4>3. q[i] = q[k] \/ q[i] \in {r[x] : x \in 1 .. Len(r)}
        BY <1>6, <4>2
      <4>4. q[i] \in {r[x] : x \in 1 .. Len(r)} => q[i] \in Pool(r, w1)
        BY Zenon DEF Pool
      <4> QED  BY <2>3, <4>1, <4>3, <4>4
    <3>2. CASE j \in Job /\ \E x \in Miner : w[x] = j
      BY <2>2, <3>2, Zenon DEF Pool
    <3>3. (\E i \in 1 .. Len(q) : j = q[i]) \/ (j \in Job /\ \E x \in Miner : w[x] = j)
      BY <2>4, PoolCases
    <3> QED  BY <3>1, <3>2, <3>3, Zenon
  <2> QED  BY <2>4, Zenon
<1>10. Moved(cl, q, w, r, w1)
  BY <1>5, <1>8, <1>9, Zenon DEF Moved
<1>11. JobsOK(cl, r, w1, rep)
  BY <1>2, <1>10, MovedJobs, Zenon
<1> QED  BY <1>2, <1>11 DEF r, w1

(* The loss of a connection that has no job: a client that is forgotten.   *)
LEMMA ClientGone ==
  ASSUME NEW cl \in [Client -> clientStatus \cup {Nil}], NEW q, NEW w, NEW rep, NEW x,
         JobsOK(cl, q, w, rep)
  PROVE  JobsOK([c \in Client |-> IF c = x THEN Nil ELSE cl[c]], q, w, rep \cup {x})
<1> DEFINE cl1 == [c \in Client |-> IF c = x THEN Nil ELSE cl[c]]
<1>1. \A c \in Client : (c = x => cl1[c] = Nil) /\ (c # x => cl1[c] = cl[c])
  OBVIOUS
<1> HIDE DEF cl1
<1>2. Accounted(cl1, q, w, rep \cup {x})
  BY <1>1, Zenon DEF JobsOK, Accounted
<1>3. AllSearched(cl1, Pool(q, w))
  BY <1>1, Zenon DEF JobsOK, AllSearched
<1>4. JobsOK(cl1, q, w, rep \cup {x})
  BY <1>2, <1>3, Zenon DEF JobsOK
<1> QED  BY <1>4 DEF cl1

(* The jobs of a new request.                                              *)
LEMMA NewJobs ==
  ASSUME NEW cl \in [Client -> clientStatus \cup {Nil}], NEW q \in Seq(Job), NEW w, NEW rep,
         NEW c \in Client, c \notin rep, cl[c] = Nil, NEW p, p = partitionJob(c),
         JobsOK(cl, q, w, rep)
  PROVE  LET st == [notFinishedJob |-> Len(p), minHash |-> Max, nonce |-> 0]
         IN  /\ st \in clientStatus /\ q \o p \in Seq(Job)
             /\ JobsOK([cl EXCEPT ![c] = st], q \o p, w, rep)
<1> DEFINE st == [notFinishedJob |-> Len(p), minHash |-> Max, nonce |-> 0]
           cl1 == [cl EXCEPT ![c] = st]
           r == q \o p
<1>1. /\ p \in Seq(Job) /\ Len(p) \in Nat /\ Len(p) >= 1
      /\ \A i \in 1 .. Len(p) : p[i].client = c /\ (p[i].upper < Max => p[i].upper <= Upper[c])
      /\ \A n \in 0 .. Upper[c] : \E i \in 1 .. Len(p) : n \in p[i].lower .. p[i].upper
  BY PartitionCovers, Zenon
<1>2. Max \in Nat /\ Nil \notin clientStatus
  BY MiningAssumption, NilAssumption
<1>3. st \in clientStatus /\ st.notFinishedJob = Len(p) /\ st.minHash = Max
  BY <1>1, <1>2 DEF clientStatus, Uint64
<1>4. cl1[c] = st /\ \A d \in Client : d # c => cl1[d] = cl[d]
  OBVIOUS
<1>5. /\ r \in Seq(Job) /\ Len(r) = Len(q) + Len(p)
      /\ \A i \in 1 .. Len(q) + Len(p) : r[i] = IF i <= Len(q) THEN q[i] ELSE p[i - Len(q)]
  <2>1. p \in Seq(Job)
    BY <1>1
  <2> QED  BY <2>1, ConcatProperties
<1>6. ASSUME NEW d
      PROVE  Cardinality(InQueue(r, d)) = Cardinality(InQueue(q, d)) + Cardinality(InQueue(p, d))
  BY <1>1, JoinedQueues
<1> HIDE DEF st, cl1, r
<1>7. Len(q) \in Nat
  BY LenProperties
<1>8. Accounted(cl1, r, w, rep)
  <2>1. ASSUME NEW d \in Client, d # c
        PROVE  Count(r, w, d) = Count(q, w, d)
    <3>1. Cardinality(InQueue(p, d)) = 0
      BY <1>1, <2>1, UniformQueue
    <3>2. Cardinality(InQueue(q, d)) \in Nat
      BY CountsExist, Zenon
    <3>3. Cardinality(InQueue(r, d)) = Cardinality(InQueue(q, d))
      BY <1>6, <3>1, <3>2
    <3> QED  BY <3>3, Zenon DEF Count
  <2>2. Count(r, w, c) = Len(p)
    <3>1. Cardinality(InQueue(p, c)) = Len(p)
      BY <1>1, UniformQueue
    <3>2. Cardinality(InQueue(q, c)) \in Nat /\ Cardinality(AtMiners(w, c)) \in Nat
      BY CountsExist, Zenon
    <3>3. Count(q, w, c) = 0
      BY Zenon DEF JobsOK, Accounted
    <3> QED  BY <1>1, <1>6, <3>1, <3>2, <3>3 DEF Count
  <2>3. ASSUME NEW d \in Client
        PROVE  /\ d \notin rep => Count(r, w, d) = IF cl1[d] = Nil THEN 0 ELSE cl1[d].notFinishedJob
               /\ cl1[d] # Nil => cl1[d].notFinishedJob > 0
    <3>1. CASE d = c
      BY <1>1, <1>2, <1>3, <1>4, <2>2, <3>1
    <3>2. CASE d # c
      BY <1>4, <2>1, <3>2, Zenon DEF JobsOK, Accounted
    <3> QED  BY <3>1, <3>2
  <2> QED  BY <2>3, Zenon DEF Accounted
<1>9. \A j \in Pool(q, w) : j \in Pool(r, w)
  <2>1. ASSUME NEW i \in 1 .. Len(q)  PROVE q[i] \in Pool(r, w)
    <3>1. i \in 1 .. Len(r) /\ r[i] = q[i]
      BY <1>1, <1>5, <1>7, <2>1
    <3> QED  BY <3>1, PoolCases
  <2>2. ASSUME NEW j \in Pool(q, w)  PROVE j \in Pool(r, w)
    <3>1. (\E i \in 1 .. Len(q) : j = q[i]) \/ (j \in Job /\ \E x \in Miner : w[x] = j)
      BY <2>2, PoolCases
    <3> QED  BY <2>1, <3>1, PoolCases
  <2> QED  BY <2>2, Zenon
<1>10. \A i \in 1 .. Len(p) : p[i] \in Pool(r, w)
  <2>1. ASSUME NEW i \in 1 .. Len(p)  PROVE p[i] \in Pool(r, w)
    <3>1. i + Len(q) \in 1 .. Len(q) + Len(p) /\ ~(i + Len(q) <= Len(q)) /\ (i + Len(q)) - Len(q) = i
      BY <1>1, <1>7, <2>1
    <3>2. i + Len(q) \in 1 .. Len(r) /\ r[i + Len(q)] = p[i]
      BY <1>5, <3>1
    <3> QED  BY <3>2, PoolCases
  <2> QED  BY <2>1, Zenon
<1>11. \A j \in Pool(r, w) : j \in Pool(q, w) \/ \E i \in 1 .. Len(p) : j = p[i]
  <2>1. ASSUME NEW i \in 1 .. Len(r)  PROVE r[i] \in Pool(q, w) \/ \E k \in 1 .. Len(p) : r[i] = p[k]
    <3>1. CASE i <= Len(q)
      <4>1. i \in 1 .. Len(q) /\ r[i] = q[i]
        BY <1>1, <1>5, <1>7, <2>1, <3>1
      <4> QED  BY <4>1, PoolCases
    <3>2. CASE ~(i <= Len(q))
      <4>1. i - Len(q) \in 1 .. Len(p) /\ r[i] = p[i - Len(q)]
        BY <1>1, <1>5, <1>7, <2>1, <3>2
      <4> QED  BY <4>1, Zenon
    <3> QED  BY <3>1, <3>2
  <2>2. ASSUME NEW j \in Pool(r, w)  PROVE j \in Pool(q, w) \/ \E i \in 1 .. Len(p) : j = p[i]
    <3>1. (\E i \in 1 .. Len(r) : j = r[i]) \/ (j \in Job /\ \E x \in Miner : w[x] = j)
      BY <2>2, PoolCases
    <3> QED  BY <2>1, <3>1, PoolCases
  <2> QED  BY <2>2, Zenon
<1>12. Fits(Pool(r, w))
  <2>1. ASSUME NEW i \in 1 .. Len(p), p[i].upper < Max  PROVE p[i].upper <= Upper[p[i].client]
    BY <1>1, <2>1
  <2>2. ASSUME NEW j \in Pool(q, w), j.upper < Max  PROVE j.upper <= Upper[j.client]
    BY <2>2, Zenon DEF JobsOK, Fits
  <2>3. ASSUME NEW j \in Pool(r, w), j.upper < Max  PROVE j.upper <= Upper[j.client]
    BY <1>11, <2>1, <2>2, <2>3
  <2> QED  BY <2>3, Zenon DEF Fits
<1>13. AllSearched(cl1, Pool(r, w))
  <2>1. Searched(st, c, Pool(r, w))
    <3>1. ASSUME NEW n \in 0 .. Upper[c]  PROVE Covers(Pool(r, w), c, n)
      BY <1>1, <1>10, <3>1, Zenon DEF Covers
    <3>2. ~(st.minHash < Max)
      BY <1>2, <1>3
    <3> QED  BY <3>1, <3>2, Zenon DEF Searched
  <2>2. ASSUME NEW d \in Client, d # c, cl[d] # Nil  PROVE Searched(cl[d], d, Pool(r, w))
    <3>1. Searched(cl[d], d, Pool(q, w))
      BY <2>2, Zenon DEF JobsOK, AllSearched
    <3> QED  BY <1>9, <3>1, Zenon DEF Searched, Covers
  <2> QED  BY <1>4, <2>1, <2>2, Zenon DEF AllSearched
<1>14. st \in clientStatus /\ r \in Seq(Job) /\ JobsOK(cl1, r, w, rep)
  BY <1>3, <1>5, <1>8, <1>12, <1>13, Zenon DEF JobsOK
<1> QED  BY <1>14 DEF cl1, r, st

(* A miner gives up its job.                                               *)
LEMMA MinerFreed ==
  ASSUME NEW q \in Seq(Job), NEW w, NEW m \in Miner, NEW w1, w[m] \in Job, w1[m] = Nil,
         ExceptAt(w1, w, m)
  PROVE  /\ \A c : Count(q, w1, c) = Count(q, w, c) - Of(w[m], c)
         /\ Pool(q, w1) \subseteq Pool(q, w)
         /\ \A j \in Pool(q, w) : j = w[m] \/ j \in Pool(q, w1)
<1>1. (\A x \in Miner : x # m => w1[x] = w[x]) /\ Nil \notin Job
  BY NilAssumption, Zenon DEF ExceptAt
<1>2. ASSUME NEW c  PROVE Count(q, w1, c) = Count(q, w, c) - Of(w[m], c)
  <2>1. Balance(w1, w, m, c)
    BY MinerTakes, Zenon
  <2>2. Of(w1[m], c) = 0 /\ Of(w[m], c) \in Nat
    BY <1>1 DEF Of
  <2>3. /\ Cardinality(AtMiners(w1, c)) \in Nat /\ Cardinality(AtMiners(w, c)) \in Nat
        /\ Cardinality(InQueue(q, c)) \in Nat
    BY CountsExist, Zenon
  <2>4. Cardinality(AtMiners(w1, c)) + Of(w[m], c) = Cardinality(AtMiners(w, c)) + Of(w1[m], c)
    BY <2>1, Zenon DEF Balance
  <2> DEFINE x == Cardinality(AtMiners(w1, c))
             y == Cardinality(AtMiners(w, c))
             z == Cardinality(InQueue(q, c))
             o == Of(w[m], c)
             o1 == Of(w1[m], c)
  <2>5. x + o = y + o1 /\ o1 = 0 /\ o \in Nat /\ x \in Nat /\ y \in Nat /\ z \in Nat
    BY <2>2, <2>3, <2>4, Zenon
  <2>6. Count(q, w1, c) = z + x /\ Count(q, w, c) = z + y
    BY Zenon DEF Count
  <2> HIDE DEF x, y, z, o, o1
  <2>7. z + x = z + y - o
    BY <2>5
  <2>8. Count(q, w1, c) = Count(q, w, c) - o
    BY <2>5, <2>6, <2>7
  <2> QED  BY <2>8 DEF o
<1>3. ASSUME NEW j \in Pool(q, w1)  PROVE j \in Pool(q, w)
  <2>1. (\E i \in 1 .. Len(q) : j = q[i]) \/ (j \in Job /\ \E x \in Miner : w1[x] = j)
    BY <1>3, PoolCases
  <2>2. \A x \in Miner : w1[x] \in Job => w1[x] = w[x]
    BY <1>1
  <2> QED  BY <2>1, <2>2, PoolCases
<1>4. ASSUME NEW j \in Pool(q, w), j # w[m]  PROVE j \in Pool(q, w1)
  <2>1. (\E i \in 1 .. Len(q) : j = q[i]) \/ (j \in Job /\ \E x \in Miner : w[x] = j)
    BY <1>4, PoolCases
  <2>2. \A x \in Miner : w[x] # w[m] => w1[x] = w[x]
    BY <1>1
  <2> QED  BY <1>4, <2>1, <2>2, PoolCases
<1> QED  BY <1>2, <1>3, <1>4, Zenon

(* A job is done whose client is gone.                                     *)
LEMMA JobGone ==
  ASSUME NEW cl, NEW q \in Seq(Job), NEW w \in [Miner -> Job \cup {Nil, Absent}], NEW rep,
         NEW m \in Miner, w[m] \in Job, cl[w[m].client] = Nil, JobsOK(cl, q, w, rep)
  PROVE  JobsOK(cl, q, [w EXCEPT ![m] = Nil], rep)
<1> DEFINE w1 == [w EXCEPT ![m] = Nil]
<1>1. /\ \A c : Count(q, w1, c) = Count(q, w, c) - Of(w[m], c)
      /\ Pool(q, w1) \subseteq Pool(q, w)
      /\ \A j \in Pool(q, w) : j = w[m] \/ j \in Pool(q, w1)
  <2>1. w1[m] = Nil /\ ExceptAt(w1, w, m)
    BY DEF ExceptAt
  <2> HIDE DEF w1
  <2> QED  BY <2>1, MinerFreed, Zenon
<1> HIDE DEF w1
<1>2. ASSUME NEW c \in Client
      PROVE  /\ Count(q, w1, c) <= Count(q, w, c)
             /\ cl[c] # Nil => Count(q, w1, c) = Count(q, w, c)
  <2>1. Count(q, w, c) \in Nat
    BY NoJobs, Zenon
  <2>2. Of(w[m], c) \in Nat /\ (cl[c] # Nil => Of(w[m], c) = 0)
    BY DEF Of
  <2>3. Count(q, w1, c) = Count(q, w, c) - Of(w[m], c)
    BY <1>1, Zenon
  <2> QED  BY <2>1, <2>2, <2>3
<1>3. \A j \in Pool(q, w) : cl[j.client] # Nil => j \in Pool(q, w1)
  BY <1>1, Zenon
<1>4. Moved(cl, q, w, q, w1)
  BY <1>1, <1>2, <1>3, Zenon DEF Moved
<1>5. JobsOK(cl, q, w1, rep)
  BY <1>4, MovedJobs, Zenon
<1> QED  BY <1>5 DEF w1

(* Miner m is done with a job of client c, which waits for it.             *)
Finishes(cl, q, w, rep, m, c, st) ==
  /\ cl \in [Client -> clientStatus \cup {Nil}] /\ q \in Seq(Job)
  /\ w \in [Miner -> Job \cup {Nil, Absent}] /\ m \in Miner /\ w[m] \in Job /\ w[m].upper < Max
  /\ c = w[m].client /\ cl[c] # Nil /\ c \notin rep /\ st = Updated(cl[c], Answer(w[m]))
  /\ JobsOK(cl, q, w, rep)

(* With the last job that is done, the minimum of the client is the        *)
(* minimum of its whole range.                                             *)
LEMMA JobDone ==
  ASSUME NEW cl, NEW q, NEW w, NEW rep, NEW m, NEW c, NEW st, Finishes(cl, q, w, rep, m, c, st)
  PROVE  /\ c \in Client /\ st \in clientStatus
         /\ JobsOK([cl EXCEPT ![c] = IF st.notFinishedJob = 0 THEN Nil ELSE st], q,
                   [w EXCEPT ![m] = Nil], rep)
         /\ st.notFinishedJob = 0 => \A n \in 0 .. Upper[c] : st.minHash <= Hash[n]
         /\ st.minHash < Max => st.nonce \in 0 .. Upper[c] /\ Hash[st.nonce] = st.minHash
<1>0. /\ cl \in [Client -> clientStatus \cup {Nil}] /\ q \in Seq(Job)
      /\ w \in [Miner -> Job \cup {Nil, Absent}] /\ m \in Miner /\ w[m] \in Job /\ w[m].upper < Max
      /\ c = w[m].client /\ cl[c] # Nil /\ c \notin rep /\ st = Updated(cl[c], Answer(w[m]))
      /\ JobsOK(cl, q, w, rep)
  BY DEF Finishes
<1> DEFINE w1 == [w EXCEPT ![m] = Nil]
           new == IF st.notFinishedJob = 0 THEN Nil ELSE st
           cl1 == [cl EXCEPT ![c] = new]
           j == w[m]
           a == Answer(w[m])
<1>1. /\ \A d : Count(q, w1, d) = Count(q, w, d) - Of(w[m], d)
      /\ Pool(q, w1) \subseteq Pool(q, w)
      /\ \A k \in Pool(q, w) : k = w[m] \/ k \in Pool(q, w1)
  <2>1. w1[m] = Nil /\ ExceptAt(w1, w, m)
    BY <1>0 DEF ExceptAt
  <2> HIDE DEF w1
  <2> QED  BY <1>0, <2>1, MinerFreed, Zenon
<1>2. j.lower \in Uint64 /\ j.upper \in Uint64 /\ c \in Client /\ j \in Pool(q, w)
  BY <1>0, PoolCases DEF Job
<1>3. cl1[c] = new /\ \A d \in Client : d # c => cl1[d] = cl[d]
  BY <1>0, <1>2
<1>4. /\ a \in Message /\ \A n \in j.lower .. j.upper : a.hash <= Hash[n]
      /\ a.hash < Max => a.nonce \in j.lower .. j.upper /\ Hash[a.nonce] = a.hash
  BY <1>0, <1>2, AnswerIsMinimum, Zenon DEF Answer
<1> HIDE DEF w1, cl1, a
<1>5. /\ st.notFinishedJob = cl[c].notFinishedJob - 1
      /\ st.minHash = (IF a.hash < cl[c].minHash THEN a.hash ELSE cl[c].minHash)
      /\ st.nonce = (IF a.hash < cl[c].minHash THEN a.nonce ELSE cl[c].nonce)
      /\ st = [notFinishedJob |-> st.notFinishedJob, minHash |-> st.minHash, nonce |-> st.nonce]
  BY <1>0 DEF Updated, a
<1>6. /\ Max \in Nat /\ Nil \notin clientStatus /\ Upper[c] \in Nat /\ Upper[c] <= Max
      /\ \A n \in 0 .. Upper[c] : Hash[n] \in Nat
  <2>1. Max \in Nat /\ Upper[c] \in Uint64 /\ (\A n \in Uint64 : Hash[n] \in Uint64)
    BY <1>0, <1>2, MiningAssumption
  <2>2. Upper[c] \in Nat /\ Upper[c] <= Max /\ \A n \in 0 .. Upper[c] : n \in Uint64
    BY <1>0, <2>1 DEF Uint64
  <2>3. \A n \in Uint64 : Hash[n] \in Nat
    BY <1>0, <2>1 DEF Uint64
  <2> QED  BY <1>0, <2>1, <2>2, <2>3, NilAssumption, Zenon
<1>7. /\ a.hash \in Uint64 /\ a.nonce \in Uint64
      /\ cl[c].notFinishedJob \in Nat /\ cl[c].minHash \in Uint64 /\ cl[c].nonce \in Uint64
  BY <1>0, <1>2, <1>4 DEF Message, clientStatus
<1>8. /\ st.minHash \in Nat /\ st.minHash <= cl[c].minHash /\ st.minHash <= a.hash
      /\ a.hash \in Nat /\ cl[c].minHash \in Nat
  BY <1>5, <1>6, <1>7 DEF Uint64
<1>9. /\ Count(q, w, c) = cl[c].notFinishedJob /\ cl[c].notFinishedJob > 0
      /\ Searched(cl[c], c, Pool(q, w)) /\ j.upper <= Upper[c]
  BY <1>0, <1>2, Zenon DEF JobsOK, Accounted, AllSearched, Fits
<1>10. Of(j, c) = 1
  BY <1>0 DEF Of
<1>11. st.notFinishedJob \in Nat /\ Count(q, w1, c) = st.notFinishedJob
  <2>1. Count(q, w1, c) = cl[c].notFinishedJob - 1
    BY <1>0, <1>1, <1>9, <1>10, Zenon
  <2> QED  BY <1>5, <1>7, <1>9, <2>1
<1>12. st \in clientStatus
  <2>1. st.minHash \in Uint64 /\ st.nonce \in Uint64
    BY <1>5, <1>7
  <2> DEFINE x == st.notFinishedJob
             y == st.minHash
             z == st.nonce
  <2>2. st = [notFinishedJob |-> x, minHash |-> y, nonce |-> z] /\ x \in Nat /\ y \in Uint64 /\ z \in Uint64
    BY <1>0, <1>5, <1>11, <2>1
  <2> HIDE DEF x, y, z
  <2> QED  BY <2>2 DEF clientStatus
<1>13. Accounted(cl1, q, w1, rep)
  <2>1. ASSUME NEW d \in Client, d # c  PROVE Count(q, w1, d) = Count(q, w, d)
    <3>1. Of(j, d) = 0
      BY <1>0, <2>1 DEF Of
    <3>2. Count(q, w, d) \in Nat
      BY <1>0, NoJobs, Zenon
    <3> QED  BY <1>0, <1>1, <3>1, <3>2
  <2>2. ASSUME NEW d \in Client
        PROVE  /\ d \notin rep => Count(q, w1, d) = IF cl1[d] = Nil THEN 0 ELSE cl1[d].notFinishedJob
               /\ cl1[d] # Nil => cl1[d].notFinishedJob > 0
    <3>1. CASE d = c
      <4>1. st.notFinishedJob = 0 \/ st.notFinishedJob > 0
        BY <1>11
      <4>2. cl1[d] = (IF st.notFinishedJob = 0 THEN Nil ELSE st) /\ st # Nil
        BY <1>3, <1>6, <1>12, <3>1, Zenon
      <4> QED  BY <1>11, <3>1, <4>1, <4>2, Zenon
    <3>2. CASE d # c
      BY <1>0, <1>3, <2>1, <3>2, Zenon DEF JobsOK, Accounted
    <3> QED  BY <3>1, <3>2, Zenon
  <2> QED  BY <1>0, <2>2, Zenon DEF Accounted
<1>14. Fits(Pool(q, w1))
  BY <1>0, <1>1, Zenon DEF JobsOK, Fits
<1>15. Searched(st, c, Pool(q, w1))
  <2>1. ASSUME NEW n \in 0 .. Upper[c]  PROVE Covers(Pool(q, w1), c, n) \/ st.minHash <= Hash[n]
    <3>1. CASE cl[c].minHash <= Hash[n]
      BY <1>6, <1>8, <2>1, <3>1, AtMost, Zenon
    <3>2. CASE Covers(Pool(q, w), c, n)
      <4>1. PICK k \in Pool(q, w) : k.client = c /\ n \in k.lower .. k.upper
        BY <1>0, <3>2 DEF Covers
      <4>2. CASE k = j
        <5>1. a.hash <= Hash[n]
          BY <1>4, <4>1, <4>2
        <5> QED  BY <1>6, <1>8, <2>1, <5>1, AtMost, Zenon
      <4>3. CASE k # j
        BY <1>0, <1>1, <4>1, <4>3, Zenon DEF Covers
      <4> QED  BY <4>2, <4>3, Zenon
    <3> QED  BY <1>0, <1>9, <2>1, <3>1, <3>2, Zenon DEF Searched
  <2>2. ASSUME st.minHash < Max
        PROVE  st.nonce \in 0 .. Upper[c] /\ Hash[st.nonce] = st.minHash
    <3>1. CASE a.hash < cl[c].minHash
      <4>1. a.nonce \in j.lower .. j.upper /\ Hash[a.nonce] = a.hash
        BY <1>4, <1>5, <2>2, <3>1
      <4>2. st.nonce = a.nonce /\ st.minHash = a.hash
        BY <1>5, <3>1, Zenon
      <4>3. a.nonce \in 0 .. Upper[c]
        BY <1>2, <1>6, <1>9, <4>1 DEF Uint64
      <4> QED  BY <4>1, <4>2, <4>3, Zenon
    <3>2. CASE ~(a.hash < cl[c].minHash)
      BY <1>0, <1>5, <1>9, <2>2, <3>2, Zenon DEF Searched
    <3> QED  BY <3>1, <3>2, Zenon
  <2> QED  BY <1>0, <2>1, <2>2, Zenon DEF Searched
<1>16. AllSearched(cl1, Pool(q, w1))
  <2>1. ASSUME NEW d \in Client, d # c, cl[d] # Nil  PROVE Searched(cl[d], d, Pool(q, w1))
    <3>1. Searched(cl[d], d, Pool(q, w))
      BY <1>0, <2>1, Zenon DEF JobsOK, AllSearched
    <3>2. \A k \in Pool(q, w) : k.client = d => k \in Pool(q, w1)
      BY <1>0, <1>1, <2>1, Zenon
    <3> QED  BY <3>1, <3>2, Zenon DEF Searched, Covers
  <2>2. new # Nil => Searched(new, c, Pool(q, w1))
    BY <1>0, <1>15, Zenon
  <2> HIDE DEF new
  <2> QED  BY <1>0, <1>3, <2>1, <2>2, Zenon DEF AllSearched
<1>17. ASSUME st.notFinishedJob = 0, NEW n \in 0 .. Upper[c]  PROVE st.minHash <= Hash[n]
  <2>1. \A k \in Pool(q, w1) : k.client # c
    BY <1>0, <1>11, <1>17, NoJobs, Zenon
  <2> QED  BY <1>0, <1>15, <1>17, <2>1, Zenon DEF Searched, Covers
<1>18. JobsOK(cl1, q, w1, rep)
  BY <1>0, <1>13, <1>14, <1>16, Zenon DEF JobsOK
<1>19. JobsOK([cl EXCEPT ![c] = new], q, [w EXCEPT ![m] = Nil], rep)
  BY <1>0, <1>18 DEF cl1, w1
<1> HIDE DEF j
<1> QED  BY <1>0, <1>2, <1>12, <1>15, <1>17, <1>19, Zenon DEF Searched

-----------------------------------------------------------------------------
(* The steps of clients, miners and the network.                           *)

(* What happens elsewhere than at miner m.                                 *)
SameAt(m) ==
  /\ minerCurrWork'[m] = minerCurrWork[m] /\ inbox'[m] = inbox[m]
  /\ work'[m] = work[m] /\ sends'[m] = sends[m]
  /\ m \in unOccupiedMiner' <=> m \in unOccupiedMiner
  /\ m \in lost' <=> m \in lost

(* Only the miner of a step has to be looked at.                           *)
LEMMA OneMiner ==
  ASSUME MinersOK, NEW m, \A x \in Miner : x # m => SameAt(x), m \in Miner => AtOK(m)'
  PROVE  MinersOK'
<1>1. ASSUME NEW x \in Miner, x # m  PROVE AtOK(x)'
  <2>1. AtOK(x)
    BY Zenon DEF MinersOK
  <2>2. SameAt(x)
    BY <1>1, Zenon
  <2> QED  BY <2>1, <2>2, Zenon DEF AtOK, MinerOK, SameAt
<1> QED  BY <1>1, Zenon DEF MinersOK

(* The messages.                                                           *)
LEMMA MessageTypes ==
  /\ JoinMsg \in Message /\ RequestMsg \in Message
  /\ JoinMsg.type = "Join" /\ RequestMsg.type = "Request"
<1>1. 0 \in Uint64
  BY MiningAssumption DEF Uint64
<1> QED  BY <1>1 DEF Message, JoinMsg, RequestMsg

(* A client asks.                                                          *)
LEMMA SendRequestStep ==
  ASSUME IInv, NEW c \in Client, SendRequest(c)
  PROVE  IInv'
<1>1. c \in Conn /\ c \notin Miner
  BY MiningAssumption DEF Conn
<1>2. TypeOK'
  <2>1. Append(inbox[c], RequestMsg) \in Seq(Message)
    BY <1>1, MessageTypes DEF IInv, TypeOK
  <2>2. inbox' \in [Conn -> Seq(Message)] /\ sends' \in [Conn -> Nat]
    BY <1>1, <2>1 DEF IInv, TypeOK, SendRequest
  <2> QED  BY <2>2, Zenon DEF IInv, TypeOK, SendRequest, serverVars
<1>3. inbox'[c] # <<>> /\ \A x \in Conn : x # c => inbox'[x] = inbox[x] /\ sends'[x] = sends[x]
  BY <1>1 DEF IInv, TypeOK, SendRequest
<1>4. MinersOK'
  <2>1. \A x \in Miner : SameAt(x)
    BY <1>1, <1>3, Zenon DEF SameAt, SendRequest, serverVars, Conn
  <2> QED  BY <1>1, <2>1, OneMiner, Zenon DEF IInv
<1>5. Left(clients, inbox, reported)'
  BY <1>3, Zenon DEF IInv, TypeOK, Left, SendRequest, serverVars, Conn
<1>6. JobsOK(clients, jobQ, minerCurrWork, reported)' /\ ResultIsMinimum'
  BY Zenon DEF IInv, SendRequest, serverVars, ResultIsMinimum
<1> QED  BY <1>2, <1>4, <1>5, <1>6, Zenon DEF IInv

(* A miner joins.                                                          *)
LEMMA SendJoinStep ==
  ASSUME IInv, NEW m \in Miner, SendJoin(m)
  PROVE  IInv'
<1>1. m \in Conn /\ m \notin Client
  BY MiningAssumption DEF Conn
<1>2. minerCurrWork[m] = Absent /\ inbox[m] = <<>> /\ work[m] = <<>> /\ m \notin unOccupiedMiner
  BY NilAssumption, Zenon DEF IInv, MinersOK, AtOK, MinerOK, SendJoin
<1>3. Append(inbox[m], JoinMsg) = <<JoinMsg>> /\ <<JoinMsg>> \in Seq(Message)
  BY <1>2, MessageTypes
<1>4. /\ inbox' \in [Conn -> Seq(Message)] /\ sends' \in [Conn -> Nat]
      /\ inbox'[m] = <<JoinMsg>> /\ sends'[m] # 0
      /\ \A x \in Conn : x # m => inbox'[x] = inbox[x] /\ sends'[x] = sends[x]
  BY <1>1, <1>3 DEF IInv, TypeOK, SendJoin
<1>5. TypeOK'
  BY <1>4, Zenon DEF IInv, TypeOK, SendJoin, serverVars
<1>6. MinersOK'
  <2>1. \A x \in Miner : x # m => SameAt(x)
    BY <1>4, Zenon DEF SameAt, SendJoin, serverVars, Conn
  <2>2. AtOK(m)'
    <3>1. minerCurrWork'[m] = Absent /\ work'[m] = <<>> /\ m \notin unOccupiedMiner'
      BY <1>2, Zenon DEF SendJoin, serverVars
    <3> QED  BY <1>4, <3>1, NilAssumption, Zenon DEF AtOK, MinerOK
  <2> QED  BY <2>1, <2>2, OneMiner, Zenon DEF IInv
<1>7. Left(clients, inbox, reported)'
  BY <1>1, <1>4, Zenon DEF IInv, Left, SendJoin, serverVars, Conn
<1>8. JobsOK(clients, jobQ, minerCurrWork, reported)' /\ ResultIsMinimum'
  BY Zenon DEF IInv, SendJoin, serverVars, ResultIsMinimum
<1> QED  BY <1>5, <1>6, <1>7, <1>8, Zenon DEF IInv

(* A miner answers: it is still the job that the server thinks it has.     *)
LEMMA MineStep ==
  ASSUME IInv, NEW m \in Miner, Mine(m)
  PROVE  IInv'
<1> DEFINE w == minerCurrWork[m]
<1>1. m \in Conn /\ m \notin Client
  BY MiningAssumption DEF Conn
<1>2. w \in Job /\ inbox[m] = <<>> /\ work[m] = <<w>> /\ m \notin unOccupiedMiner /\ sends[m] # 0
  <2>1. w \in Job \cup {Nil, Absent}
    BY DEF IInv, TypeOK
  <2>2. AtOK(m) /\ m \notin lost /\ work[m] # <<>>
    BY Zenon DEF IInv, MinersOK, Mine
  <2> QED  BY <2>1, <2>2, NilAssumption, Zenon DEF AtOK, MinerOK
<1>3. Head(work[m]) = w /\ Tail(work[m]) = <<>>
  BY <1>2
<1>4. w.upper < Max /\ w.lower \in Uint64 /\ w.upper \in Uint64
  BY <1>2, <1>3 DEF Mine, Job
<1>5. Answer(w) \in Message
  BY <1>4, AnswerIsMinimum, Zenon DEF Answer
<1>6. Append(inbox[m], Answer(w)) = <<Answer(w)>> /\ <<Answer(w)>> \in Seq(Message) /\ <<>> \in Seq(Job)
  BY <1>2, <1>5
<1> HIDE DEF w
<1>7. /\ inbox' = [inbox EXCEPT ![m] = <<Answer(w)>>] /\ work' = [work EXCEPT ![m] = <<>>]
  BY <1>3, <1>6 DEF Mine, Answer
<1>8. /\ inbox' \in [Conn -> Seq(Message)] /\ work' \in [Miner -> Seq(Job)]
      /\ inbox'[m] = <<Answer(w)>> /\ work'[m] = <<>>
      /\ \A x \in Conn : x # m => inbox'[x] = inbox[x]
      /\ \A x \in Miner : x # m => work'[x] = work[x]
  BY <1>1, <1>6, <1>7 DEF IInv, TypeOK
<1>9. TypeOK'
  BY <1>8, Zenon DEF IInv, TypeOK, Mine, serverVars
<1>10. MinersOK'
  <2>1. \A x \in Miner : x # m => SameAt(x)
    BY <1>8, Zenon DEF SameAt, Mine, serverVars, Conn
  <2>2. AtOK(m)'
    <3>1. minerCurrWork'[m] = w /\ m \notin unOccupiedMiner' /\ sends'[m] # 0
      BY <1>2, Zenon DEF Mine, serverVars, w
    <3> QED  BY <1>2, <1>4, <1>8, <3>1, NilAssumption, Zenon DEF AtOK, MinerOK
  <2> QED  BY <2>1, <2>2, OneMiner, Zenon DEF IInv
<1>11. Left(clients, inbox, reported)'
  BY <1>1, <1>8, Zenon DEF IInv, Left, Mine, serverVars, Conn
<1>12. JobsOK(clients, jobQ, minerCurrWork, reported)' /\ ResultIsMinimum'
  BY Zenon DEF IInv, Mine, serverVars, ResultIsMinimum
<1> QED  BY <1>9, <1>10, <1>11, <1>12, Zenon DEF IInv

(* A connection is lost.                                                   *)
LEMMA LoseStep ==
  ASSUME IInv, NEW x \in Conn, Lose(x)
  PROVE  IInv'
<1>1. TypeOK'
  BY Zenon DEF IInv, TypeOK, Lose, serverVars
<1>2. MinersOK'
  <2>1. \A y \in Miner : y # x => SameAt(y)
    BY Zenon DEF SameAt, Lose, serverVars
  <2>2. ASSUME x \in Miner  PROVE AtOK(x)'
    <3>1. AtOK(x)
      BY <2>2, Zenon DEF IInv, MinersOK
    <3>2. x \in lost'
      BY Zenon DEF Lose
    <3> QED  BY <3>1, <3>2, Zenon DEF AtOK, MinerOK, Lose, serverVars
  <2> QED  BY <2>1, <2>2, OneMiner, Zenon DEF IInv
<1>3. /\ Left(clients, inbox, reported)' /\ JobsOK(clients, jobQ, minerCurrWork, reported)'
      /\ ResultIsMinimum'
  BY Zenon DEF IInv, Lose, serverVars, ResultIsMinimum
<1> QED  BY <1>1, <1>2, <1>3, Zenon DEF IInv

-----------------------------------------------------------------------------
(* The steps of the server.                                                *)

(* Read takes the first message of a connection.                           *)
LEMMA ReadsFacts ==
  ASSUME TypeOK, NEW x \in Conn, NEW type, Reads(x, type)
  PROVE  /\ inbox' \in [Conn -> Seq(Message)] /\ inbox'[x] = Tail(inbox[x])
         /\ inbox[x] # <<>> /\ Head(inbox[x]).type = type
         /\ \A y \in Conn : y # x => inbox'[y] = inbox[y]
<1>1. inbox[x] \in Seq(Message) /\ inbox[x] # <<>>
  BY DEF TypeOK, Reads
<1>2. Tail(inbox[x]) \in Seq(Message)
  BY <1>1
<1> QED  BY <1>1, <1>2 DEF TypeOK, Reads

(* The loop visits unoccupied miners.                                      *)
LEMMA AssignFacts ==
  ASSUME Assign
  PROVE  todo' \subseteq unOccupiedMiner'
  BY Zenon DEF Assign

(* What a miner has when a message of it is read.                          *)
LEMMA ReadOfMiner ==
  ASSUME IInv, NEW m \in Miner, inbox[m] # <<>>
  PROVE  /\ sends[m] # 0 /\ work[m] = <<>> /\ Tail(inbox[m]) = <<>>
         /\ \/ minerCurrWork[m] = Absent /\ Head(inbox[m]).type = "Join"
            \/ /\ minerCurrWork[m] \in Job /\ minerCurrWork[m].upper < Max
               /\ Head(inbox[m]) = Answer(minerCurrWork[m]) /\ Head(inbox[m]).type = "Result"
<1> DEFINE w == minerCurrWork[m]
<1>1. AtOK(m) /\ w \in Job \cup {Nil, Absent}
  BY DEF IInv, MinersOK, TypeOK
<1>2. \/ w = Absent /\ inbox[m] = <<JoinMsg>> /\ work[m] = <<>>
      \/ w \in Job /\ inbox[m] = <<Answer(w)>> /\ work[m] = <<>> /\ w.upper < Max
  BY <1>1, NilAssumption, Zenon DEF AtOK, MinerOK
<1>3. sends[m] # 0
  BY <1>1, Zenon DEF AtOK, MinerOK
<1> HIDE DEF w
<1>4. CASE w = Absent /\ inbox[m] = <<JoinMsg>> /\ work[m] = <<>>
  <2>1. Head(inbox[m]) = JoinMsg /\ Tail(inbox[m]) = <<>>
    BY <1>4
  <2> QED  BY <1>3, <1>4, <2>1, MessageTypes, Zenon DEF w
<1>5. CASE w \in Job /\ inbox[m] = <<Answer(w)>> /\ work[m] = <<>> /\ w.upper < Max
  <2>1. Head(inbox[m]) = Answer(w) /\ Tail(inbox[m]) = <<>>
    BY <1>5
  <2>2. w.lower \in Uint64 /\ w.upper \in Uint64
    BY <1>5 DEF Job
  <2>3. Answer(w).type = "Result"
    BY <2>2, AnswerIsMinimum, Zenon DEF Answer
  <2> QED  BY <1>3, <1>5, <2>1, <2>3, Zenon DEF w
<1> QED  BY <1>2, <1>4, <1>5, Zenon

(* A join.                                                                 *)
LEMMA HandleJoinStep ==
  ASSUME IInv, NEW m \in Miner, HandleJoin(m)
  PROVE  IInv'
<1>1. m \in Conn /\ m \notin Client /\ Nil \notin Job /\ Absent \notin Job /\ Nil # Absent
  BY MiningAssumption, NilAssumption DEF Conn
<1>2. /\ inbox' \in [Conn -> Seq(Message)] /\ inbox'[m] = Tail(inbox[m])
      /\ inbox[m] # <<>> /\ Head(inbox[m]).type = "Join"
      /\ \A y \in Conn : y # m => inbox'[y] = inbox[y]
  BY <1>1, ReadsFacts, Zenon DEF IInv, HandleJoin
<1>3. sends[m] # 0 /\ work[m] = <<>> /\ Tail(inbox[m]) = <<>> /\ minerCurrWork[m] = Absent
  BY <1>2, ReadOfMiner, Zenon DEF HandleJoin
<1>4. /\ minerCurrWork' \in [Miner -> Job \cup {Nil, Absent}] /\ minerCurrWork'[m] = Nil
      /\ \A x \in Miner : x # m => minerCurrWork'[x] = minerCurrWork[x]
  BY DEF IInv, TypeOK, HandleJoin
<1>5. todo' \subseteq unOccupiedMiner'
  BY AssignFacts, Zenon DEF HandleJoin
<1>6. TypeOK'
  BY <1>2, <1>4, <1>5, Zenon DEF IInv, TypeOK, HandleJoin
<1>7. MinersOK'
  <2>1. \A x \in Miner : x # m => SameAt(x)
    BY <1>2, <1>4, Zenon DEF SameAt, HandleJoin, Conn
  <2>2. AtOK(m)'
    <3>1. work'[m] = <<>> /\ m \in unOccupiedMiner' /\ sends'[m] # 0 /\ inbox'[m] = <<>>
      BY <1>2, <1>3, Zenon DEF HandleJoin
    <3> QED  BY <1>1, <1>4, <3>1, Zenon DEF AtOK, MinerOK
  <2> QED  BY <2>1, <2>2, OneMiner, Zenon DEF IInv
<1>8. Left(clients, inbox, reported)'
  BY <1>1, <1>2, Zenon DEF IInv, Left, HandleJoin, Conn
<1>9. JobsOK(clients, jobQ, minerCurrWork, reported)'
  <2>1. jobQ \in Seq(Job) /\ minerCurrWork \in [Miner -> Job \cup {Nil, Absent}]
    BY Zenon DEF IInv, TypeOK
  <2>2. JobsOK(clients, jobQ, [minerCurrWork EXCEPT ![m] = Nil], reported)
    BY <1>1, <1>3, <2>1, JobsKept, Zenon DEF IInv
  <2> QED  BY <2>2, Zenon DEF HandleJoin
<1>10. ResultIsMinimum'
  BY Zenon DEF IInv, HandleJoin, ResultIsMinimum
<1> QED  BY <1>6, <1>7, <1>8, <1>9, <1>10, Zenon DEF IInv

(* A request.                                                              *)
LEMMA HandleRequestStep ==
  ASSUME IInv, NEW c \in Client, HandleRequest(c)
  PROVE  IInv'
<1>1. c \in Conn /\ c \notin Miner
  BY MiningAssumption DEF Conn
<1>2. /\ inbox' \in [Conn -> Seq(Message)] /\ inbox[c] # <<>>
      /\ \A y \in Conn : y # c => inbox'[y] = inbox[y]
  BY <1>1, ReadsFacts, Zenon DEF IInv, HandleRequest
<1>3. c \notin reported
  BY <1>2, Zenon DEF IInv, Left
<1>4. jobQ \in Seq(Job) /\ clients \in [Client -> clientStatus \cup {Nil}]
  BY Zenon DEF IInv, TypeOK
<1>5. /\ jobQ' \in Seq(Job) /\ clients' \in [Client -> clientStatus \cup {Nil}]
      /\ \A d \in Client : d # c => clients'[d] = clients[d]
      /\ JobsOK(clients', jobQ', minerCurrWork, reported)
  <2>1. CASE clients[c] = Nil
    <3> DEFINE p == partitionJob(c)
               st == [notFinishedJob |-> Len(p), minHash |-> Max, nonce |-> 0]
    <3>1. /\ st \in clientStatus /\ jobQ \o p \in Seq(Job)
          /\ JobsOK([clients EXCEPT ![c] = st], jobQ \o p, minerCurrWork, reported)
      <4> HIDE DEF p
      <4>1. p = partitionJob(c)
        BY DEF p
      <4> QED  BY <1>3, <1>4, <2>1, <4>1, NewJobs, Zenon DEF IInv
    <3>2. jobQ' = jobQ \o p /\ clients' = [clients EXCEPT ![c] = st]
      BY <2>1, Zenon DEF HandleRequest
    <3> HIDE DEF p, st
    <3>3. [clients EXCEPT ![c] = st] \in [Client -> clientStatus \cup {Nil}]
      BY <1>4, <3>1
    <3>4. \A d \in Client : d # c => clients'[d] = clients[d]
      BY <1>4, <3>2
    <3> QED  BY <3>1, <3>2, <3>3, <3>4, Zenon
  <2>2. CASE clients[c] # Nil
    BY <1>4, <2>2, Zenon DEF IInv, HandleRequest
  <2> QED  BY <2>1, <2>2
<1>6. todo' \subseteq unOccupiedMiner'
  BY AssignFacts, Zenon DEF HandleRequest
<1>7. TypeOK'
  BY <1>2, <1>5, <1>6, Zenon DEF IInv, TypeOK, HandleRequest
<1>8. MinersOK'
  <2>1. \A x \in Miner : SameAt(x)
    BY <1>1, <1>2, Zenon DEF SameAt, HandleRequest, Conn
  <2> QED  BY <1>1, <2>1, OneMiner, Zenon DEF IInv
<1>9. Left(clients, inbox, reported)'
  BY <1>2, <1>3, <1>5, Zenon DEF IInv, Left, HandleRequest, Conn
<1>10. JobsOK(clients, jobQ, minerCurrWork, reported)' /\ ResultIsMinimum'
  BY <1>5, Zenon DEF IInv, HandleRequest, ResultIsMinimum
<1> QED  BY <1>7, <1>8, <1>9, <1>10, Zenon DEF IInv

GoodResult(c, r) ==
  /\ \A n \in 0 .. Upper[c] : r.hash <= Hash[n]
  /\ r.hash < Max => r.nonce \in 0 .. Upper[c] /\ Hash[r.nonce] = r.hash

(* The results that were sent, with one more good one.                     *)
LEMMA OneResult ==
  ASSUME TypeOK, ResultIsMinimum, NEW c \in Client, NEW r \in Result, GoodResult(c, r),
         results' = [results EXCEPT ![c] = Append(@, r)]
  PROVE  results' \in [Client -> Seq(Result)] /\ ResultIsMinimum'
<1>1. results \in [Client -> Seq(Result)] /\ results[c] \in Seq(Result)
  BY DEF TypeOK
<1>2. /\ Append(results[c], r) \in Seq(Result) /\ Len(Append(results[c], r)) = Len(results[c]) + 1
      /\ \A i \in 1 .. Len(results[c]) : Append(results[c], r)[i] = results[c][i]
      /\ Append(results[c], r)[Len(results[c]) + 1] = r /\ Len(results[c]) \in Nat
  BY <1>1, AppendProperties, LenProperties
<1>3. /\ results' \in [Client -> Seq(Result)] /\ results'[c] = Append(results[c], r)
      /\ \A d \in Client : d # c => results'[d] = results[d]
  BY <1>1, <1>2
<1>4. \A d \in Client : \A i \in 1 .. Len(results[d]) : GoodResult(d, results[d][i])
  BY Zenon DEF ResultIsMinimum, GoodResult
<1>5. ASSUME NEW d \in Client, NEW i \in 1 .. Len(results'[d])  PROVE GoodResult(d, results'[d][i])
  <2>1. CASE d # c
    <3>1. results'[d] = results[d]
      BY <1>3, <2>1
    <3> QED  BY <1>4, <1>5, <3>1
  <2>2. CASE d = c /\ i = Len(results[c]) + 1
    BY <1>2, <1>3, <2>2, Zenon
  <2>3. CASE d = c /\ i # Len(results[c]) + 1
    <3>1. i \in 1 .. Len(results[c])
      BY <1>2, <1>3, <1>5, <2>3
    <3>2. results'[c][i] = results[c][i]
      BY <1>2, <1>3, <3>1, Zenon
    <3> QED  BY <1>4, <2>3, <3>1, <3>2
  <2> QED  BY <2>1, <2>2, <2>3
<1>6. ResultIsMinimum'
  BY <1>5, Zenon DEF ResultIsMinimum, GoodResult
<1> QED  BY <1>3, <1>6

(* A result.                                                               *)
LEMMA HandleResultStep ==
  ASSUME IInv, NEW m \in Miner, HandleResult(m)
  PROVE  IInv'
<1> DEFINE w == minerCurrWork[m]
           c == w.client
           st == Updated(clients[c], Answer(w))
           done == st.notFinishedJob = 0
<1>1. m \in Conn /\ m \notin Client /\ Nil \notin Job /\ Nil # Absent
  BY MiningAssumption, NilAssumption DEF Conn
<1>2. /\ inbox' \in [Conn -> Seq(Message)] /\ inbox'[m] = Tail(inbox[m]) /\ inbox[m] # <<>>
      /\ \A y \in Conn : y # m => inbox'[y] = inbox[y]
  BY <1>1, ReadsFacts, Zenon DEF IInv, HandleResult
<1>3. /\ sends[m] # 0 /\ work[m] = <<>> /\ Tail(inbox[m]) = <<>>
      /\ w \in Job /\ w.upper < Max /\ Head(inbox[m]) = Answer(w)
  <2>1. w \in Job
    BY Zenon DEF HandleResult
  <2>2. w # Absent
    BY <2>1, NilAssumption, Zenon
  <2> QED  BY <1>2, <2>2, ReadOfMiner, Zenon
<1>4. c \in Client
  BY <1>3 DEF Job
<1>5. /\ minerCurrWork' \in [Miner -> Job \cup {Nil, Absent}] /\ minerCurrWork'[m] = Nil
      /\ \A x \in Miner : x # m => minerCurrWork'[x] = minerCurrWork[x]
  BY DEF IInv, TypeOK, HandleResult
<1>6. /\ jobQ \in Seq(Job) /\ minerCurrWork \in [Miner -> Job \cup {Nil, Absent}]
      /\ clients \in [Client -> clientStatus \cup {Nil}] /\ JobsOK(clients, jobQ, minerCurrWork, reported)
      /\ TypeOK /\ ResultIsMinimum
  BY Zenon DEF IInv, TypeOK
<1>7. /\ clients' = (IF clients[c] = Nil THEN clients
                    ELSE [clients EXCEPT ![c] = IF clients[c] # Nil /\ done THEN Nil ELSE st])
      /\ results' = (IF (clients[c] # Nil /\ done) /\ c \notin lost
                    THEN [results EXCEPT ![c] =
                           Append(@, [hash |-> st.minHash, nonce |-> st.nonce])]
                    ELSE results)
      /\ minerCurrWork' = [minerCurrWork EXCEPT ![m] = Nil]
  BY <1>3, Zenon DEF HandleResult
<1>8. /\ clients' \in [Client -> clientStatus \cup {Nil}]
      /\ \A d \in Client : d # c => clients'[d] = clients[d]
      /\ JobsOK(clients', jobQ, minerCurrWork', reported)
      /\ results' \in [Client -> Seq(Result)] /\ ResultIsMinimum'
      /\ clients[c] = Nil => clients'[c] = Nil
  <2>1. CASE clients[c] = Nil
    <3>1. clients' = clients /\ results' = results
      BY <1>7, <2>1, Zenon
    <3>2. JobsOK(clients, jobQ, minerCurrWork', reported)
      BY <1>3, <1>6, <1>7, <2>1, JobGone, Zenon
    <3>3. results' \in [Client -> Seq(Result)] /\ ResultIsMinimum'
      BY <1>6, <3>1, Zenon DEF TypeOK, ResultIsMinimum
    <3> QED  BY <1>6, <3>1, <3>2, <3>3, Zenon
  <2>2. CASE clients[c] # Nil
    <3>1. c \notin reported
      BY <1>4, <2>2, Zenon DEF IInv, Left
    <3> DEFINE new == IF done THEN Nil ELSE st
    <3>2. /\ st \in clientStatus
          /\ JobsOK([clients EXCEPT ![c] = new], jobQ, [minerCurrWork EXCEPT ![m] = Nil], reported)
          /\ done => \A n \in 0 .. Upper[c] : st.minHash <= Hash[n]
          /\ st.minHash < Max => st.nonce \in 0 .. Upper[c] /\ Hash[st.nonce] = st.minHash
      <4>1. minerCurrWork[m] \in Job /\ minerCurrWork[m].upper < Max /\ c = minerCurrWork[m].client
        BY <1>3, Zenon
      <4>2. st = Updated(clients[c], Answer(minerCurrWork[m]))
        BY Zenon
      <4> HIDE DEF c, st, w
      <4>3. Finishes(clients, jobQ, minerCurrWork, reported, m, c, st)
        BY <1>6, <2>2, <3>1, <4>1, <4>2, Zenon DEF Finishes
      <4> QED  BY <4>3, JobDone, Zenon
    <3> HIDE DEF w, st
    <3>3. clients' = [clients EXCEPT ![c] = new]
      BY <1>7, <2>2, Zenon
    <3>4. new \in clientStatus \cup {Nil}
      BY <3>2, Zenon
    <3> HIDE DEF new, c
    <3>5. /\ clients' \in [Client -> clientStatus \cup {Nil}]
          /\ \A d \in Client : d # c => clients'[d] = clients[d]
      BY <1>4, <1>6, <3>3, <3>4
    <3>6. JobsOK(clients', jobQ, minerCurrWork', reported)
      BY <1>7, <3>2, <3>3, Zenon
    <3>7. results' \in [Client -> Seq(Result)] /\ ResultIsMinimum'
      <4> DEFINE r == [hash |-> st.minHash, nonce |-> st.nonce]
      <4>1. CASE done /\ c \notin lost
        <5>1. st.minHash \in Uint64 /\ st.nonce \in Uint64
          BY <3>2 DEF clientStatus
        <5>2. r \in Result /\ r.hash = st.minHash /\ r.nonce = st.nonce
          BY <5>1 DEF Result
        <5> HIDE DEF r
        <5>3. results' = [results EXCEPT ![c] = Append(@, r)]
          BY <1>7, <2>2, <4>1, Zenon DEF r
        <5>4. GoodResult(c, r)
          BY <3>2, <4>1, <5>2, Zenon DEF GoodResult
        <5> QED  BY <1>4, <1>6, <5>2, <5>3, <5>4, OneResult, Zenon
      <4>2. CASE ~(done /\ c \notin lost)
        <5>1. results' = results
          BY <1>7, <2>2, <4>2, Zenon
        <5> QED  BY <1>6, <5>1, Zenon DEF TypeOK, ResultIsMinimum
      <4> QED  BY <4>1, <4>2, Zenon
    <3> QED  BY <2>2, <3>5, <3>6, <3>7, Zenon
  <2> QED  BY <2>1, <2>2, Zenon
<1>9. todo' \subseteq unOccupiedMiner'
  BY AssignFacts, Zenon DEF HandleResult
<1>10. TypeOK'
  BY <1>2, <1>5, <1>8, <1>9, Zenon DEF IInv, TypeOK, HandleResult
<1>11. MinersOK'
  <2>1. \A x \in Miner : x # m => SameAt(x)
    BY <1>2, <1>5, Zenon DEF SameAt, HandleResult, Conn
  <2>2. AtOK(m)'
    <3>1. work'[m] = <<>> /\ m \in unOccupiedMiner' /\ sends'[m] # 0 /\ inbox'[m] = <<>>
      BY <1>2, <1>3, Zenon DEF HandleResult
    <3> QED  BY <1>1, <1>5, <3>1, Zenon DEF AtOK, MinerOK
  <2> QED  BY <2>1, <2>2, OneMiner, Zenon DEF IInv
<1>12. Left(clients, inbox, reported)'
  <2> HIDE DEF w, c
  <2> QED  BY <1>1, <1>2, <1>8, Zenon DEF IInv, Left, HandleResult, Conn
<1>13. JobsOK(clients, jobQ, minerCurrWork, reported)'
  BY <1>8, Zenon DEF HandleResult
<1> QED  BY <1>8, <1>10, <1>11, <1>12, <1>13, Zenon DEF IInv

(* A loss is reported.                                                     *)
LEMMA HandleFailureStep ==
  ASSUME IInv, NEW x \in Conn, HandleFailure(x)
  PROVE  IInv'
<1> DEFINE w == minerCurrWork[x]
<1>1. Client \cap Miner = {} /\ Nil \notin Job /\ Absent \notin Job /\ Nil # Absent
  BY MiningAssumption, NilAssumption
<1>2. /\ jobQ \in Seq(Job) /\ minerCurrWork \in [Miner -> Job \cup {Nil, Absent}]
      /\ clients \in [Client -> clientStatus \cup {Nil}] /\ JobsOK(clients, jobQ, minerCurrWork, reported)
  BY Zenon DEF IInv, TypeOK
<1>3. /\ x \in lost /\ (\A y \in Conn : inbox[y] = <<>>) /\ reported' = reported \cup {x}
      /\ inbox' = inbox /\ work' = work /\ results' = results /\ sends' = sends /\ lost' = lost
  BY Zenon DEF HandleFailure
<1>4. todo' \subseteq unOccupiedMiner'
  BY AssignFacts, Zenon DEF HandleFailure
<1>5. CASE x \in Miner /\ w # Absent
  <2>1. /\ jobQ' = Requeue(x) /\ unOccupiedMiner' = unOccupiedMiner \ {x} /\ clients' = clients
        /\ minerCurrWork' = [minerCurrWork EXCEPT ![x] = Absent]
    BY <1>5, Zenon DEF HandleFailure
  <2>2. w \in Job \cup {Nil} /\ x \in Miner /\ x \notin Client
    BY <1>1, <1>2, <1>5
  <2>3. /\ minerCurrWork' \in [Miner -> Job \cup {Nil, Absent}] /\ minerCurrWork'[x] = Absent
        /\ \A y \in Miner : y # x => minerCurrWork'[y] = minerCurrWork[y]
    <3>1. x \in Miner
      BY <2>2
    <3>2. minerCurrWork' = [minerCurrWork EXCEPT ![x] = Absent]
      BY <2>1
    <3> QED  BY <1>2, <3>1, <3>2
  <2>4. jobQ' \in Seq(Job) /\ JobsOK(clients, jobQ', minerCurrWork', reported)
    <3>1. CASE w = Nil
      <4>1. jobQ' = jobQ
        BY <2>1, <3>1, Zenon DEF Requeue
      <4> QED  BY <1>1, <1>2, <2>1, <2>2, <3>1, <4>1, JobsKept, Zenon
    <3>2. CASE w \in Job
      <4>1. jobQ' = <<w>> \o jobQ
        BY <1>1, <2>1, <3>2, Zenon DEF Requeue
      <4>2. <<w>> \o jobQ \in Seq(Job)
        BY <1>2, <3>2, FrontJob, Zenon
      <4>3. JobsOK(clients, <<minerCurrWork[x]>> \o jobQ, [minerCurrWork EXCEPT ![x] = Absent], reported)
        BY <1>1, <1>2, <2>2, <3>2, JobsBack, Zenon
      <4> QED  BY <2>1, <4>1, <4>2, <4>3, Zenon
    <3> QED  BY <2>2, <3>1, <3>2
  <2>5. TypeOK'
    BY <1>3, <1>4, <2>1, <2>3, <2>4, Zenon DEF IInv, TypeOK
  <2>6. MinersOK'
    <3>1. \A y \in Miner : y # x => SameAt(y)
      BY <1>3, <2>1, <2>3, Zenon DEF SameAt
    <3>2. AtOK(x)'
      <4>1. inbox'[x] = <<>> /\ x \in lost' /\ x \notin unOccupiedMiner'
        BY <1>3, <2>1, Zenon
      <4>2. sends'[x] # 0
        BY <1>3, <1>5, Zenon DEF IInv, MinersOK, AtOK, MinerOK
      <4> QED  BY <1>1, <2>3, <4>1, <4>2, Zenon DEF AtOK, MinerOK
    <3> QED  BY <3>1, <3>2, OneMiner, Zenon DEF IInv
  <2>7. Left(clients, inbox, reported)'
    BY <1>3, <2>1, <2>2, Zenon DEF IInv, Left
  <2>8. JobsOK(clients, jobQ, minerCurrWork, reported)'
    <3>1. Accounted(clients, jobQ', minerCurrWork', reported \cup {x})
      BY <2>4, Zenon DEF JobsOK, Accounted
    <3> QED  BY <1>3, <2>1, <2>4, <3>1, Zenon DEF JobsOK
  <2>9. ResultIsMinimum'
    BY <1>3, Zenon DEF IInv, ResultIsMinimum
  <2> QED  BY <2>5, <2>6, <2>7, <2>8, <2>9, Zenon DEF IInv
<1>6. CASE ~(x \in Miner /\ w # Absent)
  <2>1. /\ clients' = [c \in Client |-> IF c = x THEN Nil ELSE clients[c]]
        /\ jobQ' = jobQ /\ unOccupiedMiner' = unOccupiedMiner /\ minerCurrWork' = minerCurrWork
    BY <1>6, Zenon DEF HandleFailure
  <2>2. /\ clients' \in [Client -> clientStatus \cup {Nil}]
        /\ \A c \in Client : (c = x => clients'[c] = Nil) /\ (c # x => clients'[c] = clients[c])
    BY <1>2, <2>1
  <2>3. JobsOK(clients', jobQ, minerCurrWork, reported \cup {x})
    BY <1>2, <2>1, ClientGone, Zenon
  <2>4. TypeOK'
    BY <1>3, <1>4, <2>1, <2>2, Zenon DEF IInv, TypeOK
  <2>5. MinersOK'
    BY <1>3, <2>1, Zenon DEF IInv, MinersOK, AtOK
  <2>6. Left(clients, inbox, reported)'
    BY <1>3, <2>2, Zenon DEF IInv, Left, Conn
  <2>7. JobsOK(clients, jobQ, minerCurrWork, reported)' /\ ResultIsMinimum'
    BY <1>3, <2>1, <2>3, Zenon DEF IInv, ResultIsMinimum
  <2> QED  BY <2>4, <2>5, <2>6, <2>7, Zenon DEF IInv
<1> QED  BY <1>5, <1>6

(* A turn of the assigning loop.                                           *)
LEMMA AssignJobStep ==
  ASSUME IInv, NEW m \in Miner, AssignJob(m)
  PROVE  IInv'
<1>1. Nil \notin Job /\ Absent \notin Job /\ Nil # Absent /\ m \notin Client
  BY MiningAssumption, NilAssumption
<1>2. /\ jobQ \in Seq(Job) /\ minerCurrWork \in [Miner -> Job \cup {Nil, Absent}]
      /\ work \in [Miner -> Seq(Job)] /\ JobsOK(clients, jobQ, minerCurrWork, reported)
      /\ todo \subseteq unOccupiedMiner
  BY Zenon DEF IInv, TypeOK
<1>3. /\ clients' = clients /\ inbox' = inbox /\ results' = results /\ sends' = sends
      /\ lost' = lost /\ reported' = reported
      /\ m \in unOccupiedMiner /\ todo' \subseteq todo /\ m \notin todo'
  BY <1>2, Zenon DEF AssignJob
<1>4. minerCurrWork[m] = Nil /\ inbox[m] = <<>> /\ work[m] = <<>> /\ sends[m] # 0
  BY <1>1, <1>3, Zenon DEF IInv, MinersOK, AtOK, MinerOK
<1>5. PICK k \in 1 .. Len(jobQ) + 1 :
        /\ \A i \in 1 .. k - 1 : clients[jobQ[i].client] = Nil
        /\ IF k <= Len(jobQ) /\ m \notin lost
           THEN jobQ' = SubSeq(jobQ, k + 1, Len(jobQ)) /\ TakeJob(m, jobQ[k])
           ELSE /\ jobQ' = SubSeq(jobQ, k, Len(jobQ))
                /\ UNCHANGED <<minerCurrWork, unOccupiedMiner, work>>
  BY Zenon DEF AssignJob
<1>6. Left(clients, inbox, reported)' /\ ResultIsMinimum'
  BY <1>3, Zenon DEF IInv, Left, ResultIsMinimum
<1>7. CASE k <= Len(jobQ) /\ m \notin lost
  <2> DEFINE j == jobQ[k]
  <2>1. k \in 1 .. Len(jobQ) /\ j \in Job
    <3>1. k \in 1 .. Len(jobQ)
      BY <1>2, <1>5, <1>7
    <3> QED  BY <1>2, <3>1, ElementOfSeq, Zenon
  <2>2. /\ jobQ' = SubSeq(jobQ, k + 1, Len(jobQ))
        /\ minerCurrWork' = [minerCurrWork EXCEPT ![m] = jobQ[k]]
        /\ unOccupiedMiner' = unOccupiedMiner \ {m} /\ work' = [work EXCEPT ![m] = Append(@, jobQ[k])]
    BY <1>5, <1>7, Zenon DEF TakeJob
  <2>3. jobQ' \in Seq(Job) /\ JobsOK(clients, jobQ', minerCurrWork', reported)
    <3>1. minerCurrWork[m] \notin Job
      BY <1>1, <1>4, Zenon
    <3>2. /\ SubSeq(jobQ, k + 1, Len(jobQ)) \in Seq(Job)
          /\ JobsOK(clients, SubSeq(jobQ, k + 1, Len(jobQ)), [minerCurrWork EXCEPT ![m] = jobQ[k]], reported)
      BY <1>2, <1>5, <2>1, <3>1, JobTaken, Zenon
    <3> QED  BY <2>2, <3>2, Zenon
  <2>4. Append(work[m], j) = <<j>> /\ <<j>> \in Seq(Job)
    BY <1>4, <2>1
  <2>5. /\ minerCurrWork' \in [Miner -> Job \cup {Nil, Absent}] /\ minerCurrWork'[m] = j
        /\ \A y \in Miner : y # m => minerCurrWork'[y] = minerCurrWork[y]
    BY <1>2, <2>1, <2>2
  <2>6. /\ work' \in [Miner -> Seq(Job)] /\ work'[m] = <<j>>
        /\ \A y \in Miner : y # m => work'[y] = work[y]
    BY <1>2, <2>2, <2>4
  <2> HIDE DEF j
  <2>7. TypeOK'
    BY <1>3, <2>2, <2>3, <2>5, <2>6, Zenon DEF IInv, TypeOK
  <2>8. MinersOK'
    <3>1. \A y \in Miner : y # m => SameAt(y)
      BY <1>3, <2>2, <2>5, <2>6, Zenon DEF SameAt
    <3>2. AtOK(m)'
      <4>1. inbox'[m] = <<>> /\ m \notin unOccupiedMiner' /\ sends'[m] # 0
        BY <1>3, <1>4, <2>2, Zenon
      <4> QED  BY <1>1, <2>1, <2>5, <2>6, <4>1, Zenon DEF AtOK, MinerOK
    <3> QED  BY <3>1, <3>2, OneMiner, Zenon DEF IInv
  <2>9. JobsOK(clients, jobQ, minerCurrWork, reported)'
    BY <1>3, <2>3, Zenon
  <2> QED  BY <1>6, <2>7, <2>8, <2>9, Zenon DEF IInv
<1>8. CASE ~(k <= Len(jobQ) /\ m \notin lost)
  <2>1. /\ jobQ' = SubSeq(jobQ, k, Len(jobQ)) /\ minerCurrWork' = minerCurrWork
        /\ unOccupiedMiner' = unOccupiedMiner /\ work' = work
    BY <1>5, <1>8, Zenon
  <2>2. jobQ' \in Seq(Job) /\ JobsOK(clients, jobQ', minerCurrWork, reported)
    BY <1>2, <1>5, <2>1, JobsDropped, Zenon
  <2>3. TypeOK'
    BY <1>3, <2>1, <2>2, Zenon DEF IInv, TypeOK
  <2>4. MinersOK'
    BY <1>3, <2>1, Zenon DEF IInv, MinersOK, AtOK
  <2>5. JobsOK(clients, jobQ, minerCurrWork, reported)'
    BY <1>3, <2>1, <2>2, Zenon
  <2> QED  BY <1>6, <2>3, <2>4, <2>5, Zenon DEF IInv
<1> QED  BY <1>7, <1>8

-----------------------------------------------------------------------------
(* The invariant, and what it says.                                        *)

(* The invariant holds at first.                                           *)
LEMMA InitHolds ==
  ASSUME Init
  PROVE  IInv
<1>1. Nil # Absent /\ Absent \notin Job
  BY NilAssumption
<1>2. TypeOK
  BY DEF Init, TypeOK
<1>3. MinersOK
  <2>1. ASSUME NEW m \in Miner  PROVE AtOK(m)
    <3>1. /\ minerCurrWork[m] = Absent /\ inbox[m] = <<>> /\ work[m] = <<>> /\ m \notin unOccupiedMiner
      BY DEF Init, Conn
    <3> QED  BY <1>1, <3>1, Zenon DEF AtOK, MinerOK
  <2> QED  BY <2>1, Zenon DEF MinersOK
<1>4. Left(clients, inbox, reported)
  BY Zenon DEF Init, Left
<1>5. Pool(jobQ, minerCurrWork) = {}
  BY <1>1 DEF Init, Pool
<1>6. ASSUME NEW c \in Client  PROVE Count(jobQ, minerCurrWork, c) = 0 /\ clients[c] = Nil
  <2>1. InQueue(jobQ, c) = {} /\ AtMiners(minerCurrWork, c) = {}
    BY <1>1 DEF Init, InQueue, AtMiners
  <2>2. Cardinality({}) = 0
    BY FS_EmptySet, Zenon
  <2>3. Count(jobQ, minerCurrWork, c) = Cardinality({}) + Cardinality({})
    BY <2>1, Zenon DEF Count
  <2>4. clients[c] = Nil
    BY DEF Init
  <2> QED  BY <2>2, <2>3, <2>4
<1>7. JobsOK(clients, jobQ, minerCurrWork, reported)
  BY <1>5, <1>6, Zenon DEF JobsOK, Accounted, Fits, AllSearched
<1>8. ResultIsMinimum
  BY DEF Init, ResultIsMinimum
<1> QED  BY <1>2, <1>3, <1>4, <1>7, <1>8, Zenon DEF IInv

(* Every step keeps the invariant.                                         *)
LEMMA NextKeeps ==
  ASSUME IInv, [Next]_vars
  PROVE  IInv'
<1>1. CASE UNCHANGED vars
  BY <1>1, Zenon DEF vars, serverVars, IInv, TypeOK, MinersOK, AtOK, ResultIsMinimum
<1>2. CASE Next
  <2>1. CASE Server
    BY <2>1, HandleJoinStep, HandleResultStep, AssignJobStep, HandleRequestStep,
       HandleFailureStep, Zenon DEF Server
  <2> QED  BY <1>2, <2>1, SendRequestStep, SendJoinStep, MineStep, LoseStep, Zenon DEF Next
<1> QED  BY <1>1, <1>2

(* What a client, the server and the miners rely on of each other holds in *)
(* every reachable state.                                                  *)
THEOREM SchedulerRelies == Spec => []IInv
<1>1. Init => IInv
  BY InitHolds, Zenon
<1>2. IInv /\ [Next]_vars => IInv'
  BY NextKeeps, Zenon
<1> QED  BY <1>1, <1>2, PTL DEF Spec

(* The count of unfinished jobs of a running request is right, through the *)
(* losses of miners and clients, and a Result that waits to be read has    *)
(* its job in minerCurrWork.                                               *)
THEOREM JobsSafe == Spec => []JobsAccounted
<1>1. ASSUME IInv  PROVE JobsAccounted
  <2>1. ASSUME NEW c \in Client, clients[c] # Nil
        PROVE  /\ clients[c].notFinishedJob > 0
               /\ clients[c].notFinishedJob =
                    Cardinality({i \in 1 .. Len(jobQ) : jobQ[i].client = c})
                    + Cardinality({m \in Miner : minerCurrWork[m] \in Job /\ minerCurrWork[m].client = c})
    <3>1. c \notin reported
      BY <1>1, <2>1, Zenon DEF IInv, Left
    <3>2. Count(jobQ, minerCurrWork, c) = clients[c].notFinishedJob /\ clients[c].notFinishedJob > 0
      BY <1>1, <2>1, <3>1, Zenon DEF IInv, JobsOK, Accounted
    <3> QED  BY <3>2, Zenon DEF Count, InQueue, AtMiners
  <2>2. ASSUME NEW m \in Miner, inbox[m] # <<>>, Head(inbox[m]).type = "Result"
        PROVE  minerCurrWork[m] \in Job
    BY <1>1, <2>2, ReadOfMiner
  <2> QED  BY <2>1, <2>2, Zenon DEF JobsAccounted
<1> QED  BY <1>1, SchedulerRelies, PTL

(* Every result that a client receives is the minimum over its range.      *)
THEOREM ResultSafe == Spec => []ResultIsMinimum
<1>1. IInv => ResultIsMinimum
  BY Zenon DEF IInv
<1> QED  BY <1>1, SchedulerRelies, PTL
=============================================================================
