-------------------------- MODULE PaxosAdminProof --------------------------
(***************************************************************************)
(* Proofs about PaxosAdmin, for any hosts, slots, bounds and initial       *)
(* clusters, failing calls and stopping hosts: what the administrator and  *)
(* the peers agree on at each point of AddPeer and RemovePeer (AdminInv),  *)
(* and from it that a change that succeeds leaves one list and an added    *)
(* peer that lacks nothing, and that no change leaves anyone locked whom it *)
(* could reach.                                                            *)
(*                                                                         *)
(* The lemmas about a step of the administrator take the state of the      *)
(* peers as arguments, since they are used before and after a change of it. *)
(***************************************************************************)
EXTENDS PaxosAdmin, WellFoundedInduction, TLAPS

(* An element of a list, and the index of the next.                        *)
LEMMA ElementType ==
  ASSUME NEW S, NEW l \in Seq(S), NEW i \in 1 .. Len(l)
  PROVE  l[i] \in S /\ i + 1 \in Nat \ {0}
OBVIOUS

(* The administrator that does nothing yet.                                *)
LEMMA NoAdminType ==
  NoAdmin \in Admin /\ EmptySlot \in SlotValue /\ NoRound \in Round
<1>1. EmptySlot \in SlotValue
  BY DEF EmptySlot, SlotValue, Value
<1>2. NoRound \in Round
  BY AdminAssumption DEF NoRound, Round, Value, SlotNum
<1>3. /\ "idle" \in AdminPc /\ 0 \in Host \cup {0} /\ <<>> \in Seq(Host) /\ 1 \in Nat \ {0} /\ 0 \in Nat
      /\ LastSlot + 1 \in Nat /\ -1 \in SlotNum \cup {-1} /\ {} \in SUBSET Host
  BY AdminAssumption DEF AdminPc
<1>4. NoAdmin \in Admin
  BY <1>1, <1>3, Zenon DEF NoAdmin, Admin
<1>5. QED
  BY <1>1, <1>2, <1>4

(* No slot that is decided ceases to be.                                   *)
SlotsKept(slots, slots2) ==
  \A p \in Host, s \in SlotNum : slots[p][s].isDecided => slots2[p][s].isDecided

(* What the administrator knows of slots, it knows when more are decided.  *)
LEMMA MoreDecided ==
  ASSUME NEW a \in Admin, NEW locked, NEW prs, NEW index, NEW slots, NEW rounds,
         AdminOK(a, locked, prs, index, slots, rounds),
         NEW slots2, NEW rounds2, SlotsKept(slots, slots2), WaitOK(a, slots2, rounds2)
  PROVE  AdminOK(a, locked, prs, index, slots2, rounds2)
<1>1. /\ ListOK(a) /\ LockOK(a, locked) /\ UpdateOK(a, prs, index) /\ SyncOK(a, slots)
      /\ CopyOK(a, slots)
  BY Zenon DEF AdminOK
<1>2. a.peers \in Seq(Host)
  BY Zenon DEF Admin
<1>3. \A j \in 1 .. Len(a.peers), s \in SlotNum :
        slots[a.peers[j]][s].isDecided => slots2[a.peers[j]][s].isDecided
  BY <1>2, ElementType, Zenon DEF SlotsKept
<1>4. SyncOK(a, slots2)
  BY <1>1, <1>3, Zenon DEF SyncOK
<1>5. a.pc # "idle" => a.x \in Host
  BY <1>1, Zenon DEF ListOK
<1>6. CopyOK(a, slots2)
  <2>1. Copying(a) \/ Succeeding(a) => a.x \in Host
    BY <1>5, Zenon DEF Copying, Succeeding
  <2>2. QED
    BY <1>1, <2>1, Zenon DEF CopyOK, SlotsKept
<1>7. QED
  BY <1>1, <1>4, <1>6, Zenon DEF AdminOK

(* Types of the parts of the state.                                        *)
LEMMA StateTypes ==
  ASSUME AdminTypeOK
  PROVE  /\ \A t \in Thread : t[1] \in Host /\ round[t] \in Round
         /\ \A p \in Host, s \in SlotNum : slot[p][s] \in SlotValue
<1>1. round \in [Thread -> Round] /\ slot \in [Host -> [SlotNum -> SlotValue]]
  BY Zenon DEF AdminTypeOK
<1>2. \A t \in Thread : t[1] \in Host
  BY DEF Thread
<1>3. QED
  BY <1>1, <1>2, Zenon

(* What is left of the bounds.                                             *)
Left == [draws : Nat, starts : Nat, changes : Nat, fails : Nat]

(* Using one of them up.                                                   *)
LEMMA LeftType ==
  ASSUME NEW l \in Left
  PROVE  /\ l.draws > 0 => [l EXCEPT !.draws = @ - 1] \in Left
         /\ l.starts > 0 => [l EXCEPT !.starts = @ - 1] \in Left
         /\ l.changes > 0 => [l EXCEPT !.changes = @ - 1] \in Left
         /\ l.fails > 0 => [l EXCEPT !.fails = @ - 1] \in Left
<1>1. \A n \in Nat : n > 0 => n - 1 \in Nat
  OBVIOUS
<1>2. QED
  BY <1>1, Zenon DEF Left

(* A round that begins, of Start or of SyncPaxosValue.                     *)
LEMMA BegunType ==
  ASSUME AdminTypeOK, NEW p \in Host, NEW s \in SlotNum, NEW v \in Value
  PROVE  Begun(p, s, v) \in Round /\ Begun(p, s, v).pc = "draw" /\ Begun(p, s, v).s = s
<1>1. slot[p][s].seqNumHighest \in Int
  <2>1. slot[p][s] \in SlotValue
    BY DEF AdminTypeOK
  <2>2. QED
    BY <2>1, Zenon DEF SlotValue
<1>2. QED
  BY <1>1, NoAdminType, Zenon DEF Begun, Round

(* One slot changes, and does not become undecided.                        *)
LEMMA OneSlot ==
  ASSUME NEW slots \in [Host -> [SlotNum -> SlotValue]], NEW p \in Host, NEW s \in SlotNum,
         NEW sl \in SlotValue, slots[p][s].isDecided => sl.isDecided,
         NEW slots2, slots2 = [slots EXCEPT ![p][s] = sl]
  PROVE  slots2 \in [Host -> [SlotNum -> SlotValue]] /\ SlotsKept(slots, slots2)
<1>1. slots2 \in [Host -> [SlotNum -> SlotValue]]
  BY Zenon
<1>2. ASSUME NEW q \in Host, NEW n \in SlotNum, slots[q][n].isDecided
      PROVE  slots2[q][n].isDecided
  <2>1. CASE q = p /\ n = s
    BY <1>2, <2>1
  <2>2. CASE ~(q = p /\ n = s)
    BY <1>2, <2>2
  <2>3. QED
    BY <2>1, <2>2
<1>3. QED
  BY <1>1, <1>2, Zenon DEF SlotsKept

(* SetDecided keeps the types, and leaves the slot decided.                *)
LEMMA SetDecidedType ==
  ASSUME AdminTypeOK, NEW p \in Host, NEW s \in SlotNum, NEW sl \in SlotValue, sl.isDecided,
         SetDecided(p, s, sl)
  PROVE  /\ slot' \in [Host -> [SlotNum -> SlotValue]] /\ SlotsKept(slot, slot')
         /\ slot'[p][s] = sl /\ maxDecidedSlot' \in [Host -> SlotNum]
<1>1. slot' = [slot EXCEPT ![p][s] = sl] /\ slot \in [Host -> [SlotNum -> SlotValue]]
  BY Zenon DEF SetDecided, AdminTypeOK
<1>2. slot' \in [Host -> [SlotNum -> SlotValue]] /\ SlotsKept(slot, slot')
  BY <1>1, OneSlot, Zenon
<1>3. slot'[p][s] = sl
  BY <1>1
<1>4. maxDecidedSlot' \in [Host -> SlotNum]
  BY DEF SetDecided, AdminTypeOK
<1>5. QED
  BY <1>2, <1>3, <1>4

(* The rounds of SyncPaxosValue that are under way stay so, for their      *)
(* slots.                                                                  *)
RoundsKept(rounds, rounds2) ==
  \A q \in Host :
    LET t == <<q, "SyncPaxosValue">>
    IN  /\ rounds2[t].pc = "idle" => rounds[t].pc = "idle"
        /\ rounds2[t].pc # "idle" => rounds[t].pc # "idle" /\ rounds2[t].s = rounds[t].s

(* The steps of Paxos: what the administrator knows stays true.            *)
LEMMA PaxosStepsKeepInv ==
  AdminInv /\ (\/ \E p \in Host, s \in SlotNum : Start(p, s)
               \/ \E t \in Thread : Proposer(t)
               \/ \E m \in msgs : Deliver(m)
               \/ \E p \in Host : Stop(p)) => AdminInv'
(* The round SyncPaxosValue waits for goes on.                             *)
<1>StillWaits. ASSUME NEW a \in Admin, ListOK(a), NEW slots, NEW rounds, WaitOK(a, slots, rounds),
                      NEW slots2, NEW rounds2, SlotsKept(slots, slots2), RoundsKept(rounds, rounds2)
               PROVE  WaitOK(a, slots2, rounds2)
  <2>. USE <1>StillWaits
  <2>. SUFFICES ASSUME a.pc \in {"syncing", "copying"} PROVE WaitOK(a, slots2, rounds2)
    BY Zenon DEF WaitOK
  <2>1. a.list \in Seq(Host) /\ a.i \in 1 .. Len(a.list) /\ a.s \in SlotNum
    BY Zenon DEF Admin, ListOK
  <2>2. a.list[a.i] \in Host
    BY <2>1, ElementType, Zenon
  <2>3. QED
    BY <2>1, <2>2, Zenon DEF WaitOK, SlotsKept, RoundsKept
(* What the handlers leave in a slot.                                      *)
<1>HandlerTypes. ASSUME NEW sl \in SlotValue, NEW n \in Int, NEW v \in Value
                 PROVE  /\ Prepared(sl, n) \in SlotValue /\ Prepared(sl, n).isDecided = sl.isDecided
                        /\ Accepted(sl, n, v) \in SlotValue /\ Accepted(sl, n, v).isDecided = sl.isDecided
                        /\ DecidedAs(sl, v) \in SlotValue /\ DecidedAs(sl, v).isDecided = TRUE
                        /\ [sl EXCEPT !.isDecided = TRUE] \in SlotValue
                        /\ [sl EXCEPT !.isDecided = TRUE].isDecided = TRUE
                        /\ Promises(sl, n) \in BOOLEAN /\ Accepts(sl, n) \in BOOLEAN
                        /\ sl.value \in Value /\ sl.seqNumAccepted \in Int /\ sl.seqNumHighest \in Int
  <2>. USE <1>HandlerTypes
  <2>1. Prepared(sl, n) \in SlotValue /\ Prepared(sl, n).isDecided = sl.isDecided
    BY DEF Prepared, SlotValue
  <2>2. Accepted(sl, n, v) \in SlotValue /\ Accepted(sl, n, v).isDecided = sl.isDecided
    BY DEF Accepted, SlotValue
  <2>3. DecidedAs(sl, v) \in SlotValue /\ DecidedAs(sl, v).isDecided = TRUE
    BY DEF DecidedAs, SlotValue
  <2>4. [sl EXCEPT !.isDecided = TRUE] \in SlotValue /\ [sl EXCEPT !.isDecided = TRUE].isDecided = TRUE
    BY DEF SlotValue
  <2>5. sl.value \in Value /\ sl.seqNumAccepted \in Int /\ sl.seqNumHighest \in Int
    BY Zenon DEF SlotValue
  <2>6. Promises(sl, n) \in BOOLEAN /\ Accepts(sl, n) \in BOOLEAN
    BY <2>5 DEF Promises, Accepts
  <2>7. QED
    BY <2>1, <2>2, <2>3, <2>4, <2>5, <2>6, Zenon
(* The slot Accept leaves.                                                 *)
<1>AcceptedType. ASSUME NEW sl \in SlotValue, NEW n \in Int, NEW v \in Value
                 PROVE  Accepted(sl, n, v) \in SlotValue /\ Accepted(sl, n, v).isDecided = sl.isDecided
  BY <1>AcceptedType, <1>HandlerTypes, Zenon
(* A reply leaves a round under way, for the same slot.                    *)
<1>HeardType. ASSUME NEW p, NEW r \in Round, r.pc \in {"prepare", "accept"}, NEW ok \in BOOLEAN,
                     NEW acc \in Int, NEW v \in Value, NEW high \in Int
              PROVE  LET h == Heard(p, r, ok, acc, v, high)
                     IN  h \in Round /\ h.pc # "idle" /\ h.s = r.s
  <2>. USE <1>HeardType
  <2>. DEFINE k == [r EXCEPT !.heard = @ + 1,
                             !.numOk = IF ok THEN @ + 1 ELSE @,
                             !.acc = IF ok /\ acc > @ THEN acc ELSE @,
                             !.propose = IF ok /\ acc > r.acc THEN v ELSE @,
                             !.high = IF ~ok /\ high > @ THEN high ELSE @]
              pc == CASE Majority(p, k.numOk) -> IF k.pc = "prepare" THEN "prepared" ELSE "accepted"
                      [] ~Majority(p, k.numOk) /\ k.heard >= Len(peers[p]) -> "draw"
                      [] OTHER -> k.pc
  <2>1. k \in Round /\ k.pc = r.pc /\ k.s = r.s
    <3>. DEFINE nu == IF ok THEN r.numOk + 1 ELSE r.numOk
                ac == IF ok /\ acc > r.acc THEN acc ELSE r.acc
                pr == IF ok /\ acc > r.acc THEN v ELSE r.propose
                hi == IF ~ok /\ high > r.high THEN high ELSE r.high
                he == r.heard + 1
    <3>1. k = [r EXCEPT !.heard = he, !.numOk = nu, !.acc = ac, !.propose = pr, !.high = hi]
      BY Zenon DEF Round
    <3>2. /\ r.heard \in Nat /\ r.numOk \in Nat /\ r.acc \in Int /\ r.propose \in Value
          /\ r.high \in Int
      BY Zenon DEF Round
    <3>3. he \in Nat /\ nu \in Nat /\ ac \in Int /\ pr \in Value /\ hi \in Int
      BY <3>2
    <3>. HIDE DEF he, nu, ac, pr, hi, k
    <3>4. QED
      BY <3>1, <3>3, Zenon DEF Round
  <2>2. Heard(p, r, ok, acc, v, high) = [k EXCEPT !.pc = pc]
    BY Zenon DEF Heard
  <2>. HIDE DEF k
  <2>3. pc \in {"prepare", "accept", "prepared", "accepted", "draw"}
    BY <2>1, Zenon
  <2>. HIDE DEF pc
  <2>4. [k EXCEPT !.pc = pc] \in Round /\ [k EXCEPT !.pc = pc].pc = pc /\ [k EXCEPT !.pc = pc].s = k.s
    BY <2>1, <2>3 DEF Round
  <2>5. QED
    BY <2>1, <2>2, <2>3, <2>4
(* A sequence number is an integer.                                        *)
<1>SeqNumType. ASSUME AdminTypeOK, NEW p \in Host, NEW t \in Nat, NEW high \in Int
               PROVE  SeqNum(p, t, high) \in Int
  <2>. USE <1>SeqNumType
  <2>. DEFINE len == Len(peers[p])
              n == t * len + (me[p] - 1)
  <2>1. peers[p] \in Seq(Host) /\ peers[p] # <<>> /\ me[p] \in Nat
    BY DEF AdminTypeOK
  <2>2. len \in Nat \ {0}
    BY <2>1
  <2>3. SeqNum(p, t, high) = IF n <= high THEN n + ((high - n) - ((high - n) % len)) + len ELSE n
    BY Zenon DEF SeqNum
  <2>. HIDE DEF len
  <2>4. n \in Int
    BY <2>1, <2>2
  <2>. HIDE DEF n
  <2>5. (high - n) % len \in Int
    BY <2>2, <2>4
  <2>6. QED
    BY <2>2, <2>3, <2>4, <2>5
(* What is sent are messages.                                              *)
<1>RequestsType. ASSUME AdminTypeOK, NEW t \in Thread, NEW type \in {"Prepare", "Accept", "Decide"},
                        NEW n \in Int, NEW v \in Value
                 PROVE  Requests(t, type, n, v) \subseteq Message /\ Abandoned(t) \subseteq Message
  <2>. USE <1>RequestsType
  <2>1. t[1] \in Host /\ round[t] \in Round
    BY DEF AdminTypeOK, Thread
  <2>2. peers[t[1]] \in Seq(Host) /\ round[t].s \in SlotNum
    BY <2>1, Zenon DEF AdminTypeOK, Round
  <2>3. \A i \in DOMAIN peers[t[1]] : peers[t[1]][i] \in Host
    BY <2>2
  <2>4. \A i \in DOMAIN peers[t[1]] \ {me[t[1]]} :
          [type |-> type, from |-> t, to |-> peers[t[1]][i], up |-> peers[t[1]][i] \notin down,
           waits |-> type # "Decide", s |-> round[t].s, n |-> n, v |-> v] \in Message
    BY <2>2, <2>3, Zenon DEF Message
  <2>5. Requests(t, type, n, v) \subseteq Message
    BY <2>4, Zenon DEF Requests
  <2>6. \A m \in Message : [m EXCEPT !.waits = FALSE] \in Message
    BY Zenon DEF Message
  <2>7. msgs \subseteq Message
    BY DEF AdminTypeOK
  <2>8. Abandoned(t) \subseteq Message
    BY <2>6, <2>7, Zenon DEF Abandoned
  <2>9. QED
    BY <2>5, <2>8
(* A step of Paxos keeps the invariant if its new state has its type, no   *)
(* slot becomes undecided, and the round SyncPaxosValue waits for goes on. *)
<1>PaxosKeepsInv. ASSUME AdminInv,
                         UNCHANGED <<peers, me, isLocked, minUndecidedSlot, admin>>,
                         down' \subseteq Host,
                         slot' \in [Host -> [SlotNum -> SlotValue]], SlotsKept(slot, slot'),
                         maxDecidedSlot' \in [Host -> SlotNum],
                         round' \in [Thread -> Round], WaitOK(admin, slot', round'),
                         msgs' \subseteq Message, now' \in Nat, decided' \subseteq SlotNum \X Value,
                         left' \in Left
                  PROVE  AdminInv'
  <2>. USE <1>PaxosKeepsInv
  <2>1. AdminTypeOK'
    BY Zenon DEF AdminInv, AdminTypeOK, Left
  <2>2. AdminOK(admin, isLocked, peers, me, slot', round')
    BY MoreDecided, Zenon DEF AdminInv, AdminTypeOK
  <2>3. MinOK(slot', minUndecidedSlot)
    BY Zenon DEF AdminInv, MinOK, SlotsKept
  <2>4. QED
    BY <2>1, <2>2, <2>3, Zenon DEF AdminInv
(* One round changes, and goes on for its slot.                            *)
<1>OneRound. ASSUME NEW rounds \in [Thread -> Round], NEW t \in Thread, NEW r \in Round,
                    r.pc # "idle", rounds[t].pc # "idle", r.s = rounds[t].s,
                    NEW rounds2, rounds2 = [rounds EXCEPT ![t] = r]
             PROVE  rounds2 \in [Thread -> Round] /\ RoundsKept(rounds, rounds2)
  <2>. USE <1>OneRound
  <2>1. rounds2 \in [Thread -> Round]
    BY Zenon
  <2>2. \A u \in Thread : rounds2[u] = IF u = t THEN r ELSE rounds[u]
    BY Zenon
  <2>3. \A q \in Host : <<q, "SyncPaxosValue">> \in Thread
    BY DEF Thread
  <2>4. QED
    BY <2>1, <2>2, <2>3, Zenon DEF RoundsKept
(* Start begins a round of its own.                                        *)
<1>StartKeepsInv. ASSUME AdminInv, NEW p \in Host, NEW s \in SlotNum, Start(p, s)
                  PROVE  AdminInv'
  <2>. USE <1>StartKeepsInv
  <2>. USE DEF AdminInv
  <2>1. Begun(p, s, p) \in Round /\ <<p, "Start">> \in Thread
    BY BegunType DEF Value, Thread
  <2>2. round' \in [Thread -> Round] /\ RoundsKept(round, round')
    <3>1. round' = [round EXCEPT ![<<p, "Start">>] = Begun(p, s, p)] /\ round \in [Thread -> Round]
      BY Zenon DEF Start, AdminTypeOK
    <3>2. round' \in [Thread -> Round]
      BY <2>1, <3>1, Zenon
    <3>3. \A q \in Host : <<q, "SyncPaxosValue">> \in Thread /\ <<q, "SyncPaxosValue">> # <<p, "Start">>
      BY DEF Thread
    <3>4. \A q \in Host : round'[<<q, "SyncPaxosValue">>] = round[<<q, "SyncPaxosValue">>]
      BY <3>1, <3>3, Zenon
    <3>5. QED
      BY <3>2, <3>4, Zenon DEF RoundsKept
  <2>3. left' \in Left
    BY LeftType, Zenon DEF Start, AdminTypeOK, Left
  <2>4. SlotsKept(slot, slot) /\ slot' = slot
    BY Zenon DEF SlotsKept, Start, pxVars
  <2>5. WaitOK(admin, slot', round')
    BY <2>2, <2>4, <1>StillWaits, Zenon DEF AdminOK, AdminTypeOK
  <2>6. QED
    BY <2>2, <2>3, <2>4, <2>5, <1>PaxosKeepsInv, Zenon DEF Start, pxVars, AdminTypeOK
(* Stop changes nothing the administrator knows.                           *)
<1>StopKeepsInv. ASSUME AdminInv, NEW p \in Host, Stop(p)
                 PROVE  AdminInv'
  <2>. USE <1>StopKeepsInv
  <2>. USE DEF AdminInv
  <2>1. left' \in Left /\ down' \subseteq Host
    BY LeftType, Zenon DEF Stop, AdminTypeOK, Left
  <2>2. SlotsKept(slot, slot) /\ slot' = slot
    BY Zenon DEF SlotsKept, Stop
  <2>3. WaitOK(admin, slot', round')
    BY Zenon DEF AdminOK, Stop
  <2>4. QED
    BY <2>1, <2>2, <2>3, <1>PaxosKeepsInv, Zenon DEF Stop, AdminTypeOK
(* The new phase of a round begins with the peer's own reply.              *)
<1>SendPrepareKeepsInv. ASSUME AdminInv, NEW t \in Thread, SendPrepare(t)
                        PROVE  AdminInv'
  <2>. USE <1>SendPrepareKeepsInv
  <2>. USE DEF AdminInv
  <2>. DEFINE p == t[1]
              r == round[t]
              sl == slot[p][r.s]
              n == SeqNum(p, now', r.high)
              sent == [r EXCEPT !.pc = "prepare", !.n = n, !.heard = 0, !.numOk = 0, !.acc = 0,
                                !.propose = r.v, !.high = 0]
              h == Heard(p, sent, Promises(sl, n), sl.seqNumAccepted, sl.value, sl.seqNumHighest)
  <2>1. p \in Host /\ r \in Round /\ now' \in Nat
    <3>1. now \in Nat /\ now' \in {now, now + 1}
      BY Zenon DEF AdminTypeOK, SendPrepare
    <3>2. now' \in Nat
      BY <3>1
    <3>3. QED
      BY <3>2, StateTypes, Zenon
  <2>2. r.s \in SlotNum /\ r.v \in Value /\ r.high \in Int
    BY <2>1, Zenon DEF Round
  <2>3. sl \in SlotValue
    BY <2>1, <2>2, StateTypes, Zenon
  <2>4. n \in Int
    BY <2>1, <2>2, <1>SeqNumType, Zenon
  <2>5. /\ r.pc = "draw" /\ round' = [round EXCEPT ![t] = h]
        /\ slot' = [slot EXCEPT ![p][r.s] = Prepared(sl, n)]
        /\ msgs' = Abandoned(t) \cup Requests(t, "Prepare", n, Nil)
        /\ left.draws > 0 /\ left' = [left EXCEPT !.draws = @ - 1]
    BY Zenon DEF SendPrepare
  <2>. HIDE DEF n
  <2>6. sent \in Round /\ sent.pc \in {"prepare", "accept"} /\ sent.s = r.s
    <3>1. 0 \in Nat /\ 0 \in Int
      OBVIOUS
    <3>2. QED
      BY <2>1, <2>2, <2>4, <3>1, Zenon DEF Round
  <2>. HIDE DEF sl, sent
  <2>7. h \in Round /\ h.pc # "idle" /\ h.s = r.s
    <3>1. /\ Promises(sl, n) \in BOOLEAN /\ sl.seqNumAccepted \in Int /\ sl.value \in Value
          /\ sl.seqNumHighest \in Int
      BY <2>3, <2>4, <1>HandlerTypes, Zenon DEF Value
    <3>2. QED
      BY <2>6, <3>1, <1>HeardType, SMT
  <2>. HIDE DEF h
  <2>8. round' \in [Thread -> Round] /\ RoundsKept(round, round')
    <3>1. round \in [Thread -> Round] /\ round[t].pc # "idle" /\ h.s = round[t].s
      BY <2>5, <2>7, Zenon DEF AdminTypeOK
    <3>2. QED
      BY <2>5, <2>7, <3>1, <1>OneRound, Zenon
  <2>9. slot' \in [Host -> [SlotNum -> SlotValue]] /\ SlotsKept(slot, slot')
    <3>1. Prepared(sl, n) \in SlotValue /\ Prepared(sl, n).isDecided = slot[p][r.s].isDecided
      BY <2>3, <2>4, <1>HandlerTypes, Zenon DEF sl, Value
    <3>2. QED
      BY <2>1, <2>2, <2>5, <3>1, OneSlot, Zenon DEF AdminTypeOK
  <2>10. msgs' \subseteq Message
    BY <2>4, <2>5, <1>RequestsType, Zenon DEF Value
  <2>11. WaitOK(admin, slot', round')
    BY <2>8, <2>9, <1>StillWaits, Zenon DEF AdminOK, AdminTypeOK
  <2>12. left' \in Left
    BY <2>5, LeftType, Zenon DEF AdminTypeOK, Left
  <2>13. QED
    BY <2>1, <2>8, <2>9, <2>10, <2>11, <2>12, <1>PaxosKeepsInv, Zenon DEF SendPrepare, AdminTypeOK
(* Accept is sent once a majority has promised.                            *)
<1>SendAcceptKeepsInv. ASSUME AdminInv, NEW t \in Thread, SendAccept(t)
                       PROVE  AdminInv'
  <2>. USE <1>SendAcceptKeepsInv
  <2>. USE DEF AdminInv
  <2>. DEFINE p == t[1]
              r == round[t]
              sl == slot[p][r.s]
              sent == [r EXCEPT !.pc = "accept", !.heard = 0, !.numOk = 0, !.high = 0]
              h == Heard(p, sent, Accepts(sl, r.n), 0, Nil, sl.seqNumHighest)
  <2>1. p \in Host /\ r \in Round
    BY StateTypes, Zenon
  <2>2. r.s \in SlotNum /\ r.n \in Int /\ r.propose \in Value
    BY <2>1, Zenon DEF Round
  <2>3. sl \in SlotValue
    BY <2>1, <2>2, StateTypes, Zenon
  <2>4. 0 \in Nat /\ 0 \in Int
    OBVIOUS
  <2>5. /\ r.pc = "prepared" /\ round' = [round EXCEPT ![t] = h]
        /\ slot' = [slot EXCEPT ![p][r.s] = Accepted(sl, r.n, r.propose)]
        /\ msgs' = Abandoned(t) \cup Requests(t, "Accept", r.n, r.propose)
    BY Zenon DEF SendAccept
  <2>6. sent \in Round /\ sent.pc \in {"prepare", "accept"} /\ sent.s = r.s
    BY <2>1, <2>4, Zenon DEF Round
  <2>. HIDE DEF sl, sent
  <2>7. h \in Round /\ h.pc # "idle" /\ h.s = r.s
    <3>1. Accepts(sl, r.n) \in BOOLEAN /\ sl.seqNumHighest \in Int /\ Nil \in Value
      BY <2>2, <2>3, <1>HandlerTypes, Zenon DEF Value
    <3>2. QED
      BY <2>4, <2>6, <3>1, <1>HeardType, SMT
  <2>. HIDE DEF h
  <2>8. round' \in [Thread -> Round] /\ RoundsKept(round, round')
    <3>1. round \in [Thread -> Round] /\ round[t].pc # "idle" /\ h.s = round[t].s
      BY <2>5, <2>7, Zenon DEF AdminTypeOK
    <3>2. QED
      BY <2>5, <2>7, <3>1, <1>OneRound, Zenon
  <2>9. slot' \in [Host -> [SlotNum -> SlotValue]] /\ SlotsKept(slot, slot')
    <3>1. /\ Accepted(sl, r.n, r.propose) \in SlotValue
          /\ Accepted(sl, r.n, r.propose).isDecided = slot[p][r.s].isDecided
      <4>1. sl.isDecided = slot[p][r.s].isDecided
        BY Zenon DEF sl
      <4>. HIDE DEF r
      <4>2. QED
        BY <2>2, <2>3, <4>1, <1>AcceptedType, Zenon
    <3>2. QED
      BY <2>1, <2>2, <2>5, <3>1, OneSlot, Zenon DEF AdminTypeOK
  <2>10. msgs' \subseteq Message
    BY <2>2, <2>5, <1>RequestsType, Zenon
  <2>11. WaitOK(admin, slot', round')
    BY <2>8, <2>9, <1>StillWaits, Zenon DEF AdminOK, AdminTypeOK
  <2>12. QED
    BY <2>8, <2>9, <2>10, <2>11, <1>PaxosKeepsInv, Zenon DEF SendAccept, AdminTypeOK, Left
(* The round of SyncPaxosValue ends when it has decided its slot.          *)
<1>SendDecideKeepsInv. ASSUME AdminInv, NEW t \in Thread, SendDecide(t)
                       PROVE  AdminInv'
  <2>. USE <1>SendDecideKeepsInv
  <2>. USE DEF AdminInv
  <2>. DEFINE p == t[1]
              r == round[t]
              sl == DecidedAs(slot[p][r.s], r.propose)
  <2>1. p \in Host /\ r \in Round
    BY StateTypes, Zenon
  <2>2. r.s \in SlotNum /\ r.propose \in Value
    BY <2>1, Zenon DEF Round
  <2>3. sl \in SlotValue /\ sl.isDecided
    <3>1. slot[p][r.s] \in SlotValue
      BY <2>1, <2>2, StateTypes, Zenon
    <3>2. 0 \in Int
      OBVIOUS
    <3>3. QED
      BY <2>2, <3>1, <3>2, <1>HandlerTypes, Zenon
  <2>4. /\ r.pc = "accepted" /\ round' = [round EXCEPT ![t] = NoRound] /\ SetDecided(p, r.s, sl)
        /\ decided' = decided \cup {<<r.s, r.propose>>}
        /\ msgs' = Abandoned(t) \cup Requests(t, "Decide", 0, r.propose)
    BY Zenon DEF SendDecide
  <2>. HIDE DEF sl
  <2>5. /\ slot' \in [Host -> [SlotNum -> SlotValue]] /\ SlotsKept(slot, slot')
        /\ slot'[p][r.s] = sl /\ maxDecidedSlot' \in [Host -> SlotNum]
    BY <2>1, <2>2, <2>3, <2>4, SetDecidedType, Zenon
  <2>6. NoRound \in Round /\ NoRound.pc = "idle"
    BY NoAdminType, Zenon DEF NoRound
  <2>7. round' \in [Thread -> Round]
    BY <2>4, <2>6, Zenon DEF AdminTypeOK
  <2>8. WaitOK(admin, slot', round')
    <3>. DEFINE q == admin.list[admin.i]
                u == <<q, "SyncPaxosValue">>
    <3>. SUFFICES ASSUME admin.pc \in {"syncing", "copying"}
                  PROVE  IF round'[u].pc = "idle" THEN slot'[q][admin.s].isDecided
                         ELSE round'[u].s = admin.s
      BY Zenon DEF WaitOK
    <3>1. admin.list \in Seq(Host) /\ admin.i \in 1 .. Len(admin.list) /\ admin.s \in SlotNum
      BY Zenon DEF AdminTypeOK, Admin, AdminOK, ListOK
    <3>2. q \in Host
      BY <3>1, ElementType, Zenon
    <3>3. u \in Thread
      BY <3>2 DEF Thread
    <3>4. IF round[u].pc = "idle" THEN slot[q][admin.s].isDecided ELSE round[u].s = admin.s
      BY Zenon DEF AdminOK, WaitOK
    <3>5. CASE u = t
      <4>1. q = p
        BY <3>5
      <4>2. r.s = admin.s
        BY <2>4, <3>4, <3>5, Zenon
      <4>3. round'[u].pc = "idle"
        BY <2>4, <2>6, <3>3, <3>5, Zenon DEF AdminTypeOK
      <4>4. QED
        BY <2>3, <2>5, <4>1, <4>2, <4>3, Zenon
    <3>6. CASE u # t
      <4>1. round'[u] = round[u]
        BY <2>4, <3>3, <3>6, Zenon DEF AdminTypeOK
      <4>2. QED
        BY <2>5, <3>1, <3>2, <3>4, <4>1, Zenon DEF SlotsKept
    <3>7. QED
      BY <3>5, <3>6
  <2>9. msgs' \subseteq Message
    <3>1. 0 \in Int
      OBVIOUS
    <3>2. QED
      BY <2>2, <2>4, <3>1, <1>RequestsType, Zenon
  <2>10. decided' \subseteq SlotNum \X Value
    BY <2>2, <2>4 DEF AdminTypeOK
  <2>11. QED
    BY <2>5, <2>7, <2>8, <2>9, <2>10, <1>PaxosKeepsInv, Zenon DEF SendDecide, AdminTypeOK, Left
(* A reply leaves every round under way, for its slot.                     *)
<1>ReplyType. ASSUME AdminTypeOK, NEW m \in Message, NEW ok \in BOOLEAN, NEW acc \in Int,
                     NEW v \in Value,
                     NEW high \in Int, Reply(m, ok, acc, v, high)
              PROVE  round' \in [Thread -> Round] /\ RoundsKept(round, round')
  <2>. USE <1>ReplyType
  <2>1. round \in [Thread -> Round]
    BY Zenon DEF AdminTypeOK
  <2>2. CASE ~Waits(m)
    <3>1. round' = round
      BY <2>2, Zenon DEF Reply
    <3>2. QED
      BY <2>1, <3>1, Zenon DEF RoundsKept
  <2>3. CASE Waits(m)
    <3>. DEFINE t == m.from
                r == round[t]
                h == Heard(t[1], r, ok, acc, v, high)
    <3>1. t \in Thread /\ r \in Round
      BY <2>1, Zenon DEF Message
    <3>2. r.pc \in {"prepare", "accept"}
      BY <2>3, Zenon DEF Waits
    <3>3. round' = [round EXCEPT ![t] = h]
      BY <2>1, <2>3, <3>1, Zenon DEF Reply
    <3>. HIDE DEF t
    <3>4. h \in Round /\ h.pc # "idle" /\ h.s = r.s
      BY <3>1, <3>2, <1>HeardType, SMT
    <3>. HIDE DEF h
    <3>5. round[t].pc # "idle"
      BY <3>2, Zenon
    <3>6. QED
      BY <2>1, <3>1, <3>3, <3>4, <3>5, <1>OneRound, Zenon
  <2>4. QED
    BY <2>2, <2>3
(* Prepare.                                                                *)
<1>PrepareKeepsInv. ASSUME AdminInv, NEW m \in msgs, Prepare(m)
                    PROVE  AdminInv'
  <2>. USE <1>PrepareKeepsInv
  <2>. USE DEF AdminInv
  <2>. DEFINE sl == slot[m.to][m.s]
  <2>1. m \in Message
    BY Zenon DEF AdminTypeOK
  <2>2. m.to \in Host /\ m.s \in SlotNum /\ m.n \in Int
    BY <2>1, Zenon DEF Message
  <2>3. sl \in SlotValue
    BY <2>2, StateTypes, Zenon
  <2>4. /\ msgs' = msgs \ {m} /\ slot' = [slot EXCEPT ![m.to][m.s] = Prepared(sl, m.n)]
        /\ Reply(m, Promises(sl, m.n), sl.seqNumAccepted, sl.value, sl.seqNumHighest)
    BY Zenon DEF Prepare
  <2>. HIDE DEF sl
  <2>5. /\ Prepared(sl, m.n) \in SlotValue /\ Prepared(sl, m.n).isDecided = sl.isDecided
        /\ Promises(sl, m.n) \in BOOLEAN /\ sl.seqNumAccepted \in Int /\ sl.value \in Value
        /\ sl.seqNumHighest \in Int
    BY <2>2, <2>3, <1>HandlerTypes, Zenon DEF Value
  <2>6. round' \in [Thread -> Round] /\ RoundsKept(round, round')
    BY <2>1, <2>4, <2>5, <1>ReplyType, Zenon
  <2>7. slot' \in [Host -> [SlotNum -> SlotValue]] /\ SlotsKept(slot, slot')
    <3>1. Prepared(sl, m.n).isDecided = slot[m.to][m.s].isDecided
      BY <2>5, Zenon DEF sl
    <3>2. QED
      BY <2>2, <2>4, <2>5, <3>1, OneSlot, Zenon DEF AdminTypeOK
  <2>8. WaitOK(admin, slot', round')
    BY <2>6, <2>7, <1>StillWaits, Zenon DEF AdminOK, AdminTypeOK
  <2>9. QED
    BY <2>4, <2>6, <2>7, <2>8, <1>PaxosKeepsInv, Zenon DEF Prepare, AdminTypeOK, Left
(* Accept.                                                                 *)
<1>AcceptKeepsInv. ASSUME AdminInv, NEW m \in msgs, Accept(m)
                   PROVE  AdminInv'
  <2>. USE <1>AcceptKeepsInv
  <2>. USE DEF AdminInv
  <2>. DEFINE sl == slot[m.to][m.s]
  <2>1. m \in Message
    BY Zenon DEF AdminTypeOK
  <2>2. m.to \in Host /\ m.s \in SlotNum /\ m.n \in Int /\ m.v \in Value
    BY <2>1, Zenon DEF Message
  <2>3. sl \in SlotValue
    BY <2>2, StateTypes, Zenon
  <2>4. /\ msgs' = msgs \ {m} /\ slot' = [slot EXCEPT ![m.to][m.s] = Accepted(sl, m.n, m.v)]
        /\ Reply(m, Accepts(sl, m.n), 0, Nil, sl.seqNumHighest)
    BY Zenon DEF Accept
  <2>. HIDE DEF sl
  <2>5. Accepted(sl, m.n, m.v) \in SlotValue /\ Accepted(sl, m.n, m.v).isDecided = sl.isDecided
    BY <2>2, <2>3, <1>AcceptedType, Zenon
  <2>6. round' \in [Thread -> Round] /\ RoundsKept(round, round')
    <3>1. Accepts(sl, m.n) \in BOOLEAN /\ sl.seqNumHighest \in Int /\ Nil \in Value
      BY <2>2, <2>3, <1>HandlerTypes, Zenon DEF Value
    <3>2. 0 \in Int
      OBVIOUS
    <3>3. QED
      BY <2>1, <2>4, <3>1, <3>2, <1>ReplyType, Zenon
  <2>7. slot' \in [Host -> [SlotNum -> SlotValue]] /\ SlotsKept(slot, slot')
    <3>1. Accepted(sl, m.n, m.v).isDecided = slot[m.to][m.s].isDecided
      BY <2>5, Zenon DEF sl
    <3>2. QED
      BY <2>2, <2>4, <2>5, <3>1, OneSlot, Zenon DEF AdminTypeOK
  <2>8. WaitOK(admin, slot', round')
    BY <2>6, <2>7, <1>StillWaits, Zenon DEF AdminOK, AdminTypeOK
  <2>9. QED
    BY <2>4, <2>6, <2>7, <2>8, <1>PaxosKeepsInv, Zenon DEF Accept, AdminTypeOK, Left
(* Decide.                                                                 *)
<1>DecideKeepsInv. ASSUME AdminInv, NEW m \in msgs, Decide(m)
                   PROVE  AdminInv'
  <2>. USE <1>DecideKeepsInv
  <2>. USE DEF AdminInv
  <2>. DEFINE sl == DecidedAs(slot[m.to][m.s], m.v)
  <2>1. m \in Message
    BY Zenon DEF AdminTypeOK
  <2>2. m.to \in Host /\ m.s \in SlotNum /\ m.v \in Value
    BY <2>1, Zenon DEF Message
  <2>3. sl \in SlotValue /\ sl.isDecided
    <3>1. slot[m.to][m.s] \in SlotValue
      BY <2>2, StateTypes, Zenon
    <3>2. 0 \in Int
      OBVIOUS
    <3>3. QED
      BY <2>2, <3>1, <3>2, <1>HandlerTypes, Zenon
  <2>4. msgs' = msgs \ {m} /\ SetDecided(m.to, m.s, sl) /\ round' = round
    BY Zenon DEF Decide
  <2>. HIDE DEF sl
  <2>5. /\ slot' \in [Host -> [SlotNum -> SlotValue]] /\ SlotsKept(slot, slot')
        /\ maxDecidedSlot' \in [Host -> SlotNum]
    BY <2>2, <2>3, <2>4, SetDecidedType, Zenon
  <2>6. WaitOK(admin, slot', round')
    <3>1. RoundsKept(round, round')
      BY <2>4, Zenon DEF RoundsKept
    <3>2. QED
      BY <2>5, <3>1, <1>StillWaits, Zenon DEF AdminOK, AdminTypeOK
  <2>7. QED
    BY <2>4, <2>5, <2>6, <1>PaxosKeepsInv, Zenon DEF Decide, AdminTypeOK, Left
(* A call to a host that is down.                                          *)
<1>CallFailsKeepsInv. ASSUME AdminInv, NEW m \in msgs, CallFails(m)
                      PROVE  AdminInv'
  <2>. USE <1>CallFailsKeepsInv
  <2>. USE DEF AdminInv
  <2>1. m \in Message
    BY Zenon DEF AdminTypeOK
  <2>2. msgs' = msgs \ {m} /\ slot' = slot /\ Reply(m, FALSE, 0, Nil, 0)
    BY Zenon DEF CallFails, pxVars
  <2>3. round' \in [Thread -> Round] /\ RoundsKept(round, round')
    <3>1. 0 \in Int /\ Nil \in Value /\ FALSE \in BOOLEAN
      BY DEF Value
    <3>2. QED
      BY <2>1, <2>2, <3>1, <1>ReplyType, Zenon
  <2>4. SlotsKept(slot, slot')
    BY <2>2, Zenon DEF SlotsKept
  <2>5. WaitOK(admin, slot', round')
    BY <2>3, <2>4, <1>StillWaits, Zenon DEF AdminOK, AdminTypeOK
  <2>6. QED
    BY <2>2, <2>3, <2>4, <2>5, <1>PaxosKeepsInv, Zenon DEF CallFails, pxVars, AdminTypeOK, Left
<1>1. ASSUME AdminInv, NEW t \in Thread, Proposer(t) PROVE AdminInv'
  BY <1>1, <1>SendPrepareKeepsInv, <1>SendAcceptKeepsInv, <1>SendDecideKeepsInv, Zenon DEF Proposer
<1>2. ASSUME AdminInv, NEW m \in msgs, Deliver(m) PROVE AdminInv'
  BY <1>2, <1>PrepareKeepsInv, <1>AcceptKeepsInv, <1>DecideKeepsInv, <1>CallFailsKeepsInv, Zenon DEF Deliver
<1>3. QED
  BY <1>1, <1>2, <1>StartKeepsInv, <1>StopKeepsInv, Zenon

(* The fields of the administrator that a change sets once.                *)
Same(a, b) ==
  /\ b.op = a.op /\ b.x = a.x /\ b.peers = a.peers /\ b.good = a.good
  /\ b.max = a.max /\ b.missed = a.missed /\ b.unreached = a.unreached

(* An administrator with a change to make.                                 *)
Known(a) == a \in Admin /\ a.op # "none" /\ a.x \in Host /\ a.peers # <<>>

(* The lists that depend on these fields.                                  *)
LEMMA SameLists ==
  ASSUME NEW a, NEW b, Same(a, b)
  PROVE  Locked(b) = Locked(a) /\ NewPeers(b) = NewPeers(a) /\ SyncList(b) = SyncList(a)
BY Zenon DEF Same, Locked, NewPeers, SyncList

(* Whoever has the new list has it still.                                  *)
LEMMA SameHasList ==
  ASSUME NEW a, NEW b, Same(a, b), NEW prs, NEW index, NEW q, HasList(a, prs, index, q)
  PROVE  HasList(b, prs, index, q)
BY SameLists, Zenon DEF Same, HasList


(* A list without one of its hosts is a list of hosts.                     *)
LEMMA WithoutType ==
  ASSUME NEW l \in Seq(Host), NEW x
  PROVE  Without(l, x) \in Seq(Host)
<1>. DEFINE F(i) == IF x \in {l[j] : j \in 1 .. i} THEN l[i + 1] ELSE l[i]
<1>1. ASSUME NEW i \in 1 .. Len(l) - 1 PROVE F(i) \in Host
  BY <1>1
<1>2. Without(l, x) = [i \in 1 .. Len(l) - 1 |-> F(i)]
  BY Zenon DEF Without
<1>. HIDE DEF F
<1>3. [i \in 1 .. Len(l) - 1 |-> F(i)] \in [1 .. Len(l) - 1 -> Host]
  BY <1>1, Zenon
<1>4. CASE l = <<>>
  BY <1>2, <1>4
<1>5. CASE l # <<>>
  <2>1. Len(l) - 1 \in Nat
    BY <1>5
  <2>2. QED
    BY <1>2, <1>3, <2>1
<1>6. QED
  BY <1>4, <1>5

(* They are lists of hosts.                                                *)
LEMMA ListTypes ==
  ASSUME NEW a \in Admin, a.x \in Host
  PROVE  Locked(a) \in Seq(Host) /\ NewPeers(a) \in Seq(Host) /\ SyncList(a) \in Seq(Host)
<1>1. a.peers \in Seq(Host) /\ a.good \in Seq(Host)
  BY Zenon DEF Admin
<1>2. a.peers \o <<a.x>> \in Seq(Host)
  BY <1>1
<1>3. QED
  BY <1>1, <1>2, WithoutType, Zenon DEF Locked, NewPeers, SyncList

(* What beginning a loop changes.                                          *)
LEMMA LoopFields ==
  ASSUME NEW a \in Admin, NEW pc \in AdminPc, NEW list \in Seq(Host)
  PROVE  LET b == Loop(a, pc, list)
         IN  /\ b \in Admin /\ Same(a, b) /\ b.pc = pc /\ b.list = list /\ b.i = 1
             /\ b.s = a.s /\ b.min = a.min /\ b.err = a.err
<1>1. 1 \in Nat \ {0}
  OBVIOUS
<1>2. Loop(a, pc, list) \in Admin
  BY <1>1, Zenon DEF Loop, Admin
<1>3. QED
  BY <1>2, Zenon DEF Loop, Admin, Same

(* What setting the error changes.                                         *)
LEMMA ErrFields ==
  ASSUME NEW a \in Admin, NEW err \in BOOLEAN
  PROVE  LET b == [a EXCEPT !.err = err]
         IN  /\ b \in Admin /\ Same(a, b) /\ b.err = err
             /\ b.pc = a.pc /\ b.list = a.list /\ b.i = a.i
<1>1. [a EXCEPT !.err = err] \in Admin
  BY Zenon DEF Admin
<1>2. QED
  BY <1>1, Zenon DEF Admin, Same

(* The pcs at which the deferred unlocking is at its beginning, or has     *)
(* nobody to unlock.                                                       *)
Unlocks(u) ==
  \/ u.pc = "unlock" /\ u.list = Locked(u) /\ u.i = 1 /\ u.list # <<>>
  \/ u.pc = "done" /\ Locked(u) = <<>>

(* What beginning the deferred unlocking changes.                          *)
LEMMA UnlockingFields ==
  ASSUME NEW a \in Admin, a.x \in Host, NEW err \in BOOLEAN
  PROVE  LET u == Unlocking(a, err)
         IN  u \in Admin /\ Same(a, u) /\ u.err = err /\ Unlocks(u)
<1>. DEFINE u == Unlocking(a, err)
            l == Loop(a, "unlock", Locked(a))
<1>1. CASE Locked(a) = <<>>
  <2>1. u = [a EXCEPT !.pc = "done", !.err = err]
    BY <1>1, Zenon DEF Unlocking, Return
  <2>2. "done" \in AdminPc
    BY Zenon DEF AdminPc
  <2>3. u \in Admin /\ Same(a, u) /\ u.err = err /\ u.pc = "done"
    <3>1. u \in Admin
      BY <2>1, <2>2, Zenon DEF Admin
    <3>2. QED
      BY <2>1, <3>1, Zenon DEF Admin, Same
  <2>4. QED
    BY <1>1, <2>3, SameLists, Zenon DEF Unlocks
<1>2. CASE Locked(a) # <<>>
  <2>1. u = [l EXCEPT !.err = err]
    BY <1>2, Zenon DEF Unlocking
  <2>2. "unlock" \in AdminPc /\ Locked(a) \in Seq(Host)
    BY ListTypes, Zenon DEF AdminPc
  <2>3. l \in Admin /\ Same(a, l) /\ l.pc = "unlock" /\ l.list = Locked(a) /\ l.i = 1
    BY <2>2, LoopFields, Zenon
  <2>. HIDE DEF l, u
  <2>4. /\ u \in Admin /\ Same(l, u) /\ u.err = err
        /\ u.pc = l.pc /\ u.list = l.list /\ u.i = l.i
    BY <2>1, <2>3, ErrFields, Zenon
  <2>5. Same(a, u)
    BY <2>3, <2>4, Zenon DEF Same
  <2>6. Locked(u) = Locked(a)
    BY <2>5, SameLists, Zenon
  <2>7. Unlocks(u)
    BY <1>2, <2>3, <2>4, <2>6, Zenon DEF Unlocks
  <2>8. QED
    BY <2>4, <2>5, <2>7, Zenon DEF u
<1>3. QED
  BY <1>1, <1>2

(* Unlocking keeps the invariant, if whoever is locked is in the list or   *)
(* was not reached; and, when no error is returned, if the change is done. *)
LEMMA UnlockingOK ==
  ASSUME NEW a, Known(a), NEW err \in BOOLEAN,
         NEW locked, NEW prs, NEW index, NEW slots, NEW rounds,
         \A p \in Host : locked[p] => p \in a.unreached \/ p \in Range(Locked(a)),
         ~err => /\ \A q \in Range(NewPeers(a)) : HasList(a, prs, index, q)
                 /\ a.op = "add" =>
                      \A j \in 1 .. Len(a.peers), s \in SlotNum :
                        s <= a.max => slots[a.peers[j]][s].isDecided /\ slots[a.x][s].isDecided
  PROVE  LET u == Unlocking(a, err)
         IN  u \in Admin /\ AdminOK(u, locked, prs, index, slots, rounds)
<1>. DEFINE u == Unlocking(a, err)
<1>1. u \in Admin /\ Same(a, u) /\ u.err = err /\ Unlocks(u)
  BY UnlockingFields, Zenon DEF Known
<1>2. Locked(u) = Locked(a) /\ NewPeers(u) = NewPeers(a) /\ SyncList(u) = SyncList(a)
  BY <1>1, SameLists, Zenon
<1>3. Locked(u) \in Seq(Host) /\ a.peers \in Seq(Host)
  BY <1>2, ListTypes, Zenon DEF Known, Admin
<1>. HIDE DEF u
<1>4. ListOK(u)
  BY <1>1, <1>3 DEF ListOK, Unlocks, Known, Same
<1>5. LockOK(u, locked)
  BY <1>1, <1>2, <1>3 DEF LockOK, Unlocks, Same, Range
<1>6. UpdateOK(u, prs, index)
  BY <1>1, <1>2, Zenon DEF UpdateOK, Unlocks, Same, HasList, Copying, Succeeding
<1>7. SyncOK(u, slots)
  BY <1>1, <1>2, Zenon DEF SyncOK, Unlocks, Same, Copying, Succeeding
<1>8. CopyOK(u, slots)
  <2>1. 1 \in 1 .. Len(a.peers)
    BY <1>3 DEF Known
  <2>2. QED
    BY <1>1, <2>1, Zenon DEF CopyOK, Unlocks, Same, Copying, Succeeding
<1>9. WaitOK(u, slots, rounds)
  BY <1>1, Zenon DEF WaitOK, Unlocks
<1>10. QED
  BY <1>1, <1>4, <1>5, <1>6, <1>7, <1>8, <1>9, Zenon DEF u, AdminOK

(* A call uses up the bound at most.                                       *)
LEMMA FailureType ==
  ASSUME AdminTypeOK, NEW q, NEW ok, Failure(q, ok)
  PROVE  left' \in Left
BY LeftType, Zenon DEF Failure, AdminTypeOK, Left

(* Whom the administrator calls.                                           *)
LEMMA CalledHost ==
  ASSUME NEW a \in Admin, ListOK(a), a.pc \notin {"idle", "kill", "update", "done"}
  PROVE  a.list[a.i] \in Host /\ a.i \in 1 .. Len(a.list) /\ a.list \in Seq(Host)
<1>1. a.list \in Seq(Host) /\ a.i \in 1 .. Len(a.list)
  BY Zenon DEF Admin, ListOK
<1>2. QED
  BY <1>1, ElementType, Zenon

(* A step of the administrator that changes nothing else.                  *)
LEMMA AdminKeepsInv ==
  ASSUME AdminInv, UNCHANGED <<pxVars, round, msgs, now, decided>>, left' \in Left,
         admin' \in Admin, AdminOK(admin', isLocked, peers, me, slot, round)
  PROVE  AdminInv'
<1>1. AdminTypeOK'
  BY Zenon DEF AdminInv, AdminTypeOK, Left, pxVars
<1>2. QED
  BY <1>1, Zenon DEF AdminInv, pxVars

(* Before anyone is to be locked, only those an earlier change did not     *)
(* reach are.                                                              *)
LEMMA EarlyOK ==
  ASSUME NEW b, Known(b), NEW locked, NEW prs, NEW index, NEW slots, NEW rounds,
         b.pc \in {"open", "show"} => b.list = b.peers /\ b.i \in 1 .. Len(b.list),
         b.pc \in {"open", "kill", "show"},
         \A p \in Host : locked[p] => p \in b.unreached
  PROVE  AdminOK(b, locked, prs, index, slots, rounds)
<1>1. ListOK(b)
  BY Zenon DEF ListOK, Known
<1>2. LockOK(b, locked)
  BY Zenon DEF LockOK
<1>3. UpdateOK(b, prs, index) /\ SyncOK(b, slots) /\ CopyOK(b, slots) /\ WaitOK(b, slots, rounds)
  BY Zenon DEF UpdateOK, SyncOK, CopyOK, WaitOK, Copying, Succeeding
<1>4. QED
  BY <1>1, <1>2, <1>3, Zenon DEF AdminOK

(* AddPeer or RemovePeer is called.                                        *)
LEMMA ChangeKeepsInv ==
  ASSUME AdminInv, NEW op \in {"add", "remove"}, NEW y \in Host, NEW h \in Host, Change(op, y, h)
  PROVE  AdminInv'
(* A change begins with whoever the earlier ones did not unlock.           *)
<1>ChangeStep. ASSUME NEW a \in Admin, a.pc \in {"idle", "done"},
                      NEW locked, NEW prs, NEW index, NEW slots, NEW rounds, LockOK(a, locked),
                      NEW x \in Host, NEW l \in Seq(Host), l # <<>>
               PROVE  LET b == Loop([NoAdmin EXCEPT !.op = op, !.x = x, !.peers = l,
                                                    !.unreached = a.unreached], "open", l)
                      IN  b \in Admin /\ AdminOK(b, locked, prs, index, slots, rounds)
  <2>. USE <1>ChangeStep
  <2>. DEFINE d == [NoAdmin EXCEPT !.op = op, !.x = x, !.peers = l, !.unreached = a.unreached]
              b == Loop(d, "open", l)
  <2>1. a.unreached \in SUBSET Host /\ op \in {"none", "add", "remove"} /\ x \in Host \cup {0}
    BY Zenon DEF Admin
  <2>2. d \in Admin /\ d.op = op /\ d.x = x /\ d.peers = l /\ d.unreached = a.unreached
    BY <2>1, NoAdminType, Zenon DEF Admin
  <2>3. "open" \in AdminPc
    BY Zenon DEF AdminPc
  <2>. HIDE DEF d
  <2>4. b \in Admin /\ Same(d, b) /\ b.pc = "open" /\ b.list = l /\ b.i = 1
    BY ONLY <1>ChangeStep, <2>2, <2>3, LoopFields
  <2>. HIDE DEF b
  <2>5. Known(b)
    BY <2>2, <2>4 DEF Known, Same
  <2>6. b.list = b.peers /\ b.i \in 1 .. Len(b.list)
    BY <2>2, <2>4 DEF Same
  <2>7. \A p \in Host : locked[p] => p \in b.unreached
    BY <2>2, <2>4, Zenon DEF LockOK, Same
  <2>8. AdminOK(b, locked, prs, index, slots, rounds)
    BY <2>4, <2>5, <2>6, <2>7, EarlyOK, Zenon
  <2>9. QED
    BY <2>4, <2>8, Zenon DEF b, d
<1>. USE DEF AdminInv
<1>1. left' \in Left
  BY LeftType, Zenon DEF Change, AdminTypeOK, Left
<1>2. peers[h] \in Seq(Host) /\ peers[h] # <<>>
  BY Zenon DEF AdminTypeOK
<1>3. admin \in Admin /\ admin.pc \in {"idle", "done"} /\ LockOK(admin, isLocked)
  BY Zenon DEF Change, AdminTypeOK, AdminOK
<1>4. admin' \in Admin /\ AdminOK(admin', isLocked, peers, me, slot, round)
  BY <1>2, <1>3, <1>ChangeStep, Zenon DEF Change
<1>5. QED
  BY <1>1, <1>4, AdminKeepsInv, Zenon DEF Change

(* RemoteKill of the peer to remove.                                       *)
LEMMA RemoteKillKeepsInv ==
  ASSUME AdminInv, NEW handled \in BOOLEAN, NEW ok \in BOOLEAN, RemoteKill(handled, ok)
  PROVE  AdminInv'
(* The peer to be removed is killed, or not.                               *)
<1>KillStep. ASSUME NEW a \in Admin, a.pc = "kill", NEW locked, NEW prs, NEW index, NEW slots,
                    NEW rounds,
                    AdminOK(a, locked, prs, index, slots, rounds)
             PROVE  LET b == Loop(a, "show", a.peers)
                    IN  b \in Admin /\ AdminOK(b, locked, prs, index, slots, rounds)
  <2>. USE <1>KillStep
  <2>. DEFINE b == Loop(a, "show", a.peers)
  <2>1. Known(a) /\ LockOK(a, locked)
    BY Zenon DEF AdminOK, ListOK, Known
  <2>2. a.peers \in Seq(Host) /\ a.peers # <<>> /\ "show" \in AdminPc
    BY <2>1, Zenon DEF Known, Admin, AdminPc
  <2>3. b \in Admin /\ Same(a, b) /\ b.pc = "show" /\ b.list = a.peers /\ b.i = 1
    BY <2>2, LoopFields, Zenon
  <2>. HIDE DEF b
  <2>4. Known(b) /\ b.list = b.peers /\ \A p \in Host : locked[p] => p \in b.unreached
    BY <2>1, <2>3, Zenon DEF Known, Same, LockOK
  <2>5. b.i \in 1 .. Len(b.list)
    BY <2>2, <2>3
  <2>6. AdminOK(b, locked, prs, index, slots, rounds)
    BY <2>3, <2>4, <2>5, EarlyOK, Zenon
  <2>7. QED
    BY <2>3, <2>6, Zenon DEF b
<1>. USE DEF AdminInv
<1>1. left' \in Left
  BY FailureType, Zenon DEF RemoteKill, Call
<1>2. admin \in Admin /\ admin.pc = "kill"
  BY Zenon DEF RemoteKill, AdminTypeOK
<1>3. admin.x \in Host
  BY <1>2, Zenon DEF AdminOK, ListOK
<1>4. down' \subseteq Host
  BY <1>3, Zenon DEF RemoteKill, AdminTypeOK
<1>5. admin' \in Admin /\ AdminOK(admin', isLocked, peers, me, slot, round)
  BY <1>2, <1>KillStep, Zenon DEF RemoteKill
<1>6. AdminTypeOK'
  BY <1>1, <1>4, <1>5, Zenon DEF RemoteKill, AdminTypeOK, Left
<1>7. QED
  BY <1>5, <1>6, Zenon DEF RemoteKill

(* While some are still to be locked nothing has been asked.               *)
LEMMA LockingOK ==
  ASSUME NEW b, Known(b), NEW locked, NEW prs, NEW index, NEW slots, NEW rounds,
         \/ b.pc = "lock" /\ b.list = Locked(b)
         \/ b.pc = "min" /\ b.list = SyncList(b) /\ b.i = 1,
         b.i \in 1 .. Len(b.list),
         \A p \in Host : locked[p] => p \in b.unreached \/ p \in Range(Locked(b))
  PROVE  AdminOK(b, locked, prs, index, slots, rounds)
<1>1. ListOK(b)
  BY Zenon DEF ListOK, Known
<1>2. LockOK(b, locked)
  BY Zenon DEF LockOK
<1>3. UpdateOK(b, prs, index) /\ CopyOK(b, slots) /\ WaitOK(b, slots, rounds)
  BY Zenon DEF UpdateOK, CopyOK, WaitOK, Copying, Succeeding
<1>4. SyncOK(b, slots)
  <2>1. b.pc # "max" /\ b.pc \notin {"sync", "syncing"} /\ b.pc # "update"
    OBVIOUS
  <2>2. ~Copying(b) /\ ~Succeeding(b)
    BY Zenon DEF Copying, Succeeding
  <2>3. b.pc = "min" => \A j \in 1 .. Len(b.peers) : ~(j < b.i)
    OBVIOUS
  <2>4. b.pc # "lock" \/ b.pc \notin {"min", "max"}
    OBVIOUS
  <2>5. QED
    BY <2>1, <2>2, <2>3, <2>4, Zenon DEF SyncOK
<1>5. QED
  BY <1>1, <1>2, <1>3, <1>4, Zenon DEF AdminOK

(* SetLock, of the three loops of lockPeers.                               *)
LEMMA lockPeersKeepsInv ==
  ASSUME AdminInv, NEW handled \in BOOLEAN, NEW ok \in BOOLEAN, lockPeers(handled, ok)
  PROVE  AdminInv'
(* The invariant after a SetLock, to open or to lock: whoever is locked is *)
(* in the list or was not reached.                                         *)
<1>SetLockOpens. ASSUME NEW b, Known(b), b.pc = "open", b.list = b.peers,
                        NEW locked, NEW prs, NEW index, NEW slots, NEW rounds,
                        \A p \in Host : locked[p] => p \in b.unreached,
                        NEW c, c = IF b.i > Len(b.list) THEN AfterLocks(b) ELSE b
                 PROVE  c \in Admin /\ AdminOK(c, locked, prs, index, slots, rounds)
  <2>. USE <1>SetLockOpens
  <2>1. b \in Admin /\ b.x \in Host
    BY Zenon DEF Known
  <2>2. CASE ~(b.i > Len(b.list))
    <3>1. c = b /\ b.i \in 1 .. Len(b.list)
      BY <2>1, <2>2 DEF Admin
    <3>2. QED
      BY <3>1, <2>1, EarlyOK, Zenon
  <2>3. CASE b.i > Len(b.list)
    <3>0. PICK one \in Seq(Host) : one = <<b.x>>
      <4>1. <<b.x>> \in Seq(Host)
        BY <2>1
      <4>2. QED
        BY <4>1, Zenon
    <3>. DEFINE d == Loop(b, "show", b.peers)
                k == Loop(b, "kill", one)
    <3>1. c = d \/ c = k
      BY <2>3, <3>0, Zenon DEF AfterLocks
    <3>2. "show" \in AdminPc /\ "kill" \in AdminPc
      BY Zenon DEF AdminPc
    <3>3. b.peers \in Seq(Host) /\ b.peers # <<>>
      BY Zenon DEF Known, Admin
    <3>4. /\ c \in Admin /\ Same(b, c) /\ c.i = 1
          /\ (c.pc = "show" /\ c.list = b.peers) \/ c.pc = "kill"
      <4>1. d \in Admin /\ Same(b, d) /\ d.i = 1 /\ d.pc = "show" /\ d.list = b.peers
        BY ONLY <2>1, <3>2, <3>3, LoopFields
      <4>2. k \in Admin /\ Same(b, k) /\ k.i = 1 /\ k.pc = "kill"
        BY ONLY <2>1, <3>0, <3>2, LoopFields
      <4>. HIDE DEF d, k
      <4>3. QED
        BY <3>1, <4>1, <4>2, Zenon
    <3>5. Known(c)
      BY <3>4, Zenon DEF Known, Same
    <3>6. c.pc = "show" => c.list = c.peers /\ c.i \in 1 .. Len(c.list)
      BY <3>3, <3>4 DEF Same
    <3>7. \A p \in Host : locked[p] => p \in c.unreached
      BY <3>4, Zenon DEF Same
    <3>8. QED
      BY <3>4, <3>5, <3>6, <3>7, EarlyOK, Zenon
  <2>4. QED
    BY <2>2, <2>3
(* After a SetLock that locks.                                             *)
<1>SetLockLocks. ASSUME NEW b, Known(b), b.pc = "lock", b.list = Locked(b), b.list # <<>>,
                        NEW locked, NEW prs, NEW index, NEW slots, NEW rounds,
                        \A p \in Host : locked[p] => p \in b.unreached \/ p \in Range(Locked(b)),
                        NEW c, c = IF b.i > Len(b.list) THEN AfterLocks(b) ELSE b
                 PROVE  c \in Admin /\ AdminOK(c, locked, prs, index, slots, rounds)
  <2>. USE <1>SetLockLocks
  <2>1. b \in Admin /\ b.x \in Host
    BY Zenon DEF Known
  <2>2. CASE ~(b.i > Len(b.list))
    <3>1. c = b /\ b.i \in 1 .. Len(b.list)
      BY <2>1, <2>2 DEF Admin
    <3>2. AdminOK(b, locked, prs, index, slots, rounds)
      BY <3>1, LockingOK, Zenon
    <3>3. QED
      BY <2>1, <3>1, <3>2, Zenon
  <2>3. CASE b.i > Len(b.list) /\ b.op = "add" /\ b.err
    <3>1. c = Unlocking(b, TRUE)
      BY <2>3, Zenon DEF AfterLocks
    <3>2. QED
      BY <3>1, UnlockingOK, Zenon
  <2>4. CASE b.i > Len(b.list) /\ ~(b.op = "add" /\ b.err)
    <3>. DEFINE d == [b EXCEPT !.err = FALSE]
                m == Loop(d, "min", SyncList(d))
    <3>1. d \in Admin /\ Same(b, d)
      BY <2>1, ErrFields, Zenon
    <3>2. Locked(d) = Locked(b) /\ SyncList(d) = SyncList(b) /\ d.x \in Host
      BY <2>1, <3>1, SameLists, Zenon DEF Same
    <3>. HIDE DEF d
    <3>3. SyncList(d) \in Seq(Host) /\ "min" \in AdminPc
      BY <3>1, <3>2, ListTypes, Zenon DEF AdminPc
    <3>4. m \in Admin /\ Same(d, m) /\ m.pc = "min" /\ m.list = SyncList(d) /\ m.i = 1
      BY <3>1, <3>3, LoopFields, Zenon
    <3>5. c = m
      <4>1. Loop([b EXCEPT !.err = FALSE], "min", SyncList(b)) = m
        BY <3>2, Zenon DEF d
      <4>2. QED
        BY <2>4, <4>1, Zenon DEF AfterLocks
    <3>. HIDE DEF m
    <3>6. Locked(m) = Locked(b) /\ SyncList(m) = SyncList(b)
      BY <3>2, <3>4, SameLists, Zenon
    <3>7. Known(m) /\ m.unreached = b.unreached
      BY <3>1, <3>4, Zenon DEF Known, Same
    <3>8. SyncList(b) # <<>>
      BY Zenon DEF SyncList, Locked, Known
    <3>9. m.i \in 1 .. Len(m.list)
      BY <3>2, <3>3, <3>4, <3>8
    <3>10. AdminOK(m, locked, prs, index, slots, rounds)
      BY <3>2, <3>4, <3>6, <3>7, <3>9, LockingOK, Zenon
    <3>11. QED
      BY <3>4, <3>5, <3>10, Zenon
  <2>5. QED
    BY <2>2, <2>3, <2>4
(* After a SetLock that unlocks: those from the index on are still to be   *)
(* unlocked.                                                               *)
<1>SetLockUnlocks. ASSUME NEW b, Known(b), b.pc = "unlock", b.list = Locked(b),
                          NEW locked, NEW prs, NEW index, NEW slots, NEW rounds,
                          LockOK(b, locked), UpdateOK(b, prs, index), SyncOK(b, slots), CopyOK(b, slots),
                          NEW c, c = IF b.i > Len(b.list) THEN AfterLocks(b) ELSE b
                   PROVE  c \in Admin /\ AdminOK(c, locked, prs, index, slots, rounds)
  <2>. USE <1>SetLockUnlocks
  <2>1. b \in Admin /\ b.x \in Host
    BY Zenon DEF Known
  <2>2. CASE ~(b.i > Len(b.list))
    <3>1. c = b /\ b.i \in 1 .. Len(b.list)
      BY <2>1, <2>2 DEF Admin
    <3>2. ListOK(b)
      BY <3>1, Zenon DEF ListOK, Known
    <3>3. WaitOK(b, slots, rounds)
      BY Zenon DEF WaitOK
    <3>4. QED
      BY <2>1, <3>1, <3>2, <3>3, Zenon DEF AdminOK
  <2>3. CASE b.i > Len(b.list)
    <3>1. "done" \in AdminPc /\ b.err \in BOOLEAN
      BY <2>1, Zenon DEF AdminPc, Admin
    <3>2. c = [b EXCEPT !.pc = "done", !.err = b.err]
      BY <2>3, Zenon DEF AfterLocks, Return
    <3>3. c \in Admin /\ c.pc = "done" /\ c.err = b.err /\ Same(b, c)
      BY <2>1, <3>1, <3>2, Zenon DEF Admin, Same
    <3>4. NewPeers(c) = NewPeers(b)
      BY <3>3, SameLists, Zenon
    <3>5. ListOK(c)
      BY <3>3, Zenon DEF ListOK, Same, Known
    <3>6. LockOK(c, locked)
      <4>1. b.i .. Len(b.list) = {}
        BY <2>1, <2>3, ListTypes DEF Admin
      <4>2. QED
        BY <3>3, <4>1, Zenon DEF LockOK, Same
    <3>7. UpdateOK(c, prs, index)
      BY <3>3, <3>4, Zenon DEF UpdateOK, Same, HasList, Copying, Succeeding
    <3>8. SyncOK(c, slots) /\ CopyOK(c, slots) /\ WaitOK(c, slots, rounds)
      BY <3>3, Zenon DEF SyncOK, CopyOK, WaitOK, Same, Copying, Succeeding
    <3>9. QED
      BY <3>3, <3>5, <3>6, <3>7, <3>8, Zenon DEF AdminOK
  <2>4. QED
    BY <2>2, <2>3
(* A SetLock, handled or not, keeps the invariant.                         *)
<1>LockStep. ASSUME NEW a \in Admin, NEW locked \in [Host -> BOOLEAN],
                    NEW prs, NEW index, NEW slots, NEW rounds,
                    AdminOK(a, locked, prs, index, slots, rounds), a.pc \in {"open", "lock", "unlock"}
             PROVE  LET q == a.list[a.i]
                        b == [a EXCEPT !.i = @ + 1,
                                       !.err = @ \/ (~ok /\ a.pc = "lock"),
                                       !.unreached = IF handled THEN @ \ {q}
                                                     ELSE IF a.pc = "unlock" THEN @ \cup {q} ELSE @]
                        c == IF b.i > Len(a.list) THEN AfterLocks(b) ELSE b
                    IN  /\ c \in Admin
                        /\ AdminOK(c, IF handled THEN [locked EXCEPT ![q] = (a.pc = "lock")] ELSE locked,
                                   prs, index, slots, rounds)
  <2>. USE <1>LockStep
  <2>. DEFINE q == a.list[a.i]
              e == a.err \/ (~ok /\ a.pc = "lock")
              U == IF handled THEN a.unreached \ {q}
                   ELSE IF a.pc = "unlock" THEN a.unreached \cup {q} ELSE a.unreached
              b == [a EXCEPT !.i = @ + 1, !.err = e, !.unreached = U]
              c == IF b.i > Len(a.list) THEN AfterLocks(b) ELSE b
              l == IF handled THEN [locked EXCEPT ![q] = (a.pc = "lock")] ELSE locked
  <2>1. ListOK(a) /\ LockOK(a, locked)
    BY Zenon DEF AdminOK
  <2>2. /\ a.i \in 1 .. Len(a.list) /\ a.op # "none" /\ a.x \in Host /\ a.peers # <<>>
        /\ a.pc = "open" => a.list = a.peers
        /\ a.pc \in {"lock", "unlock"} => a.list = Locked(a)
    BY <2>1, Zenon DEF ListOK
  <2>3. a.list \in Seq(Host) /\ a.unreached \in SUBSET Host /\ a.err \in BOOLEAN
    BY Zenon DEF Admin
  <2>4. q \in Host
    BY <2>2, <2>3
  <2>5. U \in SUBSET Host /\ e \in BOOLEAN
    BY <2>3, <2>4, Zenon
  <2>6. /\ b \in Admin
        /\ b.pc = a.pc /\ b.list = a.list /\ b.i = a.i + 1 /\ b.err = e /\ b.unreached = U
        /\ b.op = a.op /\ b.x = a.x /\ b.peers = a.peers /\ b.good = a.good
        /\ b.max = a.max /\ b.missed = a.missed
    <3>1. a.i + 1 \in Nat \ {0}
      BY <2>2
    <3>. HIDE DEF e, U
    <3>2. b \in Admin
      BY <2>5, <3>1, Zenon DEF Admin
    <3>3. QED
      BY <3>2, Zenon DEF Admin
  <2>9. c = IF b.i > Len(b.list) THEN AfterLocks(b) ELSE b
    BY <2>6, Zenon
  <2>11. \A p \in Host : l[p] => (locked[p] /\ ~(handled /\ p = q)) \/ (p = q /\ a.pc = "lock" /\ handled)
    BY <2>4, Zenon
  <2>. HIDE DEF c, b, l, e, U
  <2>7. Locked(b) = Locked(a) /\ NewPeers(b) = NewPeers(a)
    BY <2>6, Zenon DEF Locked, NewPeers
  <2>8. Known(b)
    BY <2>2, <2>6, Zenon DEF Known
  <2>10. a.list # <<>>
    BY <2>2, <2>3
  <2>12. c \in Admin /\ AdminOK(c, l, prs, index, slots, rounds)
    <3>1. CASE a.pc = "open"
      <4>1. \A p \in Host : l[p] => p \in b.unreached
        BY <2>1, <2>6, <2>11, <3>1, Zenon DEF LockOK, U
      <4>2. QED
        BY <3>1, <2>2, <2>6, <2>8, <2>9, <4>1, <1>SetLockOpens, Zenon
    <3>2. CASE a.pc = "lock"
      <4>1. q \in Range(Locked(b))
        BY <2>2, <2>3, <2>7, <3>2 DEF Range
      <4>2. \A p \in Host : l[p] => p \in b.unreached \/ p \in Range(Locked(b))
        BY <2>1, <2>6, <2>7, <2>11, <3>2, <4>1, Zenon DEF LockOK, U
      <4>3. QED
        BY <3>2, <2>2, <2>6, <2>7, <2>8, <2>9, <2>10, <4>2, <1>SetLockLocks, Zenon
    <3>3. CASE a.pc = "unlock"
      <4>1. LockOK(b, l)
        <5>1. ASSUME NEW p \in Host, l[p]
              PROVE  p \in b.unreached \/ \E j \in b.i .. Len(b.list) : b.list[j] = p
          <6>1. locked[p] /\ ~(handled /\ p = q)
            BY <2>11, <3>3, <5>1, Zenon
          <6>2. p \in a.unreached \/ \E j \in a.i .. Len(a.list) : a.list[j] = p
            BY <2>1, <3>3, <6>1, Zenon DEF LockOK
          <6>3. CASE p \in a.unreached
            BY <2>6, <6>1, <6>3, Zenon DEF U
          <6>4. CASE ~handled /\ p = q
            BY <2>6, <3>3, <6>4, Zenon DEF U
          <6>5. ASSUME NEW j \in a.i .. Len(a.list), a.list[j] = p, p # q
                PROVE  j \in b.i .. Len(b.list) /\ b.list[j] = p
            BY <2>2, <2>3, <2>6, <6>5
          <6>6. QED
            BY <6>1, <6>2, <6>3, <6>4, <6>5, Zenon
        <5>2. QED
          BY <2>6, <3>3, <5>1, Zenon DEF LockOK
      <4>2. b.err = a.err
        BY <2>3, <2>6, <3>3 DEF e
      <4>3. UpdateOK(b, prs, index)
        BY <2>6, <2>7, <3>3, <4>2, Zenon DEF AdminOK, UpdateOK, HasList, Copying, Succeeding
      <4>4. SyncOK(b, slots) /\ CopyOK(b, slots)
        BY <2>6, <3>3, <4>2, Zenon DEF AdminOK, SyncOK, CopyOK, Copying, Succeeding
      <4>5. QED
        BY <3>3, <2>2, <2>6, <2>7, <2>8, <2>9, <4>1, <4>3, <4>4, <1>SetLockUnlocks, Zenon
    <3>4. QED
      BY <3>1, <3>2, <3>3, Zenon
  <2>13. QED
    BY <2>12, Zenon DEF b, c, l, e, U
<1>. USE DEF AdminInv
<1>. DEFINE q == admin.list[admin.i]
<1>1. left' \in Left
  BY FailureType, Zenon DEF lockPeers, Call
<1>2. /\ admin \in Admin /\ admin.pc \in {"open", "lock", "unlock"} /\ isLocked \in [Host -> BOOLEAN]
      /\ isLocked' = IF handled THEN [isLocked EXCEPT ![q] = (admin.pc = "lock")] ELSE isLocked
  BY Zenon DEF lockPeers, AdminTypeOK
<1>3. q \in Host
  BY <1>2, CalledHost, Zenon DEF AdminOK
<1>4. isLocked' \in [Host -> BOOLEAN]
  BY <1>2, <1>3, Zenon
<1>5. admin' \in Admin /\ AdminOK(admin', isLocked', peers, me, slot, round)
  <2>. DEFINE b == [admin EXCEPT !.i = @ + 1,
                                 !.err = @ \/ (~ok /\ admin.pc = "lock"),
                                 !.unreached = IF handled THEN @ \ {q}
                                               ELSE IF admin.pc = "unlock" THEN @ \cup {q} ELSE @]
              c == IF b.i > Len(admin.list) THEN AfterLocks(b) ELSE b
              locked == IF handled THEN [isLocked EXCEPT ![q] = (admin.pc = "lock")] ELSE isLocked
  <2>1. c \in Admin /\ AdminOK(c, locked, peers, me, slot, round)
    BY <1>2, <1>LockStep, Zenon
  <2>2. admin' = c
    BY Zenon DEF lockPeers
  <2>. HIDE DEF c, locked
  <2>3. QED
    BY <1>2, <2>1, <2>2, Zenon DEF locked
<1>6. AdminTypeOK'
  BY <1>1, <1>4, <1>5, Zenon DEF lockPeers, AdminTypeOK, Left
<1>7. QED
  BY <1>5, <1>6, Zenon DEF lockPeers

(* ShowPeers.                                                              *)
LEMMA CheckStatusKeepsInv ==
  ASSUME AdminInv, NEW handled \in BOOLEAN, NEW ok \in BOOLEAN, CheckStatus(handled, ok)
  PROVE  AdminInv'
(* The hosts of a list, in any order.                                      *)
<1>OrdersType. ASSUME NEW l \in Seq(Host), NEW k \in Orders(l)
               PROVE  /\ k \in Seq(Host)
                      /\ l # <<>> => k # <<>>
  <2>. USE <1>OrdersType
  <2>1. PICK f \in Bijection(DOMAIN l, DOMAIN l) : k = [i \in DOMAIN l |-> l[f[i]]]
    BY Zenon DEF Orders
  <2>2. f \in [DOMAIN l -> DOMAIN l]
    BY Zenon DEF Bijection, Injection
  <2>3. QED
    BY <2>1, <2>2
(* The lists the administrator goes on with, sorted or from a map.         *)
<1>ShownLists. ASSUME NEW b, Known(b), NEW l \in Sorted(b), NEW g \in GoodPeers(b)
               PROVE  l \in Seq(Host) /\ l # <<>> /\ g \in Seq(Host)
  <2>. USE <1>ShownLists
  <2>1. b.peers \in Seq(Host) /\ b.good \in Seq(Host) /\ b.peers # <<>>
    BY Zenon DEF Known, Admin
  <2>2. l = b.peers \/ l \in Orders(b.peers)
    BY Zenon DEF Sorted
  <2>3. g = b.good \/ g \in Orders(b.good)
    BY Zenon DEF GoodPeers
  <2>4. l \in Seq(Host) /\ l # <<>>
    BY <2>1, <2>2, <1>OrdersType, Zenon
  <2>5. g \in Seq(Host)
    BY <2>1, <2>3, <1>OrdersType, Zenon
  <2>6. QED
    BY <2>4, <2>5
(* The checks that follow ShowPeers begin the locking, or that of nobody.  *)
<1>LockingStep. ASSUME NEW d, Known(d), NEW locked, NEW prs, NEW index, NEW slots, NEW rounds,
                       \A p \in Host : locked[p] => p \in d.unreached
                PROVE  LET c == Locking(d)
                       IN  c \in Admin /\ AdminOK(c, locked, prs, index, slots, rounds)
  <2>. USE <1>LockingStep
  <2>. DEFINE u == Loop(d, "update", NewPeers(d))
              l == Loop(d, "lock", Locked(d))
  <2>1. /\ d \in Admin /\ d.x \in Host /\ NewPeers(d) \in Seq(Host) /\ Locked(d) \in Seq(Host)
        /\ "update" \in AdminPc /\ "lock" \in AdminPc
    BY ListTypes, Zenon DEF Known, AdminPc
  <2>2. CASE Locked(d) = <<>>
    <3>1. u \in Admin /\ Same(d, u) /\ u.pc = "update" /\ u.list = NewPeers(d) /\ u.i = 1
      BY ONLY <2>1, LoopFields
    <3>2. Locking(d) = u
      BY <2>2, Zenon DEF Locking
    <3>3. d.op # "add"
      <4>1. d.peers \o <<d.x>> # <<>>
        BY <2>1 DEF Admin
      <4>2. QED
        BY <2>2, <4>1, Zenon DEF Locked
    <3>. HIDE DEF u
    <3>4. NewPeers(u) = NewPeers(d)
      BY <3>1, SameLists, Zenon
    <3>5. ListOK(u)
      BY <3>1, <3>4, Zenon DEF ListOK, Known, Same
    <3>6. LockOK(u, locked)
      BY <3>1, Zenon DEF LockOK, Same
    <3>7. UpdateOK(u, prs, index)
      <4>1. \A j \in 1 .. Len(u.list) : ~(j < u.i)
        BY <3>1
      <4>2. QED
        BY <3>1, <4>1, Zenon DEF UpdateOK, Copying, Succeeding
    <3>8. SyncOK(u, slots) /\ CopyOK(u, slots) /\ WaitOK(u, slots, rounds)
      BY <3>1, <3>3, Zenon DEF SyncOK, CopyOK, WaitOK, Copying, Succeeding, Same
    <3>9. QED
      BY <3>1, <3>2, <3>5, <3>6, <3>7, <3>8, Zenon DEF AdminOK
  <2>3. CASE Locked(d) # <<>>
    <3>1. l \in Admin /\ Same(d, l) /\ l.pc = "lock" /\ l.list = Locked(d) /\ l.i = 1
      BY ONLY <2>1, LoopFields
    <3>2. Locking(d) = l
      BY <2>3, Zenon DEF Locking
    <3>. HIDE DEF l
    <3>3. l.list = Locked(l)
      BY <3>1, SameLists, Zenon
    <3>4. Known(l) /\ \A p \in Host : locked[p] => p \in l.unreached \/ p \in Range(Locked(l))
      BY <3>1, Zenon DEF Known, Same
    <3>5. l.i \in 1 .. Len(l.list)
      BY <2>1, <2>3, <3>1
    <3>6. AdminOK(l, locked, prs, index, slots, rounds)
      BY <3>1, <3>3, <3>4, <3>5, LockingOK, Zenon
    <3>7. QED
      BY <3>1, <3>2, <3>6, Zenon
  <2>4. QED
    BY <2>2, <2>3
(* After the last ShowPeers.                                               *)
<1>AfterShowStep. ASSUME NEW b, Known(b), NEW locked, NEW prs, NEW index, NEW slots, NEW rounds,
                         \A p \in Host : locked[p] => p \in b.unreached,
                         NEW c \in AfterShow(b)
                  PROVE  c \in Admin /\ AdminOK(c, locked, prs, index, slots, rounds)
  <2>. USE <1>AfterShowStep
  <2>1. b \in Admin
    BY Zenon DEF Known
  <2>2. CASE c = Return(b, TRUE)
    <3>1. "done" \in AdminPc
      BY Zenon DEF AdminPc
    <3>2. c \in Admin /\ c.pc = "done" /\ c.err /\ Same(b, c)
      BY <2>1, <2>2, <3>1, Zenon DEF Return, Admin, Same
    <3>3. ListOK(c)
      BY <3>2, Zenon DEF ListOK, Known, Same
    <3>4. LockOK(c, locked)
      BY <3>2, Zenon DEF LockOK, Same
    <3>5. UpdateOK(c, prs, index) /\ SyncOK(c, slots) /\ CopyOK(c, slots) /\ WaitOK(c, slots, rounds)
      BY <3>2, Zenon DEF UpdateOK, SyncOK, CopyOK, WaitOK, Copying, Succeeding
    <3>6. QED
      BY <3>2, <3>3, <3>4, <3>5, Zenon DEF AdminOK
  <2>3. CASE c # Return(b, TRUE)
    <3>1. c \in {Locking([b EXCEPT !.peers = k[1], !.good = k[2]]) : k \in Sorted(b) \X GoodPeers(b)}
      BY <2>3, Zenon DEF AfterShow
    <3>2. PICK k \in Sorted(b) \X GoodPeers(b) : c = Locking([b EXCEPT !.peers = k[1], !.good = k[2]])
      BY <3>1, Zenon
    <3>. DEFINE l == k[1]
                g == k[2]
    <3>3. l \in Seq(Host) /\ l # <<>> /\ g \in Seq(Host)
      BY <1>ShownLists, Zenon
    <3>. DEFINE d == [b EXCEPT !.peers = l, !.good = g]
    <3>4. d \in Admin /\ d.op = b.op /\ d.x = b.x /\ d.peers = l /\ d.unreached = b.unreached
      BY <2>1, <3>3, Zenon DEF Admin
    <3>5. c = Locking(d)
      BY <3>2, Zenon
    <3>. HIDE DEF d
    <3>6. Known(d) /\ \A p \in Host : locked[p] => p \in d.unreached
      BY <3>3, <3>4, Zenon DEF Known
    <3>7. QED
      BY <3>5, <3>6, <1>LockingStep
  <2>4. QED
    BY <2>2, <2>3
(* The answer of ShowPeers.                                                *)
<1>ShowStep. ASSUME NEW a \in Admin, a.pc = "show", NEW locked,
                    NEW prs \in [Host -> Seq(Host) \ {<<>>}], NEW index, NEW slots, NEW rounds,
                    AdminOK(a, locked, prs, index, slots, rounds),
                    NEW c, c \in LET q == a.list[a.i]
                                     b == [a EXCEPT !.i = @ + 1,
                                                    !.good = IF ok THEN Append(@, q) ELSE @,
                                                    !.same = @ /\ (ok => Range(prs[q]) = Range(a.peers))]
                                 IN  IF b.i > Len(a.list) THEN AfterShow(b) ELSE {b}
             PROVE  c \in Admin /\ AdminOK(c, locked, prs, index, slots, rounds)
  <2>. USE <1>ShowStep
  <2>. DEFINE q == a.list[a.i]
              g == IF ok THEN Append(a.good, q) ELSE a.good
              e == a.same /\ (ok => Range(prs[q]) = Range(a.peers))
              b == [a EXCEPT !.i = @ + 1, !.good = g, !.same = e]
  <2>1. Known(a) /\ LockOK(a, locked) /\ a.list = a.peers /\ a.i \in 1 .. Len(a.list)
    BY Zenon DEF AdminOK, ListOK, Known
  <2>2. a.list \in Seq(Host) /\ a.good \in Seq(Host) /\ a.same \in BOOLEAN
    BY Zenon DEF Admin
  <2>3. a.i + 1 \in Nat \ {0} /\ q \in Host
    BY <2>1, <2>2, ElementType, Zenon
  <2>4. g \in Seq(Host) /\ e \in BOOLEAN
    <3>1. g \in Seq(Host)
      BY <2>2, <2>3
    <3>2. e \in BOOLEAN
      BY <2>2, Zenon
    <3>3. QED
      BY <3>1, <3>2, Zenon
  <2>5. c \in IF b.i > Len(a.list) THEN AfterShow(b) ELSE {b}
    BY Zenon
  <2>. HIDE DEF g, e
  <2>6. b \in Admin
    BY <2>3, <2>4, Zenon DEF Admin
  <2>7. /\ b.i = a.i + 1 /\ b.pc = "show" /\ b.list = a.list /\ b.op = a.op /\ b.x = a.x
        /\ b.peers = a.peers /\ b.unreached = a.unreached
    BY <2>6, Zenon DEF Admin
  <2>. HIDE DEF b
  <2>8. Known(b) /\ \A p \in Host : locked[p] => p \in b.unreached
    BY <2>1, <2>6, <2>7, Zenon DEF Known, LockOK
  <2>9. CASE b.i > Len(a.list)
    BY <2>5, <2>8, <2>9, <1>AfterShowStep, Zenon
  <2>10. CASE ~(b.i > Len(a.list))
    <3>1. c = b
      BY <2>5, <2>10, Zenon
    <3>2. b.i \in 1 .. Len(b.list) /\ b.list = b.peers
      <4>1. a.i \in 1 .. Len(a.list) /\ a.list \in Seq(Host) /\ ~(a.i + 1 > Len(a.list))
        BY <2>1, <2>2, <2>7, <2>10, Zenon
      <4>2. a.i + 1 \in 1 .. Len(a.list)
        BY ONLY <4>1
      <4>3. QED
        BY <2>1, <2>7, <4>2, Zenon
    <3>3. AdminOK(b, locked, prs, index, slots, rounds)
      BY <2>7, <2>8, <3>2, EarlyOK, Zenon
    <3>4. QED
      BY <2>6, <3>1, <3>3, Zenon
  <2>11. QED
    BY <2>9, <2>10
<1>. USE DEF AdminInv
<1>1. left' \in Left
  BY FailureType, Zenon DEF CheckStatus, Call
<1>2. admin \in Admin /\ admin.pc = "show" /\ peers \in [Host -> Seq(Host) \ {<<>>}]
  BY Zenon DEF CheckStatus, AdminTypeOK
<1>3. admin' \in Admin /\ AdminOK(admin', isLocked, peers, me, slot, round)
  BY <1>2, <1>ShowStep, Zenon DEF CheckStatus
<1>4. QED
  BY <1>1, <1>3, AdminKeepsInv, Zenon DEF CheckStatus

(* The pcs at which the locks are held.                                    *)
HeldPc == {"lock", "min", "max", "sync", "syncing", "update", "copy", "copying", "put"}

(* Between locking and unlocking, whoever is locked is in the list, or was *)
(* not reached.                                                            *)
LEMMA HeldLock ==
  ASSUME NEW a, a.pc \in HeldPc, NEW locked
  PROVE  LockOK(a, locked) <=>
           \A p \in Host : locked[p] => p \in a.unreached \/ p \in Range(Locked(a))
BY Zenon DEF LockOK, HeldPc

(* MinUndecidedSlot.                                                       *)
LEMMA MinUndecidedSlotKeepsInv ==
  ASSUME AdminInv, NEW handled \in BOOLEAN, NEW ok \in BOOLEAN, MinUndecidedSlot(handled, ok)
  PROVE  AdminInv'
(* A slot's first undecided number is a lower bound for it.                *)
<1>MinStep. ASSUME NEW a \in Admin, a.pc = "min", NEW locked, NEW prs, NEW index, NEW slots,
                   NEW rounds,
                   AdminOK(a, locked, prs, index, slots, rounds), NEW n \in Nat,
                   \A s \in SlotNum : s < n => slots[a.list[a.i]][s].isDecided
            PROVE  LET b == [a EXCEPT !.pc = "max", !.err = @ \/ ~ok,
                                      !.min = IF ok /\ n < @ THEN n ELSE @]
                   IN  b \in Admin /\ AdminOK(b, locked, prs, index, slots, rounds)
  <2>. USE <1>MinStep
  <2>. DEFINE e == a.err \/ ~ok
              m == IF ok /\ n < a.min THEN n ELSE a.min
              b == [a EXCEPT !.pc = "max", !.err = e, !.min = m]
  <2>1. /\ Known(a) /\ LockOK(a, locked) /\ SyncOK(a, slots)
        /\ a.list = SyncList(a) /\ a.i \in 1 .. Len(a.list)
    BY Zenon DEF AdminOK, ListOK, Known
  <2>2. a.err \in BOOLEAN /\ a.min \in Nat /\ "max" \in AdminPc
    BY Zenon DEF Admin, AdminPc
  <2>3. e \in BOOLEAN /\ m \in Nat
    BY <2>2, Zenon
  <2>4. m <= a.min /\ (ok => m <= n)
    BY <2>2
  <2>5. b.pc = "max" /\ b.err = e /\ b.min = m /\ b \in Admin
    <3>. HIDE DEF e, m
    <3>1. QED
      BY <2>2, <2>3, Zenon DEF Admin
  <2>6. Same(a, b) /\ b.list = a.list /\ b.i = a.i
    <3>. HIDE DEF e, m
    <3>1. QED
      BY Zenon DEF Admin, Same
  <2>7. b = [a EXCEPT !.pc = "max", !.err = @ \/ ~ok, !.min = IF ok /\ n < @ THEN n ELSE @]
    BY Zenon
  <2>. HIDE DEF b, m
  <2>8. Locked(b) = Locked(a) /\ SyncList(b) = SyncList(a)
    BY <2>6, SameLists, Zenon
  <2>9. ListOK(b)
    BY <2>1, <2>5, <2>6, <2>8, Zenon DEF ListOK, Known, Same
  <2>10. LockOK(b, locked)
    <3>1. a.pc \in HeldPc /\ b.pc \in HeldPc
      BY <2>5, Zenon DEF HeldPc
    <3>2. \A p \in Host : locked[p] => p \in a.unreached \/ p \in Range(Locked(a))
      BY <2>1, <3>1, HeldLock, Zenon
    <3>3. QED
      BY <2>6, <2>8, <3>1, <3>2, HeldLock, Zenon DEF Same
  <2>11. SyncOK(b, slots)
    <3>1. ~Copying(b) /\ ~Succeeding(b)
      BY <2>5, Zenon DEF Copying, Succeeding
    <3>2. ASSUME a.op = "add", ~e, NEW j \in 1 .. Len(a.peers), NEW s \in SlotNum,
                 j < a.i \/ j = a.i, s < m
          PROVE  slots[a.peers[j]][s].isDecided
      <4>1. s < a.min /\ s < n /\ ~a.err
        BY <2>2, <2>3, <2>4, <3>2 DEF SlotNum
      <4>2. CASE j < a.i
        BY <2>1, <3>2, <4>1, <4>2, Zenon DEF SyncOK
      <4>3. CASE j = a.i
        BY <2>1, <3>2, <4>1, <4>3, Zenon DEF SyncList
      <4>4. QED
        BY <3>2, <4>2, <4>3, Zenon
    <3>. HIDE DEF e
    <3>3. QED
      BY <2>5, <2>6, <3>1, <3>2, Zenon DEF SyncOK, Same
  <2>12. UpdateOK(b, prs, index) /\ CopyOK(b, slots) /\ WaitOK(b, slots, rounds)
    BY <2>5, Zenon DEF UpdateOK, CopyOK, WaitOK, Copying, Succeeding
  <2>13. AdminOK(b, locked, prs, index, slots, rounds)
    BY <2>9, <2>10, <2>11, <2>12, Zenon DEF AdminOK
  <2>14. QED
    BY <2>5, <2>7, <2>13, Zenon
(* There is a first undecided slot, if only the one after the last, and    *)
(* whatever is below it is decided.                                        *)
<1>FirstUndecidedBound. ASSUME AdminTypeOK, MinOK(slot, minUndecidedSlot), NEW p \in Host
                        PROVE  /\ FirstUndecided(p) \in 0 .. LastSlot + 1
                               /\ \A s \in SlotNum : s < FirstUndecided(p) => slot[p][s].isDecided
  <2>. USE <1>FirstUndecidedBound
  <2>. DEFINE min == minUndecidedSlot[p]
              P(s) == /\ s >= min
                      /\ s \in SlotNum => ~slot[p][s].isDecided
                      /\ \A t \in SlotNum : min <= t /\ t < s => slot[p][t].isDecided
              T == {s \in min .. LastSlot + 1 : s \in SlotNum => ~slot[p][s].isDecided}
  <2>1. LastSlot \in Nat /\ min \in 0 .. LastSlot + 1
    BY AdminAssumption, Zenon DEF AdminTypeOK
  <2>. HIDE DEF min
  <2>2. LastSlot + 1 \in T /\ T \subseteq Nat
    BY <2>1 DEF SlotNum
  <2>3. PICK x \in T : \A y \in T : ~(<<y, x>> \in OpToRel(<, Nat))
    <3>1. T # {} /\ T \subseteq Nat
      BY <2>2
    <3>. HIDE DEF T
    <3>2. QED
      BY <3>1, WFMin, NatLessThanWellFounded, Zenon
  <2>4. x \in Nat /\ \A y \in T : ~(y < x)
    <3>1. T \subseteq Nat /\ x \in Nat
      BY <2>2
    <3>2. \A y \in Nat : y < x => <<y, x>> \in OpToRel(<, Nat)
      BY <3>1 DEF OpToRel
    <3>3. QED
      BY <2>3, <3>1, <3>2, Zenon
  <2>5. x \in 0 .. LastSlot + 1 /\ P(x)
    <3>1. x \in min .. LastSlot + 1 /\ (x \in SlotNum => ~slot[p][x].isDecided)
      BY <2>3
    <3>2. ASSUME NEW t \in SlotNum, min <= t, t < x PROVE slot[p][t].isDecided
      <4>1. t \in min .. LastSlot + 1
        BY <2>1, <3>2 DEF SlotNum
      <4>2. QED
        BY <2>4, <3>2, <4>1, Zenon
    <3>3. x \in 0 .. LastSlot + 1 /\ x >= min
      BY <2>1, <3>1
    <3>4. QED
      BY <3>1, <3>2, <3>3, Zenon
  <2>6. FirstUndecided(p) \in 0 .. LastSlot + 1 /\ P(FirstUndecided(p))
    <3>1. FirstUndecided(p) = CHOOSE s \in 0 .. LastSlot + 1 : P(s)
      BY Zenon DEF FirstUndecided, min
    <3>. HIDE DEF P
    <3>2. QED
      BY <2>5, <3>1, Zenon
  <2>. DEFINE n == FirstUndecided(p)
  <2>7. ASSUME NEW s \in SlotNum, s < n PROVE slot[p][s].isDecided
    <3>. HIDE DEF n
    <3>1. CASE s < min
      BY <3>1, Zenon DEF MinOK, min
    <3>2. CASE ~(s < min)
      <4>1. min <= s
        BY <2>1, <3>2 DEF SlotNum
      <4>2. QED
        BY <2>6, <2>7, <4>1, Zenon DEF n
    <3>3. QED
      BY <3>1, <3>2
  <2>8. QED
    BY <2>6, <2>7
<1>. USE DEF AdminInv
<1>. DEFINE q == admin.list[admin.i]
            n == FirstUndecided(q)
<1>1. left' \in Left
  BY FailureType, Zenon DEF MinUndecidedSlot, Call
<1>2. admin \in Admin /\ admin.pc = "min"
  BY Zenon DEF MinUndecidedSlot, AdminTypeOK
<1>3. q \in Host
  BY <1>2, CalledHost, Zenon DEF AdminOK
<1>4. n \in 0 .. LastSlot + 1 /\ \A s \in SlotNum : s < n => slot[q][s].isDecided
  BY <1>3, <1>FirstUndecidedBound, Zenon
<1>5. n \in Nat
  BY <1>4
<1>6. /\ minUndecidedSlot' = IF handled THEN [minUndecidedSlot EXCEPT ![q] = n] ELSE minUndecidedSlot
      /\ admin' = [admin EXCEPT !.pc = "max", !.err = @ \/ ~ok,
                                !.min = IF ok /\ n < @ THEN n ELSE @]
  BY Zenon DEF MinUndecidedSlot
<1>. HIDE DEF n
<1>7. admin' \in Admin /\ AdminOK(admin', isLocked, peers, me, slot, round)
  BY <1>2, <1>4, <1>5, <1>6, <1>MinStep, Zenon
<1>8. minUndecidedSlot' \in [Host -> 0 .. LastSlot + 1]
  BY <1>3, <1>4, <1>6, Zenon DEF AdminTypeOK
<1>9. MinOK(slot, minUndecidedSlot')
  <2>1. \A p \in Host : minUndecidedSlot'[p] = minUndecidedSlot[p] \/ (p = q /\ minUndecidedSlot'[p] = n)
    BY <1>3, <1>6, Zenon DEF AdminTypeOK
  <2>2. QED
    BY <1>4, <2>1, Zenon DEF MinOK
<1>10. AdminTypeOK'
  BY <1>1, <1>7, <1>8, Zenon DEF MinUndecidedSlot, AdminTypeOK, Left
<1>11. QED
  BY <1>7, <1>9, <1>10, Zenon DEF MinUndecidedSlot

(* The updates begin when every peer has every slot up to the last.        *)
LEMMA UpdatesBegin ==
  ASSUME NEW d, Known(d), NEW locked, NEW prs, NEW index, NEW slots, NEW rounds,
         \A p \in Host : locked[p] => p \in d.unreached \/ p \in Range(Locked(d)),
         d.op = "add" => \A j \in 1 .. Len(d.peers), s \in SlotNum :
                           s <= d.max => slots[d.peers[j]][s].isDecided
  PROVE  LET u == Loop(d, "update", NewPeers(d))
         IN  u \in Admin /\ AdminOK(u, locked, prs, index, slots, rounds)
<1>. DEFINE u == Loop(d, "update", NewPeers(d))
<1>1. /\ d \in Admin /\ d.x \in Host /\ NewPeers(d) \in Seq(Host)
      /\ "update" \in AdminPc
  BY ListTypes, Zenon DEF Known, AdminPc
<1>2. u \in Admin /\ Same(d, u) /\ u.pc = "update" /\ u.list = NewPeers(d) /\ u.i = 1
  BY <1>1, LoopFields, Zenon
<1>. HIDE DEF u
<1>3. Locked(u) = Locked(d) /\ NewPeers(u) = NewPeers(d)
  BY <1>2, SameLists, Zenon
<1>4. ListOK(u)
  BY <1>2, <1>3, Zenon DEF ListOK, Known, Same
<1>5. LockOK(u, locked)
  BY <1>2, <1>3, Zenon DEF LockOK, Same
<1>6. UpdateOK(u, prs, index)
  <2>1. \A j \in 1 .. Len(u.list) : ~(j < u.i)
    BY <1>2
  <2>2. QED
    BY <1>2, <2>1, Zenon DEF UpdateOK, Copying, Succeeding
<1>7. SyncOK(u, slots)
  BY <1>2, Zenon DEF SyncOK, Same
<1>8. CopyOK(u, slots) /\ WaitOK(u, slots, rounds)
  BY <1>2, Zenon DEF CopyOK, WaitOK, Copying, Succeeding
<1>9. AdminOK(u, locked, prs, index, slots, rounds)
  BY <1>4, <1>5, <1>6, <1>7, <1>8, Zenon DEF AdminOK
<1>10. QED
  BY <1>2, <1>9, Zenon DEF u

(* The next slot, or what follows the last, if every peer has the slots    *)
(* before it.                                                              *)
LEMMA AfterSyncStep ==
  ASSUME NEW d, Known(d), NEW locked, NEW prs, NEW index, NEW slots, NEW rounds,
         d.list = SyncList(d), d.list # <<>>,
         \A p \in Host : locked[p] => p \in d.unreached \/ p \in Range(Locked(d)),
         d.op = "add" /\ ~d.err => \A j \in 1 .. Len(d.peers), s \in SlotNum :
                                     s < d.s => slots[d.peers[j]][s].isDecided
  PROVE  LET c == AfterSync(d)
         IN  c \in Admin /\ AdminOK(c, locked, prs, index, slots, rounds)
<1>. DEFINE b == [d EXCEPT !.pc = "sync", !.i = 1]
<1>1. /\ d \in Admin /\ "sync" \in AdminPc /\ d.s \in Nat /\ d.max \in SlotNum \cup {-1}
      /\ d.list \in Seq(Host) /\ d.err \in BOOLEAN
  BY Zenon DEF Known, AdminPc, Admin
<1>2. CASE d.s <= d.max
  <2>1. 1 \in Nat \ {0}
    OBVIOUS
  <2>2. b \in Admin /\ b.pc = "sync" /\ b.i = 1
    BY <1>1, <2>1, Zenon DEF Admin
  <2>3. Same(d, b) /\ b.list = d.list /\ b.s = d.s /\ b.err = d.err
    BY <1>1, Zenon DEF Admin, Same
  <2>4. AfterSync(d) = b
    BY <1>2, Zenon DEF AfterSync
  <2>. HIDE DEF b
  <2>5. Locked(b) = Locked(d) /\ SyncList(b) = SyncList(d)
    BY <2>3, SameLists, Zenon
  <2>6. b.i \in 1 .. Len(b.list) /\ b.s \in SlotNum
    BY <1>1, <1>2, <2>2, <2>3, AdminAssumption DEF SlotNum
  <2>7. ListOK(b)
    BY <2>2, <2>3, <2>5, <2>6, Zenon DEF ListOK, Known, Same
  <2>8. LockOK(b, locked)
    BY <2>2, <2>3, <2>5, Zenon DEF LockOK, Same
  <2>9. SyncOK(b, slots)
    <3>1. \A j \in 1 .. Len(b.peers) : ~(j < b.i)
      BY <2>2
    <3>2. ~Copying(b) /\ ~Succeeding(b)
      BY <2>2, Zenon DEF Copying, Succeeding
    <3>3. QED
      BY <2>2, <2>3, <3>1, <3>2, Zenon DEF SyncOK, Same
  <2>10. UpdateOK(b, prs, index) /\ CopyOK(b, slots) /\ WaitOK(b, slots, rounds)
    BY <2>2, Zenon DEF UpdateOK, CopyOK, WaitOK, Copying, Succeeding
  <2>11. QED
    BY <2>2, <2>4, <2>7, <2>8, <2>9, <2>10, Zenon DEF AdminOK
<1>3. CASE ~(d.s <= d.max) /\ d.err
  <2>1. AfterSync(d) = Unlocking(d, TRUE)
    BY <1>3, Zenon DEF AfterSync
  <2>2. QED
    BY <2>1, UnlockingOK, Zenon
<1>4. CASE ~(d.s <= d.max) /\ ~d.err
  <2>1. AfterSync(d) = Loop(d, "update", NewPeers(d))
    BY <1>4, Zenon DEF AfterSync
  <2>2. \A s \in SlotNum : s <= d.max => s < d.s
    BY <1>1, <1>4 DEF SlotNum
  <2>3. d.op = "add" => \A j \in 1 .. Len(d.peers), s \in SlotNum :
                           s <= d.max => slots[d.peers[j]][s].isDecided
    BY <1>4, <2>2, Zenon
  <2>4. QED
    BY <2>1, <2>3, UpdatesBegin, Zenon
<1>5. QED
  BY <1>1, <1>2, <1>3, <1>4, Zenon

(* MaxDecidedSlot.                                                         *)
LEMMA MaxDecidedSlotKeepsInv ==
  ASSUME AdminInv, NEW handled \in BOOLEAN, NEW ok \in BOOLEAN, MaxDecidedSlot(handled, ok)
  PROVE  AdminInv'
(* The answer of MaxDecidedSlot.                                           *)
<1>MaxStep. ASSUME NEW a \in Admin, a.pc = "max", NEW locked, NEW prs, NEW index, NEW slots,
                   NEW rounds,
                   AdminOK(a, locked, prs, index, slots, rounds), NEW n \in SlotNum
            PROVE  LET b == [a EXCEPT !.i = @ + 1, !.err = @ \/ ~ok,
                                      !.max = IF ok /\ n > @ THEN n ELSE @]
                       c == IF b.i > Len(a.list) THEN AfterSync([b EXCEPT !.s = b.min])
                            ELSE [b EXCEPT !.pc = "min"]
                   IN  c \in Admin /\ AdminOK(c, locked, prs, index, slots, rounds)
  <2>. USE <1>MaxStep
  <2>. DEFINE e == a.err \/ ~ok
              m == IF ok /\ n > a.max THEN n ELSE a.max
              b == [a EXCEPT !.i = @ + 1, !.err = e, !.max = m]
              d == [b EXCEPT !.s = b.min]
              f == [b EXCEPT !.pc = "min"]
              c == IF b.i > Len(a.list) THEN AfterSync(d) ELSE f
  <2>1. /\ Known(a) /\ LockOK(a, locked) /\ SyncOK(a, slots)
        /\ a.list = SyncList(a) /\ a.i \in 1 .. Len(a.list)
    BY Zenon DEF AdminOK, ListOK, Known
  <2>2. /\ a.err \in BOOLEAN /\ a.max \in SlotNum \cup {-1} /\ "min" \in AdminPc
        /\ a.list \in Seq(Host)
    BY Zenon DEF Admin, AdminPc
  <2>3. e \in BOOLEAN /\ m \in SlotNum \cup {-1}
    BY <2>2, Zenon
  <2>4. a.i + 1 \in Nat \ {0}
    BY <2>1, <2>2, ElementType, Zenon
  <2>. HIDE DEF m, e
  <2>5. /\ b \in Admin /\ b.pc = "max" /\ b.i = a.i + 1 /\ b.err = e /\ b.list = a.list
        /\ b.op = a.op /\ b.x = a.x /\ b.peers = a.peers /\ b.good = a.good /\ b.min = a.min
        /\ b.unreached = a.unreached
    <3>1. b \in Admin
      BY <2>3, <2>4, Zenon DEF Admin
    <3>2. QED
      BY <3>1, Zenon DEF Admin
  <2>6. c = LET k == [a EXCEPT !.i = @ + 1, !.err = @ \/ ~ok, !.max = IF ok /\ n > @ THEN n ELSE @]
            IN  IF k.i > Len(a.list) THEN AfterSync([k EXCEPT !.s = k.min])
                ELSE [k EXCEPT !.pc = "min"]
    BY Zenon DEF e, m
  <2>. HIDE DEF b
  <2>7. /\ d \in Admin /\ d.s = a.min /\ d.err = e /\ d.list = a.list
        /\ d.op = a.op /\ d.x = a.x /\ d.peers = a.peers /\ d.good = a.good
        /\ d.unreached = a.unreached
    <3>1. b.min \in Nat
      BY <2>5, Zenon DEF Admin
    <3>2. d \in Admin
      BY <2>5, <3>1, Zenon DEF Admin
    <3>3. /\ d.s = b.min /\ d.err = b.err /\ d.list = b.list /\ d.op = b.op /\ d.x = b.x
          /\ d.peers = b.peers /\ d.good = b.good /\ d.unreached = b.unreached
      BY <2>5, Zenon DEF Admin
    <3>. HIDE DEF d
    <3>4. QED
      BY <2>5, <3>2, <3>3, Zenon
  <2>8. /\ f \in Admin /\ f.pc = "min" /\ f.i = a.i + 1 /\ f.err = e /\ f.list = a.list
        /\ f.op = a.op /\ f.x = a.x /\ f.peers = a.peers /\ f.good = a.good /\ f.min = a.min
        /\ f.unreached = a.unreached
    <3>1. f \in Admin
      BY <2>2, <2>5, Zenon DEF Admin
    <3>2. /\ f.pc = "min" /\ f.i = b.i /\ f.err = b.err /\ f.list = b.list /\ f.op = b.op
          /\ f.x = b.x /\ f.peers = b.peers /\ f.good = b.good /\ f.min = b.min
          /\ f.unreached = b.unreached
      BY <2>5, Zenon DEF Admin
    <3>. HIDE DEF f
    <3>3. QED
      BY <2>5, <3>1, <3>2, Zenon
  <2>. HIDE DEF d, f
  <2>9. Locked(d) = Locked(a) /\ SyncList(d) = SyncList(a)
    BY <2>7, Zenon DEF Locked, SyncList
  <2>10. Locked(f) = Locked(a) /\ SyncList(f) = SyncList(a)
    BY <2>8, Zenon DEF Locked, SyncList
  <2>11. \A p \in Host : locked[p] => p \in a.unreached \/ p \in Range(Locked(a))
    <3>1. a.pc \in HeldPc
      BY Zenon DEF HeldPc
    <3>2. QED
      BY <2>1, <3>1, HeldLock, Zenon
  <2>12. a.op = "add" /\ ~e => \A j \in 1 .. Len(a.peers), s \in SlotNum :
                                 j <= a.i /\ s < a.min => slots[a.peers[j]][s].isDecided
    <3>1. ~e => ~a.err
      BY Zenon DEF e
    <3>2. \A j \in 1 .. Len(a.peers) : j <= a.i => j < a.i \/ j = a.i
      BY <2>1, <2>2
    <3>3. QED
      BY <2>1, <3>1, <3>2, Zenon DEF SyncOK
  <2>13. CASE b.i > Len(a.list)
    <3>1. a.op = "add" => \A j \in 1 .. Len(a.peers) : j <= a.i
      BY <2>1, <2>2, <2>5, <2>13 DEF SyncList
    <3>2. d.op = "add" /\ ~d.err => \A j \in 1 .. Len(d.peers), s \in SlotNum :
                                      s < d.s => slots[d.peers[j]][s].isDecided
      BY <2>7, <2>12, <3>1, Zenon
    <3>3. Known(d) /\ d.list = SyncList(d)
      BY <2>1, <2>7, <2>9, Zenon DEF Known
    <3>4. d.list # <<>>
      BY <2>1, <2>7
    <3>5. \A p \in Host : locked[p] => p \in d.unreached \/ p \in Range(Locked(d))
      BY <2>7, <2>9, <2>11, Zenon
    <3>6. c = AfterSync(d)
      BY <2>13, Zenon
    <3>. HIDE DEF c
    <3>7. c \in Admin /\ AdminOK(c, locked, prs, index, slots, rounds)
      BY <3>2, <3>3, <3>4, <3>5, <3>6, AfterSyncStep, Zenon
    <3>8. QED
      BY <2>6, <3>7, Zenon
  <2>14. CASE ~(b.i > Len(a.list))
    <3>1. c = f
      BY <2>14, Zenon
    <3>2. f.i \in 1 .. Len(f.list)
      BY <2>1, <2>2, <2>5, <2>8, <2>14
    <3>3. ListOK(f)
      BY <2>1, <2>8, <2>10, <3>2, Zenon DEF ListOK, Known
    <3>4. LockOK(f, locked)
      BY <2>8, <2>10, <2>11, Zenon DEF LockOK
    <3>5. SyncOK(f, slots)
      <4>1. \A j \in 1 .. Len(a.peers) : j < f.i => j <= a.i
        BY <2>1, <2>2, <2>8
      <4>2. ~Copying(f) /\ ~Succeeding(f)
        BY <2>8, Zenon DEF Copying, Succeeding
      <4>3. QED
        BY <2>8, <2>12, <4>1, <4>2, Zenon DEF SyncOK
    <3>6. UpdateOK(f, prs, index) /\ CopyOK(f, slots) /\ WaitOK(f, slots, rounds)
      BY <2>8, Zenon DEF UpdateOK, CopyOK, WaitOK, Copying, Succeeding
    <3>7. f \in Admin /\ AdminOK(f, locked, prs, index, slots, rounds)
      BY <2>8, <3>3, <3>4, <3>5, <3>6, Zenon DEF AdminOK
    <3>. HIDE DEF c
    <3>8. QED
      BY <2>6, <3>1, <3>7, Zenon
  <2>15. QED
    BY <2>13, <2>14
<1>. USE DEF AdminInv
<1>. DEFINE q == admin.list[admin.i]
            n == maxDecidedSlot[q]
            b == [admin EXCEPT !.i = @ + 1, !.err = @ \/ ~ok, !.max = IF ok /\ n > @ THEN n ELSE @]
            c == IF b.i > Len(admin.list) THEN AfterSync([b EXCEPT !.s = b.min])
                 ELSE [b EXCEPT !.pc = "min"]
<1>1. left' \in Left
  BY FailureType, Zenon DEF MaxDecidedSlot, Call
<1>2. admin \in Admin /\ admin.pc = "max"
  BY Zenon DEF MaxDecidedSlot, AdminTypeOK
<1>3. q \in Host
  BY <1>2, CalledHost, Zenon DEF AdminOK
<1>4. n \in SlotNum
  BY <1>3, Zenon DEF AdminTypeOK
<1>5. admin' = c
  BY Zenon DEF MaxDecidedSlot
<1>. HIDE DEF n
<1>6. c \in Admin /\ AdminOK(c, isLocked, peers, me, slot, round)
  <2>1. AdminOK(admin, isLocked, peers, me, slot, round)
    OBVIOUS
  <2>2. QED
    BY ONLY <1>2, <1>4, <2>1, <1>MaxStep, Zenon
<1>. HIDE DEF c
<1>7. QED
  BY <1>1, <1>5, <1>6, AdminKeepsInv, Zenon DEF MaxDecidedSlot

(* What the new peer has while slots are copied.                           *)
LEMMA CopyingFacts ==
  ASSUME NEW a \in Admin, Copying(a), NEW locked, NEW prs, NEW index, NEW slots, NEW rounds,
         AdminOK(a, locked, prs, index, slots, rounds)
  PROVE  /\ Known(a) /\ a.op = "add" /\ a.list = a.peers /\ a.i \in 1 .. Len(a.list)
         /\ a.s \in SlotNum
         /\ \A p \in Host : locked[p] => p \in a.unreached \/ p \in Range(Locked(a))
         /\ \A q \in Range(NewPeers(a)) : HasList(a, prs, index, q)
         /\ \A j \in 1 .. Len(a.peers), s \in SlotNum : s <= a.max => slots[a.peers[j]][s].isDecided
         /\ \A s \in SlotNum : s < a.s => slots[a.x][s].isDecided
<1>1. /\ ListOK(a) /\ LockOK(a, locked) /\ UpdateOK(a, prs, index) /\ SyncOK(a, slots)
      /\ CopyOK(a, slots)
  BY Zenon DEF AdminOK
<1>2. /\ Known(a) /\ a.op = "add" /\ a.list = a.peers /\ a.i \in 1 .. Len(a.list)
      /\ a.s \in SlotNum
  BY <1>1, Zenon DEF ListOK, Copying, Known
<1>3. \A p \in Host : locked[p] => p \in a.unreached \/ p \in Range(Locked(a))
  BY <1>1, Zenon DEF LockOK, Copying
<1>4. QED
  BY <1>1, <1>2, <1>3, Zenon DEF UpdateOK, SyncOK, CopyOK

(* Facts that make the invariant of an administrator that copies.          *)
LEMMA CopyingOK ==
  ASSUME NEW b, Known(b), Copying(b), NEW locked, NEW prs, NEW index, NEW slots, NEW rounds,
         b.op = "add" /\ b.list = b.peers /\ b.i \in 1 .. Len(b.list) /\ b.s \in SlotNum,
         \A p \in Host : locked[p] => p \in b.unreached \/ p \in Range(Locked(b)),
         \A q \in Range(NewPeers(b)) : HasList(b, prs, index, q),
         \A j \in 1 .. Len(b.peers), s \in SlotNum : s <= b.max => slots[b.peers[j]][s].isDecided,
         \A s \in SlotNum : s < b.s => slots[b.x][s].isDecided,
         WaitOK(b, slots, rounds)
  PROVE  AdminOK(b, locked, prs, index, slots, rounds)
<1>1. ListOK(b)
  BY Zenon DEF ListOK, Copying, Known
<1>2. LockOK(b, locked)
  BY Zenon DEF LockOK, Copying
<1>3. UpdateOK(b, prs, index)
  BY Zenon DEF UpdateOK, Copying
<1>4. SyncOK(b, slots)
  BY Zenon DEF SyncOK, Copying
<1>5. CopyOK(b, slots)
  BY Zenon DEF CopyOK, Copying, Succeeding
<1>6. QED
  BY <1>1, <1>2, <1>3, <1>4, <1>5, Zenon DEF AdminOK

(* The answer to SyncPaxosValue, which has found the slot decided.         *)
LEMMA SyncedKeepsInv ==
  ASSUME AdminInv, admin.pc \in {"sync", "syncing", "copy", "copying"}, NEW ok \in BOOLEAN,
         ok => slot[admin.list[admin.i]][admin.s].isDecided
  PROVE  LET c == Synced(admin, ok, slot[admin.list[admin.i]][admin.s])
         IN  c \in Admin /\ AdminOK(c, isLocked, peers, me, slot, round)
(* The answer to SyncPaxosValue, if the slot is decided at the peer that   *)
(* answers.                                                                *)
<1>SyncedStep. ASSUME NEW a \in Admin, a.pc \in {"sync", "syncing"},
                      NEW locked, NEW prs, NEW index, NEW slots, NEW rounds,
                      AdminOK(a, locked, prs, index, slots, rounds), NEW sl,
                      ok => slots[a.list[a.i]][a.s].isDecided
               PROVE  LET c == Synced(a, ok, sl)
                      IN  c \in Admin /\ AdminOK(c, locked, prs, index, slots, rounds)
  <2>. USE <1>SyncedStep
  <2>. DEFINE e == a.err \/ ~ok
              b == [a EXCEPT !.i = @ + 1, !.err = e]
              d == [b EXCEPT !.s = @ + 1]
              f == [b EXCEPT !.pc = "sync"]
              c == IF ~ok /\ a.s >= Len(a.list) THEN Unlocking(a, TRUE)
                   ELSE IF b.i > Len(a.list) THEN AfterSync(d) ELSE f
  <2>1. /\ Known(a) /\ LockOK(a, locked) /\ SyncOK(a, slots) /\ a.s \in SlotNum
        /\ a.list = SyncList(a) /\ a.i \in 1 .. Len(a.list)
    BY Zenon DEF AdminOK, ListOK, Known
  <2>2. a.err \in BOOLEAN /\ "sync" \in AdminPc /\ a.list \in Seq(Host)
    BY Zenon DEF Admin, AdminPc
  <2>3. e \in BOOLEAN
    BY <2>2, Zenon
  <2>4. a.i + 1 \in Nat \ {0} /\ a.s + 1 \in Nat
    BY ONLY <2>1, <2>2, AdminAssumption DEF SlotNum
  <2>5. Synced(a, ok, sl) = c
    <3>1. a.pc \notin {"copy", "copying"}
      BY Zenon
    <3>2. QED
      BY <3>1, Zenon DEF Synced
  <2>. HIDE DEF e
  <2>6. /\ b \in Admin /\ b.pc = a.pc /\ b.i = a.i + 1 /\ b.err = e /\ b.list = a.list
        /\ b.op = a.op /\ b.x = a.x /\ b.peers = a.peers /\ b.good = a.good /\ b.s = a.s
        /\ b.unreached = a.unreached /\ b.max = a.max
    <3>1. b \in Admin
      BY <2>3, <2>4, Zenon DEF Admin
    <3>2. QED
      BY <3>1, Zenon DEF Admin
  <2>. HIDE DEF b
  <2>7. /\ d \in Admin /\ d.s = a.s + 1 /\ d.err = e /\ d.list = a.list
        /\ d.op = a.op /\ d.x = a.x /\ d.peers = a.peers /\ d.good = a.good
        /\ d.unreached = a.unreached
    <3>1. b.s + 1 \in Nat
      BY <2>4, <2>6, Zenon
    <3>2. d \in Admin
      BY <2>6, <3>1, Zenon DEF Admin
    <3>3. /\ d.s = b.s + 1 /\ d.err = b.err /\ d.list = b.list /\ d.op = b.op /\ d.x = b.x
          /\ d.peers = b.peers /\ d.good = b.good /\ d.unreached = b.unreached
      BY <2>6, Zenon DEF Admin
    <3>. HIDE DEF d
    <3>4. QED
      BY <2>6, <3>2, <3>3, Zenon
  <2>8. /\ f \in Admin /\ f.pc = "sync" /\ f.i = a.i + 1 /\ f.err = e /\ f.list = a.list
        /\ f.op = a.op /\ f.x = a.x /\ f.peers = a.peers /\ f.good = a.good /\ f.s = a.s
        /\ f.unreached = a.unreached
    <3>1. f \in Admin
      BY <2>2, <2>6, Zenon DEF Admin
    <3>2. /\ f.pc = "sync" /\ f.i = b.i /\ f.err = b.err /\ f.list = b.list /\ f.op = b.op
          /\ f.x = b.x /\ f.peers = b.peers /\ f.good = b.good /\ f.s = b.s
          /\ f.unreached = b.unreached
      BY <2>6, Zenon DEF Admin
    <3>. HIDE DEF f
    <3>3. QED
      BY <2>6, <3>1, <3>2, Zenon
  <2>. HIDE DEF d, f
  <2>9. Locked(d) = Locked(a) /\ SyncList(d) = SyncList(a)
    BY <2>7, Zenon DEF Locked, SyncList
  <2>10. Locked(f) = Locked(a) /\ SyncList(f) = SyncList(a)
    BY <2>8, Zenon DEF Locked, SyncList
  <2>11. \A p \in Host : locked[p] => p \in a.unreached \/ p \in Range(Locked(a))
    <3>1. a.pc \in HeldPc
      BY Zenon DEF HeldPc
    <3>2. QED
      BY <2>1, <3>1, HeldLock, Zenon
  <2>12. a.op = "add" /\ ~e =>
           \A j \in 1 .. Len(a.peers), s \in SlotNum :
             s < a.s \/ (s = a.s /\ j <= a.i) => slots[a.peers[j]][s].isDecided
    <3>1. ~e => ~a.err /\ ok
      BY Zenon DEF e
    <3>2. \A j \in 1 .. Len(a.peers) : j <= a.i => j < a.i \/ j = a.i
      BY <2>1, <2>2
    <3>3. a.op = "add" => a.list = a.peers
      BY <2>1, Zenon DEF SyncList
    <3>4. QED
      BY <2>1, <3>1, <3>2, <3>3, Zenon DEF SyncOK
  <2>13. CASE ~ok /\ a.s >= Len(a.list)
    <3>1. c = Unlocking(a, TRUE)
      BY <2>13, Zenon
    <3>. HIDE DEF c
    <3>2. QED
      BY <2>1, <2>5, <2>11, <3>1, UnlockingOK, Zenon
  <2>14. CASE ~(~ok /\ a.s >= Len(a.list)) /\ b.i > Len(a.list)
    <3>1. a.op = "add" => \A j \in 1 .. Len(a.peers) : j <= a.i
      BY ONLY <2>1, <2>2, <2>6, <2>14 DEF SyncList
    <3>2. \A s \in SlotNum : s < d.s => s < a.s \/ s = a.s
      BY ONLY <2>1, <2>7 DEF SlotNum
    <3>3. d.op = "add" /\ ~d.err => \A j \in 1 .. Len(d.peers), s \in SlotNum :
                                      s < d.s => slots[d.peers[j]][s].isDecided
      BY <2>7, <2>12, <3>1, <3>2, Zenon
    <3>4. Known(d) /\ d.list = SyncList(d)
      BY <2>1, <2>7, <2>9, Zenon DEF Known
    <3>5. d.list # <<>>
      <4>1. a.list # <<>>
        BY ONLY <2>1, <2>2
      <4>2. QED
        BY <2>7, <4>1, Zenon
    <3>6. \A p \in Host : locked[p] => p \in d.unreached \/ p \in Range(Locked(d))
      BY <2>7, <2>9, <2>11, Zenon
    <3>7. c = AfterSync(d)
      BY <2>14, Zenon
    <3>. HIDE DEF c
    <3>8. c \in Admin /\ AdminOK(c, locked, prs, index, slots, rounds)
      BY <3>3, <3>4, <3>5, <3>6, <3>7, AfterSyncStep, Zenon
    <3>9. QED
      BY <2>5, <3>8, Zenon
  <2>15. CASE ~(~ok /\ a.s >= Len(a.list)) /\ ~(b.i > Len(a.list))
    <3>1. c = f
      BY <2>15, Zenon
    <3>2. f.i \in 1 .. Len(f.list) /\ f.s \in SlotNum
      BY ONLY <2>1, <2>2, <2>6, <2>8, <2>15
    <3>3. ListOK(f)
      BY <2>1, <2>8, <2>10, <3>2, Zenon DEF ListOK, Known
    <3>4. LockOK(f, locked)
      BY <2>8, <2>10, <2>11, Zenon DEF LockOK
    <3>5. SyncOK(f, slots)
      <4>1. \A j \in 1 .. Len(a.peers) : j < f.i => j <= a.i
        BY ONLY <2>1, <2>2, <2>8
      <4>2. ~Copying(f) /\ ~Succeeding(f)
        BY <2>8, Zenon DEF Copying, Succeeding
      <4>3. QED
        BY <2>8, <2>12, <4>1, <4>2, Zenon DEF SyncOK
    <3>6. UpdateOK(f, prs, index) /\ CopyOK(f, slots) /\ WaitOK(f, slots, rounds)
      BY <2>8, Zenon DEF UpdateOK, CopyOK, WaitOK, Copying, Succeeding
    <3>7. f \in Admin /\ AdminOK(f, locked, prs, index, slots, rounds)
      BY <2>8, <3>3, <3>4, <3>5, <3>6, Zenon DEF AdminOK
    <3>. HIDE DEF c
    <3>8. QED
      BY <2>5, <3>1, <3>7, Zenon
  <2>16. QED
    BY <2>13, <2>14, <2>15, Zenon
(* A value to be put is taken from the first peer.                         *)
<1>CopiedStep. ASSUME NEW a \in Admin, a.pc \in {"copy", "copying"},
                      NEW locked, NEW prs, NEW index, NEW slots, NEW rounds,
                      AdminOK(a, locked, prs, index, slots, rounds), NEW sl \in SlotValue
               PROVE  LET c == Synced(a, ok, sl)
                      IN  c \in Admin /\ AdminOK(c, locked, prs, index, slots, rounds)
  <2>. USE <1>CopiedStep
  <2>. DEFINE b == [a EXCEPT !.pc = "put", !.value = sl]
  <2>1. Copying(a) /\ "put" \in AdminPc
    BY Zenon DEF Copying, AdminPc
  <2>2. /\ Known(a) /\ a.op = "add" /\ a.list = a.peers /\ a.i \in 1 .. Len(a.list)
        /\ a.s \in SlotNum
        /\ \A p \in Host : locked[p] => p \in a.unreached \/ p \in Range(Locked(a))
        /\ \A q \in Range(NewPeers(a)) : HasList(a, prs, index, q)
        /\ \A j \in 1 .. Len(a.peers), s \in SlotNum : s <= a.max => slots[a.peers[j]][s].isDecided
        /\ \A s \in SlotNum : s < a.s => slots[a.x][s].isDecided
    BY <2>1, CopyingFacts, Zenon
  <2>3. Synced(a, ok, sl) = IF ok THEN b ELSE Unlocking(a, TRUE)
    BY Zenon DEF Synced
  <2>4. CASE ~ok
    <3>1. Synced(a, ok, sl) = Unlocking(a, TRUE)
      BY <2>3, <2>4, Zenon
    <3>2. QED
      BY <2>2, <3>1, UnlockingOK, Zenon
  <2>5. CASE ok
    <3>1. b \in Admin /\ b.pc = "put"
      BY <2>1, Zenon DEF Admin
    <3>2. Same(a, b) /\ b.list = a.list /\ b.i = a.i /\ b.s = a.s
      BY Zenon DEF Admin, Same
    <3>3. Synced(a, ok, sl) = b
      BY <2>3, <2>5, Zenon
    <3>. HIDE DEF b
    <3>4. Locked(b) = Locked(a) /\ NewPeers(b) = NewPeers(a)
      BY <3>2, SameLists, Zenon
    <3>5. Known(b) /\ Copying(b) /\ WaitOK(b, slots, rounds)
      BY <2>2, <3>1, <3>2, Zenon DEF Known, Copying, WaitOK, Same
    <3>6. b.op = "add" /\ b.list = b.peers /\ b.i \in 1 .. Len(b.list) /\ b.s \in SlotNum
      BY <2>2, <3>2, Zenon DEF Same
    <3>7. \A p \in Host : locked[p] => p \in b.unreached \/ p \in Range(Locked(b))
      BY <2>2, <3>2, <3>4, Zenon DEF Same
    <3>8. \A q \in Range(NewPeers(b)) : HasList(b, prs, index, q)
      BY <2>2, <3>2, <3>4, SameHasList, Zenon
    <3>9. \A j \in 1 .. Len(b.peers), s \in SlotNum : s <= b.max => slots[b.peers[j]][s].isDecided
      BY <2>2, <3>2, Zenon DEF Same
    <3>10. \A s \in SlotNum : s < b.s => slots[b.x][s].isDecided
      BY <2>2, <3>2, Zenon DEF Same
    <3>11. AdminOK(b, locked, prs, index, slots, rounds)
      BY <3>5, <3>6, <3>7, <3>8, <3>9, <3>10, CopyingOK, Zenon
    <3>12. QED
      BY <3>1, <3>3, <3>11, Zenon
  <2>6. QED
    BY <2>4, <2>5
<1>. USE DEF AdminInv
<1>. DEFINE sl == slot[admin.list[admin.i]][admin.s]
<1>1. admin \in Admin
  BY Zenon DEF AdminTypeOK
<1>2. admin.list[admin.i] \in Host /\ admin.s \in SlotNum
  BY <1>1, CalledHost, Zenon DEF AdminOK, ListOK
<1>3. sl \in SlotValue
  BY <1>2, StateTypes, Zenon
<1>4. ok => sl.isDecided
  BY Zenon
<1>5. CASE admin.pc \in {"sync", "syncing"}
  BY <1>1, <1>5, <1>SyncedStep, Zenon
<1>6. CASE admin.pc \in {"copy", "copying"}
  BY <1>1, <1>3, <1>6, <1>CopiedStep, Zenon
<1>7. QED
  BY <1>5, <1>6, Zenon

(* SyncPaxosValue of a slot that is decided.                               *)
LEMMA SyncPaxosValueKeepsInv ==
  ASSUME AdminInv, NEW handled \in BOOLEAN, NEW ok \in BOOLEAN, SyncPaxosValue(handled, ok)
  PROVE  AdminInv'
<1>1. left' \in Left
  BY FailureType, Zenon DEF SyncPaxosValue, Call, AdminInv
<1>2. /\ admin.pc \in {"sync", "syncing", "copy", "copying"}
      /\ ok => slot[admin.list[admin.i]][admin.s].isDecided
  BY Zenon DEF SyncPaxosValue, Call
<1>3. admin' \in Admin /\ AdminOK(admin', isLocked, peers, me, slot, round)
  BY <1>2, SyncedKeepsInv, Zenon DEF SyncPaxosValue
<1>4. QED
  BY <1>1, <1>3, AdminKeepsInv, Zenon DEF SyncPaxosValue

(* SyncPaxosValue returns, its slot decided if there is no error.          *)
LEMMA SyncReturnsKeepsInv ==
  ASSUME AdminInv, NEW ok \in BOOLEAN, SyncReturns(ok)
  PROVE  AdminInv'
<1>1. left' \in Left
  BY FailureType, Zenon DEF SyncReturns, AdminInv
<1>2. admin.pc \in {"syncing", "copying"}
  BY Zenon DEF SyncReturns
<1>3. ok => slot[admin.list[admin.i]][admin.s].isDecided
  BY <1>2, Zenon DEF SyncReturns, AdminInv, AdminOK, WaitOK
<1>4. admin' \in Admin /\ AdminOK(admin', isLocked, peers, me, slot, round)
  BY <1>2, <1>3, SyncedKeepsInv, Zenon DEF SyncReturns
<1>5. QED
  BY <1>1, <1>4, AdminKeepsInv, Zenon DEF SyncReturns

(* SyncPaxosValue begins a round.                                          *)
LEMMA SyncStartsKeepsInv ==
  ASSUME AdminInv, SyncStarts
  PROVE  AdminInv'
(* SyncPaxosValue starts a round for the slot it is asked for.             *)
<1>SyncStartStep. ASSUME NEW a \in Admin, a.pc \in {"sync", "copy"},
                         NEW locked, NEW prs, NEW index, NEW slots, NEW rounds, NEW rounds2,
                         AdminOK(a, locked, prs, index, slots, rounds),
                         LET r == rounds2[<<a.list[a.i], "SyncPaxosValue">>] IN r.pc # "idle" /\ r.s = a.s
                  PROVE  LET b == [a EXCEPT !.pc = IF @ = "sync" THEN "syncing" ELSE "copying"]
                         IN  b \in Admin /\ AdminOK(b, locked, prs, index, slots, rounds2)
  <2>. USE <1>SyncStartStep
  <2>. DEFINE pc == IF a.pc = "sync" THEN "syncing" ELSE "copying"
              b == [a EXCEPT !.pc = pc]
  <2>1. pc \in AdminPc
    BY Zenon DEF AdminPc
  <2>2. a.pc = "sync" => pc = "syncing"
    BY Zenon
  <2>3. a.pc = "copy" => pc = "copying"
    OBVIOUS
  <2>. HIDE DEF pc
  <2>4. b \in Admin /\ b.pc = pc
    BY <2>1, Zenon DEF Admin
  <2>5. Same(a, b) /\ b.list = a.list /\ b.i = a.i /\ b.s = a.s /\ b.err = a.err
    BY Zenon DEF Admin, Same
  <2>6. b = [a EXCEPT !.pc = IF @ = "sync" THEN "syncing" ELSE "copying"]
    BY Zenon DEF pc
  <2>. HIDE DEF b
  <2>7. Locked(b) = Locked(a) /\ NewPeers(b) = NewPeers(a) /\ SyncList(b) = SyncList(a)
    BY <2>5, SameLists, Zenon
  <2>8. WaitOK(b, slots, rounds2)
    BY <2>5, Zenon DEF WaitOK
  <2>9. CASE a.pc = "sync"
    <3>1. /\ Known(a) /\ LockOK(a, locked) /\ SyncOK(a, slots) /\ a.s \in SlotNum
          /\ a.list = SyncList(a) /\ a.i \in 1 .. Len(a.list)
      BY <2>9, Zenon DEF AdminOK, ListOK, Known
    <3>2. ListOK(b)
      BY <2>2, <2>4, <2>5, <2>7, <2>9, <3>1, Zenon DEF ListOK, Known, Same
    <3>3. LockOK(b, locked)
      BY <2>2, <2>4, <2>5, <2>7, <2>9, <3>1, Zenon DEF LockOK, Same
    <3>4. SyncOK(b, slots)
      <4>1. ~Copying(b) /\ ~Succeeding(b)
        BY <2>2, <2>4, <2>9, Zenon DEF Copying, Succeeding
      <4>2. QED
        BY <2>2, <2>4, <2>5, <2>9, <3>1, <4>1, Zenon DEF SyncOK, Same
    <3>5. UpdateOK(b, prs, index) /\ CopyOK(b, slots)
      BY <2>2, <2>4, <2>9, Zenon DEF UpdateOK, CopyOK, Copying, Succeeding
    <3>6. AdminOK(b, locked, prs, index, slots, rounds2)
      BY <2>8, <3>2, <3>3, <3>4, <3>5, Zenon DEF AdminOK
    <3>7. QED
      BY <2>4, <2>6, <3>6, Zenon
  <2>10. CASE a.pc = "copy"
    <3>1. Copying(a)
      BY <2>10, Zenon DEF Copying
    <3>2. /\ Known(a) /\ a.op = "add" /\ a.list = a.peers /\ a.i \in 1 .. Len(a.list)
          /\ a.s \in SlotNum
          /\ \A p \in Host : locked[p] => p \in a.unreached \/ p \in Range(Locked(a))
          /\ \A q \in Range(NewPeers(a)) : HasList(a, prs, index, q)
          /\ \A j \in 1 .. Len(a.peers), s \in SlotNum : s <= a.max => slots[a.peers[j]][s].isDecided
          /\ \A s \in SlotNum : s < a.s => slots[a.x][s].isDecided
      BY <3>1, CopyingFacts, Zenon
    <3>3. Known(b) /\ Copying(b)
      BY <2>3, <2>4, <2>5, <2>10, <3>2, Zenon DEF Known, Copying, Same
    <3>4. b.op = "add" /\ b.list = b.peers /\ b.i \in 1 .. Len(b.list) /\ b.s \in SlotNum
      BY <2>5, <3>2, Zenon DEF Same
    <3>5. \A p \in Host : locked[p] => p \in b.unreached \/ p \in Range(Locked(b))
      BY <2>5, <2>7, <3>2, Zenon DEF Same
    <3>6. \A q \in Range(NewPeers(b)) : HasList(b, prs, index, q)
      BY <2>5, <2>7, <3>2, SameHasList, Zenon
    <3>7. \A j \in 1 .. Len(b.peers), s \in SlotNum : s <= b.max => slots[b.peers[j]][s].isDecided
      BY <2>5, <3>2, Zenon DEF Same
    <3>8. \A s \in SlotNum : s < b.s => slots[b.x][s].isDecided
      BY <2>5, <3>2, Zenon DEF Same
    <3>9. AdminOK(b, locked, prs, index, slots, rounds2)
      BY <2>8, <3>3, <3>4, <3>5, <3>6, <3>7, <3>8, CopyingOK, Zenon
    <3>10. QED
      BY <2>4, <2>6, <3>9, Zenon
  <2>11. QED
    BY <2>9, <2>10
<1>. USE DEF AdminInv
<1>. DEFINE q == admin.list[admin.i]
            t == <<q, "SyncPaxosValue">>
            r == Begun(q, admin.s, NoOp)
<1>1. admin \in Admin /\ admin.pc \in {"sync", "copy"}
  BY Zenon DEF SyncStarts, AdminTypeOK
<1>2. q \in Host /\ admin.s \in SlotNum
  BY <1>1, CalledHost, Zenon DEF AdminOK, ListOK
<1>3. t \in Thread /\ NoOp \in Value
  BY <1>2 DEF Thread, Value
<1>4. r \in Round /\ r.pc = "draw" /\ r.s = admin.s
  BY <1>2, <1>3, BegunType, Zenon
<1>5. round' = [round EXCEPT ![t] = r] /\ round \in [Thread -> Round]
  BY Zenon DEF SyncStarts, AdminTypeOK
<1>. HIDE DEF r
<1>6. round' \in [Thread -> Round] /\ round'[t] = r
  BY <1>3, <1>4, <1>5, Zenon
<1>7. round'[t].pc # "idle" /\ round'[t].s = admin.s
  BY <1>4, <1>6, Zenon
<1>8. admin' \in Admin /\ AdminOK(admin', isLocked, peers, me, slot, round')
  BY <1>1, <1>7, <1>SyncStartStep, Zenon DEF SyncStarts
<1>9. AdminTypeOK'
  BY <1>6, <1>8, Zenon DEF SyncStarts, pxVars, AdminTypeOK
<1>10. QED
  BY <1>8, <1>9, Zenon DEF SyncStarts, pxVars

(* UpdatePeers.                                                            *)
LEMMA UpdatePeersKeepsInv ==
  ASSUME AdminInv, NEW handled \in BOOLEAN, NEW ok \in BOOLEAN, UpdatePeers(handled, ok)
  PROVE  AdminInv'
(* Places before one of a list.                                            *)
<1>IndexFacts. ASSUME NEW S, NEW l \in Seq(S), NEW i \in DOMAIN l
               PROVE  /\ i \in 1 .. Len(l)
                      /\ \A j \in 1 .. Len(l) : /\ j <= i => j < i \/ j = i
                                                /\ j < i + 1 => j <= i
                                                /\ i + 1 > Len(l) => j <= i
  BY <1>IndexFacts
(* What is known of those that are updated, when the call to q is handled  *)
(* or q is counted as missed.                                              *)
<1>HasListStep. ASSUME NEW a, NEW b, NewPeers(a) = a.list, NewPeers(b) = a.list,
                       a.missed \subseteq b.missed,
                       NEW prs \in [Host -> Seq(Host) \ {<<>>}],
                       NEW index \in [Host -> Nat \ {0}], ~handled => a.list[a.i] \in b.missed,
                       NEW q \in Host, q = a.list[a.i] \/ HasList(a, prs, index, q)
                PROVE  HasList(b, IF handled THEN [prs EXCEPT ![a.list[a.i]] = a.list] ELSE prs,
                               IF handled THEN [index EXCEPT ![a.list[a.i]] = a.i] ELSE index, q)
  <2>. USE <1>HasListStep
  <2>1. CASE ~handled
    BY <2>1, Zenon DEF HasList
  <2>2. CASE handled
    BY <2>2, Zenon DEF HasList
  <2>3. QED
    BY <2>1, <2>2, Zenon
(* The updates end with all of the new list.                               *)
<1>AfterUpdatesStep. ASSUME NEW b, Known(b), NEW locked, NEW prs, NEW index, NEW slots, NEW rounds,
                            \A p \in Host : locked[p] => p \in b.unreached \/ p \in Range(Locked(b)),
                            \A q \in Range(NewPeers(b)) : HasList(b, prs, index, q),
                            b.op = "add" => \A j \in 1 .. Len(b.peers), s \in SlotNum :
                                              s <= b.max => slots[b.peers[j]][s].isDecided
                     PROVE  LET c == AfterUpdates(b)
                            IN  c \in Admin /\ AdminOK(c, locked, prs, index, slots, rounds)
  <2>. USE <1>AfterUpdatesStep
  <2>. DEFINE l == Loop(b, "copy", b.peers)
              d == [l EXCEPT !.s = 0]
  <2>1. /\ b \in Admin /\ b.peers \in Seq(Host) /\ b.peers # <<>> /\ "copy" \in AdminPc
    BY Zenon DEF Known, Admin, AdminPc
  <2>2. CASE b.op = "add"
    <3>1. l \in Admin /\ Same(b, l) /\ l.pc = "copy" /\ l.list = b.peers /\ l.i = 1
      BY ONLY <2>1, LoopFields
    <3>2. AfterUpdates(b) = d
      BY <2>2, Zenon DEF AfterUpdates
    <3>. HIDE DEF l
    <3>3. 0 \in Nat /\ 0 \in SlotNum
      BY AdminAssumption DEF SlotNum
    <3>4. d \in Admin /\ d.pc = l.pc /\ d.list = l.list /\ d.i = l.i /\ d.s = 0
      BY <3>1, <3>3, Zenon DEF Admin
    <3>5. Same(l, d)
      BY <3>1, Zenon DEF Admin, Same
    <3>. HIDE DEF d
    <3>6. Same(b, d)
      BY <3>1, <3>5, Zenon DEF Same
    <3>7. Locked(d) = Locked(b) /\ NewPeers(d) = NewPeers(b)
      BY <3>6, SameLists, Zenon
    <3>8. Known(d) /\ Copying(d) /\ WaitOK(d, slots, rounds)
      BY <3>1, <3>4, <3>6, Zenon DEF Known, Copying, WaitOK, Same
    <3>9. d.op = "add" /\ d.list = d.peers /\ d.s \in SlotNum
      BY <2>2, <3>1, <3>3, <3>4, <3>6, Zenon DEF Same
    <3>10. d.i \in 1 .. Len(d.list)
      BY <2>1, <3>1, <3>4
    <3>11. \A p \in Host : locked[p] => p \in d.unreached \/ p \in Range(Locked(d))
      BY <3>6, <3>7, Zenon DEF Same
    <3>12. \A q \in Range(NewPeers(d)) : HasList(d, prs, index, q)
      BY <3>6, <3>7, SameHasList, Zenon
    <3>13. \A j \in 1 .. Len(d.peers), s \in SlotNum : s <= d.max => slots[d.peers[j]][s].isDecided
      BY <2>2, <3>6, Zenon DEF Same
    <3>14. \A s \in SlotNum : s < d.s => slots[d.x][s].isDecided
      BY <3>4, AdminAssumption DEF SlotNum
    <3>15. AdminOK(d, locked, prs, index, slots, rounds)
      BY <3>8, <3>9, <3>10, <3>11, <3>12, <3>13, <3>14, CopyingOK, Zenon
    <3>16. QED
      BY <3>2, <3>4, <3>15, Zenon
  <2>3. CASE b.op # "add"
    <3>1. AfterUpdates(b) = Unlocking(b, FALSE)
      BY <2>3, Zenon DEF AfterUpdates
    <3>2. QED
      BY <2>3, <3>1, UnlockingOK, Zenon
  <2>4. QED
    BY <2>2, <2>3
(* UpdatePeers.                                                            *)
<1>UpdateStep. ASSUME NEW a \in Admin, a.pc = "update", a.i \in DOMAIN a.list,
                      NEW locked, NEW prs \in [Host -> Seq(Host) \ {<<>>}],
                      NEW index \in [Host -> Nat \ {0}],
                      NEW slots, NEW rounds, AdminOK(a, locked, prs, index, slots, rounds)
               PROVE  LET q == a.list[a.i]
                          b == [a EXCEPT !.i = @ + 1, !.missed = IF handled THEN @ ELSE @ \cup {q}]
                          c == IF ~ok /\ Matters(a, q) THEN Unlocking(a, TRUE)
                               ELSE IF Updated(b) THEN AfterUpdates(b) ELSE b
                      IN  /\ c \in Admin
                          /\ AdminOK(c, locked, IF handled THEN [prs EXCEPT ![q] = a.list] ELSE prs,
                                     IF handled THEN [index EXCEPT ![q] = a.i] ELSE index, slots, rounds)
  <2>. USE <1>UpdateStep
  <2>. DEFINE q == a.list[a.i]
              m == IF handled THEN a.missed ELSE a.missed \cup {q}
              b == [a EXCEPT !.i = @ + 1, !.missed = m]
              prs2 == IF handled THEN [prs EXCEPT ![q] = a.list] ELSE prs
              index2 == IF handled THEN [index EXCEPT ![q] = a.i] ELSE index
              c == IF ~ok /\ Matters(a, q) THEN Unlocking(a, TRUE)
                   ELSE IF Updated(b) THEN AfterUpdates(b) ELSE b
  <2>1. /\ Known(a) /\ a.list = NewPeers(a) /\ LockOK(a, locked) /\ UpdateOK(a, prs, index)
        /\ SyncOK(a, slots)
    BY Zenon DEF AdminOK, ListOK, Known
  <2>2. a.list \in Seq(Host) /\ a.missed \in SUBSET Host
    BY Zenon DEF Admin
  <2>3. /\ a.i \in 1 .. Len(a.list)
        /\ \A j \in 1 .. Len(a.list) : /\ j <= a.i => j < a.i \/ j = a.i
                                       /\ j < a.i + 1 => j <= a.i
                                       /\ a.i + 1 > Len(a.list) => j <= a.i
    BY <2>2, <1>IndexFacts, Zenon
  <2>4. q \in Host /\ a.i + 1 \in Nat \ {0}
    BY <2>2, <2>3, ElementType, Zenon
  <2>5. m \in SUBSET Host /\ a.missed \subseteq m /\ (~handled => q \in m)
    BY <2>2, <2>4, Zenon
  <2>6. /\ b \in Admin /\ b.pc = "update" /\ b.i = a.i + 1 /\ b.missed = m /\ b.list = a.list
        /\ b.op = a.op /\ b.x = a.x /\ b.peers = a.peers /\ b.good = a.good /\ b.max = a.max
        /\ b.unreached = a.unreached
    <3>. HIDE DEF m
    <3>1. b \in Admin
      BY <2>4, <2>5, Zenon DEF Admin
    <3>2. QED
      BY <3>1, Zenon DEF Admin
  <2>. HIDE DEF m, b
  <2>7. Known(b) /\ Locked(b) = Locked(a) /\ NewPeers(b) = NewPeers(a)
    BY <2>1, <2>6, Zenon DEF Known, Locked, NewPeers
  <2>8. \A p \in Host : locked[p] => p \in a.unreached \/ p \in Range(Locked(a))
    <3>1. a.pc \in HeldPc
      BY Zenon DEF HeldPc
    <3>2. QED
      BY <2>1, <3>1, HeldLock, Zenon
  <2>9. \A j \in 1 .. Len(a.list) : j <= a.i => HasList(b, prs2, index2, a.list[j])
    <3>. SUFFICES ASSUME NEW j \in 1 .. Len(a.list), j <= a.i
                  PROVE  HasList(b, prs2, index2, a.list[j])
      BY Zenon
    <3>1. a.list[j] \in Host /\ (j < a.i \/ j = a.i)
      BY <2>2, <2>3, ElementType, Zenon
    <3>2. a.list[j] = q \/ HasList(a, prs, index, a.list[j])
      BY <2>1, <3>1, Zenon DEF UpdateOK
    <3>3. QED
      BY <2>1, <2>5, <2>6, <2>7, <3>1, <3>2, <1>HasListStep, Zenon
  <2>10. a.op = "add" => \A j \in 1 .. Len(a.peers), s \in SlotNum :
                           s <= a.max => slots[a.peers[j]][s].isDecided
    BY <2>1, Zenon DEF SyncOK
  <2>11. c = LET k == [a EXCEPT !.i = @ + 1, !.missed = IF handled THEN @ ELSE @ \cup {q}]
             IN  IF ~ok /\ Matters(a, q) THEN Unlocking(a, TRUE)
                 ELSE IF Updated(k) THEN AfterUpdates(k) ELSE k
    BY Zenon DEF b, m
  <2>. HIDE DEF prs2, index2
  <2>12. c \in Admin /\ AdminOK(c, locked, prs2, index2, slots, rounds)
    <3>1. CASE ~ok /\ Matters(a, q)
      <4>1. c = Unlocking(a, TRUE)
        BY <3>1, Zenon
      <4>. HIDE DEF c
      <4>2. QED
        BY <2>1, <2>8, <4>1, UnlockingOK, Zenon
    <3>2. CASE ~(~ok /\ Matters(a, q)) /\ Updated(b)
      <4>1. c = AfterUpdates(b)
        BY <3>2, Zenon
      <4>2. \A k \in Range(NewPeers(b)) : HasList(b, prs2, index2, k)
        <5>1. \A j \in 1 .. Len(a.list) : j <= a.i
          BY <2>3, <2>6, <3>2, Zenon DEF Updated
        <5>2. \A k \in Range(a.list) : \E j \in 1 .. Len(a.list) : k = a.list[j]
          BY <2>2 DEF Range
        <5>3. Range(NewPeers(b)) = Range(a.list)
          BY <2>1, <2>7, Zenon
        <5>4. ASSUME NEW k \in Range(a.list) PROVE HasList(b, prs2, index2, k)
          <6>1. PICK j \in 1 .. Len(a.list) : k = a.list[j]
            BY <5>2, Zenon
          <6>2. HasList(b, prs2, index2, a.list[j])
            BY <2>9, <5>1, Zenon
          <6>3. QED
            BY <6>1, <6>2, Zenon
        <5>5. QED
          BY <5>3, <5>4, Zenon
      <4>3. \A p \in Host : locked[p] => p \in b.unreached \/ p \in Range(Locked(b))
        BY <2>6, <2>7, <2>8, Zenon
      <4>4. b.op = "add" => \A j \in 1 .. Len(b.peers), s \in SlotNum :
                              s <= b.max => slots[b.peers[j]][s].isDecided
        BY <2>6, <2>10, Zenon
      <4>. HIDE DEF c
      <4>5. QED
        BY <2>7, <4>1, <4>2, <4>3, <4>4, <1>AfterUpdatesStep, Zenon
    <3>3. CASE ~(~ok /\ Matters(a, q)) /\ ~Updated(b)
      <4>1. c = b
        BY <3>3, Zenon
      <4>2. ListOK(b)
        BY <2>1, <2>6, <2>7, Zenon DEF ListOK, Known
      <4>3. LockOK(b, locked)
        BY <2>6, <2>7, <2>8, Zenon DEF LockOK
      <4>4. UpdateOK(b, prs2, index2)
        <5>1. \A j \in 1 .. Len(a.list) : j < b.i => j <= a.i
          BY <2>3, <2>6, Zenon
        <5>2. QED
          BY <2>6, <2>9, <5>1, Zenon DEF UpdateOK, Copying, Succeeding
      <4>5. SyncOK(b, slots)
        BY <2>6, <2>10, Zenon DEF SyncOK
      <4>6. CopyOK(b, slots) /\ WaitOK(b, slots, rounds)
        BY <2>6, Zenon DEF CopyOK, WaitOK, Copying, Succeeding
      <4>7. AdminOK(b, locked, prs2, index2, slots, rounds)
        BY <4>2, <4>3, <4>4, <4>5, <4>6, Zenon DEF AdminOK
      <4>. HIDE DEF c
      <4>8. QED
        BY <2>6, <4>1, <4>7, Zenon
    <3>4. QED
      BY <3>1, <3>2, <3>3, Zenon
  <2>. HIDE DEF c
  <2>13. QED
    BY <2>11, <2>12, Zenon DEF prs2, index2
<1>. USE DEF AdminInv
<1>. DEFINE q == admin.list[admin.i]
            b == [admin EXCEPT !.i = @ + 1, !.missed = IF handled THEN @ ELSE @ \cup {q}]
            c == IF ~ok /\ Matters(admin, q) THEN Unlocking(admin, TRUE)
                 ELSE IF Updated(b) THEN AfterUpdates(b) ELSE b
            prs == IF handled THEN [peers EXCEPT ![q] = admin.list] ELSE peers
            index == IF handled THEN [me EXCEPT ![q] = admin.i] ELSE me
<1>1. left' \in Left
  BY FailureType, Zenon DEF UpdatePeers, Call
<1>2. /\ admin \in Admin /\ admin.pc = "update" /\ admin.i \in DOMAIN admin.list
      /\ peers \in [Host -> Seq(Host) \ {<<>>}] /\ me \in [Host -> Nat \ {0}]
  BY Zenon DEF UpdatePeers, AdminTypeOK
<1>3. peers' = prs /\ me' = index /\ admin' = c
  BY Zenon DEF UpdatePeers, Place
<1>4. q \in Host /\ admin.list \in Seq(Host) \ {<<>>} /\ admin.i \in Nat \ {0}
  <2>1. admin.list \in Seq(Host) /\ admin.i \in Nat \ {0}
    BY <1>2, Zenon DEF Admin
  <2>2. QED
    BY <1>2, <2>1
<1>5. c \in Admin /\ AdminOK(c, isLocked, prs, index, slot, round)
  BY <1>2, <1>UpdateStep, Zenon
<1>. HIDE DEF c
<1>6. prs \in [Host -> Seq(Host) \ {<<>>}] /\ index \in [Host -> Nat \ {0}]
  BY <1>2, <1>4, Zenon
<1>. HIDE DEF prs, index
<1>7. AdminTypeOK'
  BY <1>1, <1>3, <1>5, <1>6, Zenon DEF UpdatePeers, AdminTypeOK, Left
<1>8. QED
  BY <1>3, <1>5, <1>7, Zenon DEF UpdatePeers

(* Put.                                                                    *)
LEMMA PutKeepsInv ==
  ASSUME AdminInv, NEW handled \in BOOLEAN, NEW ok \in BOOLEAN, Put(handled, ok)
  PROVE  AdminInv'
(* Put decides the slot at the new peer, or fails.                         *)
<1>PutStep. ASSUME NEW a \in Admin, a.pc = "put", NEW locked, NEW prs, NEW index, NEW slots,
                   NEW rounds,
                   AdminOK(a, locked, prs, index, slots, rounds), NEW done \in BOOLEAN,
                   ok /\ ~done => slots[a.x][a.s].isDecided
            PROVE  LET c == IF ~ok \/ done THEN Unlocking(a, TRUE)
                            ELSE IF CopiesMore(a) THEN [a EXCEPT !.pc = "copy", !.s = @ + 1]
                            ELSE Unlocking(a, FALSE)
                   IN  c \in Admin /\ AdminOK(c, locked, prs, index, slots, rounds)
  <2>. USE <1>PutStep
  <2>. DEFINE b == [a EXCEPT !.pc = "copy", !.s = @ + 1]
              c == IF ~ok \/ done THEN Unlocking(a, TRUE)
                   ELSE IF CopiesMore(a) THEN b ELSE Unlocking(a, FALSE)
  <2>1. Copying(a) /\ "copy" \in AdminPc /\ a.max \in SlotNum \cup {-1}
    BY Zenon DEF Copying, AdminPc, Admin
  <2>2. /\ Known(a) /\ a.op = "add" /\ a.list = a.peers /\ a.i \in 1 .. Len(a.list)
        /\ a.s \in SlotNum
        /\ \A p \in Host : locked[p] => p \in a.unreached \/ p \in Range(Locked(a))
        /\ \A q \in Range(NewPeers(a)) : HasList(a, prs, index, q)
        /\ \A j \in 1 .. Len(a.peers), s \in SlotNum : s <= a.max => slots[a.peers[j]][s].isDecided
        /\ \A s \in SlotNum : s < a.s => slots[a.x][s].isDecided
    BY <2>1, CopyingFacts, Zenon
  <2>3. CASE ~ok \/ done
    <3>1. c = Unlocking(a, TRUE)
      BY <2>3, Zenon
    <3>. HIDE DEF c
    <3>2. c \in Admin /\ AdminOK(c, locked, prs, index, slots, rounds)
      BY <2>2, <3>1, UnlockingOK, Zenon
    <3>3. QED
      BY <3>2, Zenon DEF c
  <2>4. CASE ~(~ok \/ done) /\ CopiesMore(a)
    <3>1. a.s + 1 \in SlotNum /\ a.s + 1 \in Nat
      BY ONLY <2>1, <2>2, <2>4, AdminAssumption DEF CopiesMore, SlotNum
    <3>s. \A s \in SlotNum : s < a.s + 1 => s < a.s \/ s = a.s
      BY ONLY <2>1, <2>2, AdminAssumption DEF SlotNum
    <3>2. b \in Admin /\ b.pc = "copy" /\ b.s = a.s + 1
      BY <2>1, <3>1, Zenon DEF Admin
    <3>3. Same(a, b) /\ b.list = a.list /\ b.i = a.i
      BY Zenon DEF Admin, Same
    <3>4. c = b
      BY <2>4, Zenon
    <3>. HIDE DEF b
    <3>5. Locked(b) = Locked(a) /\ NewPeers(b) = NewPeers(a)
      BY <3>3, SameLists, Zenon
    <3>6. Known(b) /\ Copying(b) /\ WaitOK(b, slots, rounds)
      BY <2>2, <3>2, <3>3, Zenon DEF Known, Copying, WaitOK, Same
    <3>7. b.op = "add" /\ b.list = b.peers /\ b.i \in 1 .. Len(b.list) /\ b.s \in SlotNum
      BY <2>2, <3>1, <3>2, <3>3, Zenon DEF Same
    <3>8. \A p \in Host : locked[p] => p \in b.unreached \/ p \in Range(Locked(b))
      BY <2>2, <3>3, <3>5, Zenon DEF Same
    <3>9. \A q \in Range(NewPeers(b)) : HasList(b, prs, index, q)
      BY <2>2, <3>3, <3>5, SameHasList, Zenon
    <3>10. \A j \in 1 .. Len(b.peers), s \in SlotNum : s <= b.max => slots[b.peers[j]][s].isDecided
      BY <2>2, <3>3, Zenon DEF Same
    <3>11. \A s \in SlotNum : s < b.s => slots[b.x][s].isDecided
      BY <2>2, <2>4, <3>1, <3>s, <3>2, <3>3, Zenon DEF Same
    <3>12. AdminOK(b, locked, prs, index, slots, rounds)
      BY <3>6, <3>7, <3>8, <3>9, <3>10, <3>11, CopyingOK, Zenon
    <3>. HIDE DEF c
    <3>13. QED
      BY <3>2, <3>4, <3>12, Zenon DEF c, b
  <2>5. CASE ~(~ok \/ done) /\ ~CopiesMore(a)
    <3>1. c = Unlocking(a, FALSE)
      BY <2>5, Zenon
    <3>2. \A s \in SlotNum : s <= a.max => s < a.s \/ s = a.s
      BY <2>1, <2>2, <2>5 DEF CopiesMore, SlotNum
    <3>3. \A j \in 1 .. Len(a.peers), s \in SlotNum :
            s <= a.max => slots[a.peers[j]][s].isDecided /\ slots[a.x][s].isDecided
      BY <2>2, <2>5, <3>2, Zenon
    <3>. HIDE DEF c
    <3>4. c \in Admin /\ AdminOK(c, locked, prs, index, slots, rounds)
      BY <2>2, <3>1, <3>3, UnlockingOK, Zenon
    <3>5. QED
      BY <3>4, Zenon DEF c
  <2>6. QED
    BY <2>3, <2>4, <2>5
<1>. USE DEF AdminInv
<1>. DEFINE done == slot[admin.x][admin.s].isDecided
            sl == [admin.value EXCEPT !.isDecided = TRUE]
            c == IF ~ok \/ done THEN Unlocking(admin, TRUE)
                 ELSE IF CopiesMore(admin) THEN [admin EXCEPT !.pc = "copy", !.s = @ + 1]
                 ELSE Unlocking(admin, FALSE)
<1>1. left' \in Left
  BY FailureType, Zenon DEF Put, Call
<1>2. admin \in Admin /\ admin.pc = "put" /\ admin' = c /\ (ok => handled)
  BY Zenon DEF Put, Call, AdminTypeOK
<1>3. admin.x \in Host /\ admin.s \in SlotNum /\ admin.value \in SlotValue
  BY <1>2, Zenon DEF AdminOK, ListOK, Admin
<1>4. slot[admin.x][admin.s] \in SlotValue
  BY <1>3, StateTypes, Zenon
<1>5. done \in BOOLEAN
  BY <1>4, Zenon DEF SlotValue
<1>6. /\ slot' \in [Host -> [SlotNum -> SlotValue]] /\ SlotsKept(slot, slot')
      /\ maxDecidedSlot' \in [Host -> SlotNum]
      /\ ok /\ ~done => slot'[admin.x][admin.s].isDecided
  <2>1. CASE handled /\ ~done
    <3>1. sl \in SlotValue /\ sl.isDecided
      BY <1>3, Zenon DEF SlotValue
    <3>2. SetDecided(admin.x, admin.s, sl)
      BY <2>1, Zenon DEF Put
    <3>. HIDE DEF sl
    <3>3. /\ slot' \in [Host -> [SlotNum -> SlotValue]] /\ SlotsKept(slot, slot')
          /\ slot'[admin.x][admin.s] = sl /\ maxDecidedSlot' \in [Host -> SlotNum]
      BY ONLY AdminTypeOK, <1>3, <3>1, <3>2, SetDecidedType, Zenon
    <3>4. QED
      BY <3>1, <3>3, Zenon
  <2>2. CASE ~(handled /\ ~done)
    <3>1. slot' = slot /\ maxDecidedSlot' = maxDecidedSlot
      BY <2>2, Zenon DEF Put
    <3>2. QED
      BY <1>2, <2>2, <3>1, Zenon DEF AdminTypeOK, SlotsKept
  <2>3. QED
    BY <2>1, <2>2, Zenon
<1>7. AdminOK(admin, isLocked, peers, me, slot', round)
  <2>1. WaitOK(admin, slot', round)
    BY <1>2, Zenon DEF WaitOK
  <2>2. QED
    BY <1>2, <1>6, <2>1, MoreDecided, Zenon
<1>. HIDE DEF done
<1>8. c \in Admin /\ AdminOK(c, isLocked, peers, me, slot', round)
  BY <1>2, <1>5, <1>6, <1>7, <1>PutStep, Zenon
<1>. HIDE DEF c
<1>9. MinOK(slot', minUndecidedSlot)
  BY <1>6, Zenon DEF MinOK, SlotsKept
<1>10. AdminTypeOK'
  BY <1>1, <1>2, <1>6, <1>8, Zenon DEF Put, AdminTypeOK, Left
<1>11. QED
  BY <1>2, <1>8, <1>9, <1>10, Zenon DEF Put

(* Initially no change is under way and no slot is decided.                *)
LEMMA AdminInitInv ==
  AdminInit => AdminInv
<1>. SUFFICES ASSUME AdminInit PROVE AdminInv
  OBVIOUS
<1>1. PICK c \in Clusters :
        /\ peers = [p \in Host |-> IF p \in Range(c.peers) THEN c.peers ELSE <<p>>]
        /\ me = [p \in Host |-> IF p \in Range(c.peers)
                                THEN CHOOSE i \in DOMAIN c.peers : c.peers[i] = p ELSE 1]
        /\ left = [draws |-> c.draws, starts |-> c.starts, changes |-> c.changes, fails |-> c.fails]
  BY Zenon DEF AdminInit
<1>2. c.peers \in Seq(Host) /\ {c.draws, c.starts, c.changes, c.fails} \subseteq Nat
  BY AdminAssumption, Zenon
<1>3. peers \in [Host -> Seq(Host) \ {<<>>}] /\ me \in [Host -> Nat \ {0}]
  <2>1. ASSUME NEW p \in Host
        PROVE  (IF p \in Range(c.peers) THEN c.peers ELSE <<p>>) \in Seq(Host) \ {<<>>}
    BY <1>2 DEF Range
  <2>2. ASSUME NEW p \in Host
        PROVE  (IF p \in Range(c.peers) THEN CHOOSE i \in DOMAIN c.peers : c.peers[i] = p ELSE 1)
                 \in Nat \ {0}
    <3>1. CASE p \in Range(c.peers)
      <4>1. \E i \in DOMAIN c.peers : c.peers[i] = p
        BY <3>1, Zenon DEF Range
      <4>2. (CHOOSE i \in DOMAIN c.peers : c.peers[i] = p) \in DOMAIN c.peers
        BY <4>1, Zenon
      <4>3. DOMAIN c.peers \subseteq Nat \ {0}
        BY <1>2
      <4>4. QED
        BY <3>1, <4>2, <4>3, Zenon
    <3>2. CASE p \notin Range(c.peers)
      BY <3>2
    <3>3. QED
      BY <3>1, <3>2
  <2>3. QED
    BY <1>1, <2>1, <2>2, Zenon
<1>4. 0 \in SlotNum /\ 0 \in 0 .. LastSlot + 1 /\ 1 \in Nat
  BY AdminAssumption DEF SlotNum
<1>5. AdminTypeOK
  <2>1. left \in Left
    BY <1>1, <1>2, Zenon DEF Left
  <2>2. isLocked \in [Host -> BOOLEAN] /\ down \subseteq Host /\ now \in Nat
    BY <1>4, Zenon DEF AdminInit
  <2>3. slot \in [Host -> [SlotNum -> SlotValue]]
    BY NoAdminType, Zenon DEF AdminInit
  <2>4. maxDecidedSlot \in [Host -> SlotNum] /\ minUndecidedSlot \in [Host -> 0 .. LastSlot + 1]
    BY <1>4, Zenon DEF AdminInit
  <2>5. /\ round \in [Thread -> Round] /\ msgs \subseteq Message
        /\ decided \subseteq SlotNum \X Value /\ admin \in Admin
    BY NoAdminType, Zenon DEF AdminInit
  <2>6. QED
    BY <1>3, <2>1, <2>2, <2>3, <2>4, <2>5, Zenon DEF AdminTypeOK, Left
<1>6. admin.pc = "idle" /\ admin.op = "none" /\ \A p \in Host : ~isLocked[p]
  <2>1. admin = NoAdmin /\ isLocked = [p \in Host |-> FALSE]
    BY Zenon DEF AdminInit
  <2>2. NoAdmin.pc = "idle" /\ NoAdmin.op = "none"
    BY DEF NoAdmin
  <2>3. QED
    BY <2>1, <2>2, Zenon
<1>7. AdminOK(admin, isLocked, peers, me, slot, round)
  <2>1. ListOK(admin) /\ LockOK(admin, isLocked) /\ WaitOK(admin, slot, round)
    BY <1>6, Zenon DEF ListOK, LockOK, WaitOK
  <2>2. UpdateOK(admin, peers, me) /\ SyncOK(admin, slot) /\ CopyOK(admin, slot)
    BY <1>6, Zenon DEF UpdateOK, SyncOK, CopyOK, Copying, Succeeding
  <2>3. QED
    BY <2>1, <2>2, Zenon DEF AdminOK
<1>8. MinOK(slot, minUndecidedSlot)
  <2>1. \A p \in Host : minUndecidedSlot[p] = 0
    BY Zenon DEF AdminInit
  <2>2. \A s \in SlotNum : ~(s < 0)
    BY DEF SlotNum
  <2>3. QED
    BY <2>1, <2>2, Zenon DEF MinOK
<1>9. QED
  BY <1>5, <1>7, <1>8, Zenon DEF AdminInv

(* Every step keeps the invariant.                                         *)
LEMMA AdminNextInv ==
  AdminInv /\ [AdminNext]_adminVars => AdminInv'
<1>. SUFFICES ASSUME AdminInv, [AdminNext]_adminVars PROVE AdminInv'
  OBVIOUS
<1>1. ASSUME NEW op \in {"add", "remove"}, NEW x \in Host, NEW p \in Host, Change(op, x, p)
      PROVE  AdminInv'
  BY <1>1, ChangeKeepsInv, Zenon
<1>2. ASSUME NEW handled \in BOOLEAN, NEW ok \in BOOLEAN, Administrator(handled, ok)
      PROVE  AdminInv'
  BY <1>2, lockPeersKeepsInv, RemoteKillKeepsInv, CheckStatusKeepsInv, MinUndecidedSlotKeepsInv,
     MaxDecidedSlotKeepsInv, SyncPaxosValueKeepsInv, UpdatePeersKeepsInv, PutKeepsInv, Zenon
     DEF Administrator
<1>3. ASSUME NEW ok \in BOOLEAN, SyncReturns(ok) PROVE AdminInv'
  BY <1>3, SyncReturnsKeepsInv, Zenon
<1>4. CASE UNCHANGED adminVars
  <2>1. AdminTypeOK'
    BY <1>4, Zenon DEF AdminInv, adminVars, pxVars, AdminTypeOK
  <2>2. QED
    BY <1>4, <2>1, Zenon DEF AdminInv, adminVars, pxVars
<1>5. QED
  BY <1>1, <1>2, <1>3, <1>4, SyncStartsKeepsInv, PaxosStepsKeepInv, Zenon DEF AdminNext

(* The administrator's program, and Paxos under it, keep the inductive     *)
(* invariant.                                                              *)
THEOREM AdminInvariant ==
  AdminSpec => []AdminInv
BY AdminInitInv, AdminNextInv, PTL DEF AdminSpec

(* However AddPeer or RemovePeer ends, only peers whom an unlocking did    *)
(* not reach stay locked.                                                  *)
THEOREM ChangeUnlocks ==
  AdminSpec => []UnlockedAtEnd
<1>1. AdminInv => UnlockedAtEnd
  BY Zenon DEF AdminInv, AdminOK, LockOK, UnlockedAtEnd
<1>2. QED
  BY <1>1, AdminInvariant, PTL

(* A change that succeeds leaves everyone it has reached with one list and *)
(* its own place in it.                                                    *)
THEOREM ChangeGivesOneList ==
  AdminSpec => []OneList
<1>1. AdminInv => OneList
  BY Zenon DEF AdminInv, AdminOK, UpdateOK, HasList, Succeeding, OneList
<1>2. QED
  BY <1>1, AdminInvariant, PTL

(* When AddPeer succeeds, every peer and the new one have every slot       *)
(* decided up to the last that any of them had.                            *)
THEOREM AddPeerCatchesUp ==
  AdminSpec => []CaughtUp
<1>1. AdminInv => CaughtUp
  <2>. SUFFICES ASSUME AdminInv, admin.pc = "done", ~admin.err, admin.op = "add",
                       NEW q \in Range(admin.peers) \cup {admin.x}, NEW s \in 0 .. admin.max
                PROVE  slot[q][s].isDecided
    BY Zenon DEF CaughtUp
  <2>1. admin \in Admin /\ SyncOK(admin, slot) /\ CopyOK(admin, slot)
    BY Zenon DEF AdminInv, AdminTypeOK, AdminOK
  <2>2. Succeeding(admin)
    BY Zenon DEF Succeeding
  <2>3. s \in SlotNum /\ s <= admin.max
    <3>1. admin.max \in SlotNum \cup {-1}
      BY <2>1, Zenon DEF Admin
    <3>2. QED
      BY AdminAssumption, <3>1 DEF SlotNum
  <2>4. CASE q = admin.x
    BY <2>1, <2>2, <2>3, <2>4, Zenon DEF CopyOK
  <2>5. CASE q \in Range(admin.peers)
    <3>1. admin.peers \in Seq(Host)
      BY <2>1, Zenon DEF Admin
    <3>2. PICK j \in 1 .. Len(admin.peers) : admin.peers[j] = q
      BY <2>5, <3>1 DEF Range
    <3>3. QED
      BY <2>1, <2>2, <2>3, <3>2, Zenon DEF SyncOK
  <2>6. QED
    BY <2>4, <2>5
<1>2. QED
  BY <1>1, AdminInvariant, PTL
=============================================================================
