----------------------------- MODULE PaxosAdmin -----------------------------
(***************************************************************************)
(* Changing the members of a Paxos cluster (p3, paxosadmin/paxosadmin.go)  *)
(* while rounds are under way: AddPeer and RemovePeer as sequences of      *)
(* remote calls, and of paxos/paxos.go the handlers they use and           *)
(* startHelper, which reads px.peers and px.me anew in every phase.        *)
(*                                                                         *)
(* A request is in msgs from when it is sent until it is handled, or for   *)
(* ever; its reply is taken with it, if startHelper still waits for it.    *)
(* The peer's own request is handled as it is sent.                        *)
(* Hosts are numbers, and their order is that of the strings sliceEqual    *)
(* sorts by.  Slots are numbered from 0, positions in a list from 1.       *)
(***************************************************************************)
EXTENDS Integers, Sequences, FiniteSets, Functions

CONSTANTS Host,        \* hosts, numbers
          LastSlot,    \* bound: the slots in use are 0 .. LastSlot
          NoOp, Nil,
          MaxNow,      \* bound: the last instant
          Clusters     \* [peers, draws, starts, changes, fails]: the list a cluster
                       \* begins with and, bounds, how many sequence numbers are drawn,
                       \* how often Start and the administrator are called, and how
                       \* many calls of the administrator fail or hosts stop

ASSUME AdminAssumption ==
  /\ Host \subseteq Nat \ {0} /\ LastSlot \in Nat
  /\ NoOp \notin Host /\ Nil \notin Host /\ NoOp # Nil
  /\ \A c \in Clusters : /\ c.peers \in Seq(Host) /\ IsInjective(c.peers)
                         /\ {c.draws, c.starts, c.changes, c.fails} \subseteq Nat

VARIABLES
  peers, me, isLocked, down, slot, maxDecidedSlot, minUndecidedSlot,  \* Paxos
  round,     \* startHelper, called by Start and by SyncPaxosValue, of each host
  msgs, now,
  decided,   \* history: the values of Decide broadcasts
  admin,     \* the program of the administrator
  left       \* what is left of the bounds

pxVars == <<peers, me, isLocked, down, slot, maxDecidedSlot, minUndecidedSlot>>
adminVars == <<pxVars, round, msgs, now, decided, admin, left>>

SlotNum == 0 .. LastSlot

Thread == Host \X {"Start", "SyncPaxosValue"}

EmptySlot == [value |-> Nil, isDecided |-> FALSE, seqNumAccepted |-> 0, seqNumHighest |-> 0]

NoRound == [pc |-> "idle", s |-> 0, v |-> Nil, n |-> 0, heard |-> 0, numOk |-> 0,
            acc |-> 0, propose |-> Nil, high |-> 0]

NoAdmin == [pc |-> "idle", op |-> "none", x |-> 0, peers |-> <<>>, good |-> <<>>, list |-> <<>>,
            same |-> TRUE, i |-> 1, s |-> 0, min |-> LastSlot + 1, max |-> -1, value |-> EmptySlot,
            err |-> FALSE,
            missed |-> {},     \* history: whom UpdatePeers did not reach
            unreached |-> {}]  \* history: whom no SetLock has reached since an unlocking did not

(* A host outside the cluster runs alone until it is added.                *)
AdminInit ==
  \E c \in Clusters : LET list == c.peers IN
    /\ peers = [p \in Host |-> IF p \in Range(list) THEN list ELSE <<p>>]
    /\ me = [p \in Host |-> IF p \in Range(list) THEN CHOOSE i \in DOMAIN list : list[i] = p ELSE 1]
    /\ isLocked = [p \in Host |-> FALSE]
    /\ down = {}
    /\ slot = [p \in Host |-> [s \in SlotNum |-> EmptySlot]]
    /\ maxDecidedSlot = [p \in Host |-> 0]
    /\ minUndecidedSlot = [p \in Host |-> 0]
    /\ round = [t \in Thread |-> NoRound]
    /\ msgs = {} /\ now = 1 /\ decided = {}
    /\ admin = NoAdmin
    /\ left = [draws |-> c.draws, starts |-> c.starts, changes |-> c.changes, fails |-> c.fails]

-----------------------------------------------------------------------------
(* The handlers of a peer: the slot they leave, and whether they agree.    *)

Promises(sl, n) == n > sl.seqNumHighest

Prepared(sl, n) == IF Promises(sl, n) THEN [sl EXCEPT !.seqNumHighest = n] ELSE sl

Accepts(sl, n) == n >= sl.seqNumHighest

Accepted(sl, n, v) ==
  IF Accepts(sl, n)
  THEN [sl EXCEPT !.seqNumAccepted = n, !.seqNumHighest = n, !.value = v] ELSE sl

DecidedAs(sl, v) == [sl EXCEPT !.value = v, !.isDecided = TRUE]

(* Decide and Put raise maxDecidedSlot.                                    *)
SetDecided(p, s, sl) ==
  /\ slot' = [slot EXCEPT ![p][s] = sl]
  /\ maxDecidedSlot' = [maxDecidedSlot EXCEPT ![p] = IF s > @ THEN s ELSE @]

-----------------------------------------------------------------------------
(* startHelper.                                                            *)

Begun(p, s, v) == [NoRound EXCEPT !.pc = "draw", !.s = s, !.v = v,
                                  !.high = slot[p][s].seqNumHighest]

(* Start, called by the server of a member of the cluster.                 *)
Start(p, s) ==
  /\ left.starts > 0 /\ round[<<p, "Start">>].pc = "idle" /\ Len(peers[p]) > 1
  /\ ~isLocked[p]
  /\ left' = [left EXCEPT !.starts = @ - 1]
  /\ round' = [round EXCEPT ![<<p, "Start">>] = Begun(p, s, p)]
  /\ UNCHANGED <<pxVars, msgs, now, decided, admin>>

(* The next number of the peer's own class that is above high.             *)
SeqNum(p, t, high) ==
  LET len == Len(peers[p])
      n == t * len + (me[p] - 1)
  IN  IF n <= high THEN n + ((high - n) - ((high - n) % len)) + len ELSE n

(* The requests to the others, in the list as it is now.  One that is sent *)
(* to a closed listener is never handled.                                  *)
Requests(t, type, n, v) ==
  LET p == t[1]
  IN  {[type |-> type, from |-> t, to |-> peers[p][i], up |-> peers[p][i] \notin down,
        waits |-> type # "Decide", s |-> round[t].s, n |-> n, v |-> v] :
         i \in DOMAIN peers[p] \ {me[p]}}

(* Every phase has a channel of its own: nobody reads the replies to the   *)
(* requests of an earlier one.                                             *)
Abandoned(t) == {IF m.from = t THEN [m EXCEPT !.waits = FALSE] ELSE m : m \in msgs}

(* Variant: half of the list is enough.                                    *)
MajorityHalf(p, numOk) == 2 * numOk >= Len(peers[p])

Majority(p, numOk) == numOk > Len(peers[p]) \div 2

(* What startHelper does with a reply, or with the failure of a call: it   *)
(* goes on with a majority, and starts again once it has heard of all,     *)
(* where "all" is the length the list has now.                             *)
Heard(p, r, ok, acc, v, high) ==
  LET h == [r EXCEPT !.heard = @ + 1,
                     !.numOk = IF ok THEN @ + 1 ELSE @,
                     !.acc = IF ok /\ acc > @ THEN acc ELSE @,
                     !.propose = IF ok /\ acc > r.acc THEN v ELSE @,
                     !.high = IF ~ok /\ high > @ THEN high ELSE @]
  IN  [h EXCEPT !.pc = CASE Majority(p, h.numOk) -> IF @ = "prepare" THEN "prepared" ELSE "accepted"
                         [] ~Majority(p, h.numOk) /\ h.heard >= Len(peers[p]) -> "draw"
                         [] OTHER -> @]

SendPrepare(t) ==
  LET p == t[1]
      r == round[t]
      sl == slot[p][r.s]
  IN  /\ r.pc = "draw" /\ left.draws > 0
      /\ left' = [left EXCEPT !.draws = @ - 1]
      /\ now' \in {now, now + 1} /\ now' <= MaxNow
      /\ LET n == SeqNum(p, now', r.high)
             sent == [r EXCEPT !.pc = "prepare", !.n = n, !.heard = 0, !.numOk = 0, !.acc = 0,
                               !.propose = r.v, !.high = 0]
         IN  /\ round' = [round EXCEPT ![t] = Heard(p, sent, Promises(sl, n), sl.seqNumAccepted,
                                                     sl.value, sl.seqNumHighest)]
             /\ slot' = [slot EXCEPT ![p][r.s] = Prepared(sl, n)]
             /\ msgs' = Abandoned(t) \cup Requests(t, "Prepare", n, Nil)
      /\ UNCHANGED <<peers, me, isLocked, down, maxDecidedSlot, minUndecidedSlot, decided, admin>>

SendAccept(t) ==
  LET p == t[1]
      r == round[t]
      sl == slot[p][r.s]
      sent == [r EXCEPT !.pc = "accept", !.heard = 0, !.numOk = 0, !.high = 0]
  IN  /\ r.pc = "prepared"
      /\ round' = [round EXCEPT ![t] = Heard(p, sent, Accepts(sl, r.n), 0, Nil, sl.seqNumHighest)]
      /\ slot' = [slot EXCEPT ![p][r.s] = Accepted(sl, r.n, r.propose)]
      /\ msgs' = Abandoned(t) \cup Requests(t, "Accept", r.n, r.propose)
      /\ UNCHANGED <<peers, me, isLocked, down, maxDecidedSlot, minUndecidedSlot, now, decided,
                     admin, left>>

SendDecide(t) ==
  LET p == t[1]
      r == round[t]
  IN  /\ r.pc = "accepted"
      /\ round' = [round EXCEPT ![t] = NoRound]
      /\ decided' = decided \cup {<<r.s, r.propose>>}
      /\ SetDecided(p, r.s, DecidedAs(slot[p][r.s], r.propose))
      /\ msgs' = Abandoned(t) \cup Requests(t, "Decide", 0, r.propose)
      /\ UNCHANGED <<peers, me, isLocked, down, minUndecidedSlot, now, admin, left>>

(* startHelper still reads the channel the reply goes to.                  *)
Waits(m) == m.waits /\ round[m.from].pc \in {"prepare", "accept"}

Reply(m, ok, acc, v, high) ==
  round' = IF Waits(m)
           THEN [round EXCEPT ![m.from] = Heard(m.from[1], @, ok, acc, v, high)]
           ELSE round

Prepare(m) ==
  LET sl == slot[m.to][m.s]
  IN  /\ m.type = "Prepare" /\ m.up
      /\ msgs' = msgs \ {m}
      /\ slot' = [slot EXCEPT ![m.to][m.s] = Prepared(sl, m.n)]
      /\ Reply(m, Promises(sl, m.n), sl.seqNumAccepted, sl.value, sl.seqNumHighest)
      /\ UNCHANGED <<peers, me, isLocked, down, maxDecidedSlot, minUndecidedSlot, now, decided,
                     admin, left>>

Accept(m) ==
  LET sl == slot[m.to][m.s]
  IN  /\ m.type = "Accept" /\ m.up
      /\ msgs' = msgs \ {m}
      /\ slot' = [slot EXCEPT ![m.to][m.s] = Accepted(sl, m.n, m.v)]
      /\ Reply(m, Accepts(sl, m.n), 0, Nil, sl.seqNumHighest)
      /\ UNCHANGED <<peers, me, isLocked, down, maxDecidedSlot, minUndecidedSlot, now, decided,
                     admin, left>>

Decide(m) ==
  /\ m.type = "Decide" /\ m.up
  /\ msgs' = msgs \ {m}
  /\ SetDecided(m.to, m.s, DecidedAs(slot[m.to][m.s], m.v))
  /\ UNCHANGED <<peers, me, isLocked, down, minUndecidedSlot, round, now, decided, admin, left>>

(* A call fails because nobody listens.  A call that fails otherwise is    *)
(* one that is not handled, or not in time: its caller goes on without it. *)
CallFails(m) ==
  /\ Waits(m) /\ ~m.up
  /\ msgs' = msgs \ {m}
  /\ Reply(m, FALSE, 0, Nil, 0)
  /\ UNCHANGED <<pxVars, now, decided, admin, left>>

(* A host stops answering (a crash, or Deaf).                              *)
Stop(p) ==
  /\ p \notin down /\ left.fails > 0
  /\ left' = [left EXCEPT !.fails = @ - 1]
  /\ down' = down \cup {p}
  /\ UNCHANGED <<peers, me, isLocked, slot, maxDecidedSlot, minUndecidedSlot, round, msgs, now,
                 decided, admin>>

-----------------------------------------------------------------------------
(* The administrator's program, one remote call a step.  admin.list and    *)
(* admin.i are the list of the loop it is in and its index.                *)

(* A call to a host that answers fails only as often as the bound allows.  *)
Failure(q, ok) ==
  IF ok \/ q \in down THEN left' = left
  ELSE left.fails > 0 /\ left' = [left EXCEPT !.fails = @ - 1]

(* paxosAdminCall to q: handled or not, and answered or not.               *)
Call(q, handled, ok) ==
  /\ q \in down => ~handled
  /\ ok => handled
  /\ Failure(q, ok)

Loop(a, pc, list) == [a EXCEPT !.pc = pc, !.list = list, !.i = 1]

Return(a, err) == [a EXCEPT !.pc = "done", !.err = err]

(* The deferred unlocking of everyone that was to be locked, and return.   *)
Locked(a) == IF a.op = "add" THEN a.peers \o <<a.x>> ELSE a.good

(* Variant: not when an error is returned.                                 *)
UnlockingNotOnError(a, err) ==
  IF err \/ Locked(a) = <<>> THEN Return(a, err) ELSE Loop(a, "unlock", Locked(a))

Unlocking(a, err) ==
  IF Locked(a) = <<>> THEN Return(a, err)
  ELSE [Loop(a, "unlock", Locked(a)) EXCEPT !.err = err]

(* The list l without x, which is in it once.                              *)
Without(l, x) == [i \in 1 .. Len(l) - 1 |-> IF x \in {l[j] : j \in 1 .. i} THEN l[i + 1] ELSE l[i]]

(* The list of AddPeer and RemovePeer after the change.                    *)
NewPeers(a) == IF a.op = "add" THEN a.peers \o <<a.x>> ELSE Without(a.peers, a.x)

(* What syncPeers asks: the peers of AddPeer, the good ones of RemovePeer. *)
SyncList(a) == IF a.op = "add" THEN a.peers ELSE a.good

(* AddPeer and RemovePeer are called with the list of the cluster.         *)
Change(op, x, p) ==
  /\ admin.pc \in {"idle", "done"} /\ left.changes > 0
  /\ Len(peers[p]) > 1
  /\ op = "add" => Len(peers[x]) = 1
  /\ op = "remove" => x \in Range(peers[p])
  /\ left' = [left EXCEPT !.changes = @ - 1]
  /\ admin' = Loop([NoAdmin EXCEPT !.op = op, !.x = x, !.peers = peers[p],
                                !.unreached = admin.unreached], "open", peers[p])
  /\ UNCHANGED <<pxVars, round, msgs, now, decided>>

(* What follows a loop of lockPeers.  Only AddPeer looks at its error, and *)
(* only at that of locking.                                                *)
AfterLocks(a) ==
  CASE a.pc = "open" -> IF a.op = "add" THEN Loop(a, "show", a.peers) ELSE Loop(a, "kill", <<a.x>>)
    [] a.pc = "lock" -> IF a.op = "add" /\ a.err THEN Unlocking(a, TRUE)
                        ELSE Loop([a EXCEPT !.err = FALSE], "min", SyncList(a))
    [] a.pc = "unlock" -> Return(a, a.err)

lockPeers(handled, ok) ==
  LET a == admin
      q == a.list[a.i]
      b == [a EXCEPT !.i = @ + 1,
                     !.err = @ \/ (~ok /\ a.pc = "lock"),
                     !.unreached = IF handled THEN @ \ {q}
                                   ELSE IF a.pc = "unlock" THEN @ \cup {q} ELSE @]
  IN  /\ a.pc \in {"open", "lock", "unlock"}
      /\ Call(q, handled, ok)
      /\ isLocked' = IF handled THEN [isLocked EXCEPT ![q] = (a.pc = "lock")] ELSE isLocked
      /\ admin' = IF b.i > Len(a.list) THEN AfterLocks(b) ELSE b
      /\ UNCHANGED <<peers, me, down, slot, maxDecidedSlot, minUndecidedSlot, round, msgs, now,
                     decided>>

RemoteKill(handled, ok) ==
  /\ admin.pc = "kill"
  /\ Call(admin.x, handled, ok)
  /\ down' = IF handled THEN down \cup {admin.x} ELSE down
  /\ admin' = Loop(admin, "show", admin.peers)
  /\ UNCHANGED <<peers, me, isLocked, slot, maxDecidedSlot, minUndecidedSlot, round, msgs, now,
                 decided>>

(* The list l in another order, in any.                                    *)
Orders(l) == {[i \in DOMAIN l |-> l[f[i]]] : f \in Bijection(DOMAIN l, DOMAIN l)}

(* sliceEqual, if there is a list to compare with, sorts both where they   *)
(* are.                                                                    *)
Sorted(a) ==
  IF a.good = <<>> THEN {a.peers}
  ELSE {l \in Orders(a.peers) : \A i, j \in DOMAIN l : i < j => l[i] <= l[j]}

(* The good peers in RemovePeer come from a map, in any order.             *)
GoodPeers(a) == IF a.op = "add" THEN {a.good} ELSE Orders(a.good)

(* lockPeers of those that are to be locked; syncPeers of nobody does      *)
(* nothing.                                                                *)
Locking(a) ==
  IF Locked(a) = <<>> THEN Loop(a, "update", NewPeers(a)) ELSE Loop(a, "lock", Locked(a))

(* After ShowPeers: the checks, and the lists to go on with.               *)
AfterShow(a) ==
  IF ~a.same \/ (a.op = "add" /\ Len(a.good) < Len(a.peers)) THEN {Return(a, TRUE)}
  ELSE {Locking([a EXCEPT !.peers = l[1], !.good = l[2]]) : l \in Sorted(a) \X GoodPeers(a)}

CheckStatus(handled, ok) ==
  LET a == admin
      q == a.list[a.i]
      b == [a EXCEPT !.i = @ + 1,
                     !.good = IF ok THEN Append(@, q) ELSE @,
                     !.same = @ /\ (ok => Range(peers[q]) = Range(a.peers))]
  IN  /\ a.pc = "show"
      /\ Call(q, handled, ok)
      /\ admin' \in IF b.i > Len(a.list) THEN AfterShow(b) ELSE {b}
      /\ UNCHANGED <<pxVars, round, msgs, now, decided>>

(* syncPeers asks each peer for its first undecided and last decided slot. *)
FirstUndecided(p) ==
  CHOOSE s \in 0 .. LastSlot + 1 :
    /\ s >= minUndecidedSlot[p]
    /\ s \in SlotNum => ~slot[p][s].isDecided
    /\ \A t \in SlotNum : minUndecidedSlot[p] <= t /\ t < s => slot[p][t].isDecided

MinUndecidedSlot(handled, ok) ==
  LET a == admin
      q == a.list[a.i]
      n == FirstUndecided(q)
  IN  /\ a.pc = "min"
      /\ Call(q, handled, ok)
      /\ minUndecidedSlot' = IF handled THEN [minUndecidedSlot EXCEPT ![q] = n] ELSE minUndecidedSlot
      /\ admin' = [a EXCEPT !.pc = "max", !.err = @ \/ ~ok,
                            !.min = IF ok /\ n < @ THEN n ELSE @]
      /\ UNCHANGED <<peers, me, isLocked, down, slot, maxDecidedSlot, round, msgs, now, decided>>

(* A slot to sync at every peer of the list, and what follows the last.    *)
AfterSync(a) ==
  IF a.s <= a.max THEN [a EXCEPT !.pc = "sync", !.i = 1]
  ELSE IF a.err THEN Unlocking(a, TRUE) ELSE Loop(a, "update", NewPeers(a))

MaxDecidedSlot(handled, ok) ==
  LET a == admin
      q == a.list[a.i]
      b == [a EXCEPT !.i = @ + 1, !.err = @ \/ ~ok,
                     !.max = IF ok /\ maxDecidedSlot[q] > @ THEN maxDecidedSlot[q] ELSE @]
  IN  /\ a.pc = "max"
      /\ Call(q, handled, ok)
      /\ admin' = IF b.i > Len(a.list) THEN AfterSync([b EXCEPT !.s = b.min])
                  ELSE [b EXCEPT !.pc = "min"]
      /\ UNCHANGED <<pxVars, round, msgs, now, decided>>

(* The answer to SyncPaxosValue.  In syncPeers the message of an error     *)
(* names peers[i], i the slot, and panics beyond the list; the deferred    *)
(* unlocking is done all the same.  AddPeer goes on to Put.                *)
Synced(a, ok, sl) ==
  LET b == [a EXCEPT !.i = @ + 1, !.err = @ \/ ~ok]
  IN  CASE a.pc \in {"copy", "copying"} ->
             IF ok THEN [a EXCEPT !.pc = "put", !.value = sl] ELSE Unlocking(a, TRUE)
        [] a.pc \in {"sync", "syncing"} ->
             IF ~ok /\ a.s >= Len(a.list) THEN Unlocking(a, TRUE)
             ELSE IF b.i > Len(a.list) THEN AfterSync([b EXCEPT !.s = @ + 1])
             ELSE [b EXCEPT !.pc = "sync"]

(* SyncPaxosValue of a slot that is decided, and of one that is not.       *)
SyncPaxosValue(handled, ok) ==
  LET a == admin
      q == a.list[a.i]
      sl == slot[q][a.s]
  IN  /\ a.pc \in {"sync", "copy"}
      /\ Call(q, handled, ok)
      /\ handled => sl.isDecided
      /\ admin' = Synced(a, ok, sl)
      /\ UNCHANGED <<pxVars, round, msgs, now, decided>>

SyncStarts ==
  LET a == admin
      q == a.list[a.i]
      t == <<q, "SyncPaxosValue">>
  IN  /\ a.pc \in {"sync", "copy"} /\ q \notin down
      /\ ~slot[q][a.s].isDecided /\ round[t].pc = "idle"
      /\ round' = [round EXCEPT ![t] = Begun(q, a.s, NoOp)]
      /\ admin' = [a EXCEPT !.pc = IF @ = "sync" THEN "syncing" ELSE "copying"]
      /\ UNCHANGED <<pxVars, msgs, now, decided, left>>

(* It returns, or the connection breaks while its round goes on.           *)
SyncReturns(ok) ==
  LET a == admin
      q == a.list[a.i]
  IN  /\ a.pc \in {"syncing", "copying"}
      /\ ok => round[<<q, "SyncPaxosValue">>].pc = "idle"
      /\ Failure(q, ok)
      /\ admin' = Synced(a, ok, slot[q][a.s])
      /\ UNCHANGED <<pxVars, round, msgs, now, decided>>

(* The failure that matters: of any peer but the new one in AddPeer, of a  *)
(* good one in RemovePeer.                                                 *)
Matters(a, q) == IF a.op = "add" THEN q # a.x ELSE q \in Range(a.good)

AfterUpdates(a) ==
  IF a.op = "add" THEN [Loop(a, "copy", a.peers) EXCEPT !.s = 0] ELSE Unlocking(a, FALSE)

Place(a) == a.i

(* Variant: one peer too early.                                            *)
UpdatedEarly(a) == a.i >= Len(a.list)

Updated(a) == a.i > Len(a.list)

UpdatePeers(handled, ok) ==
  LET a == admin
      q == a.list[a.i]
      b == [a EXCEPT !.i = @ + 1, !.missed = IF handled THEN @ ELSE @ \cup {q}]
  IN  /\ a.pc = "update" /\ a.i \in DOMAIN a.list
      /\ Call(q, handled, ok)
      /\ peers' = IF handled THEN [peers EXCEPT ![q] = a.list] ELSE peers
      /\ me' = IF handled THEN [me EXCEPT ![q] = Place(a)] ELSE me
      /\ admin' = IF ~ok /\ Matters(a, q) THEN Unlocking(a, TRUE)
                  ELSE IF Updated(b) THEN AfterUpdates(b) ELSE b
      /\ UNCHANGED <<isLocked, down, slot, maxDecidedSlot, minUndecidedSlot, round, msgs, now,
                     decided>>

(* Variant: the last slot is left out.                                     *)
CopiesFewer(a) == a.s + 1 < a.max

CopiesMore(a) == a.s < a.max

(* Put copies a slot of the first peer to the new one.                     *)
Put(handled, ok) ==
  LET a == admin
      done == slot[a.x][a.s].isDecided
  IN  /\ a.pc = "put"
      /\ Call(a.x, handled, ok)
      /\ IF handled /\ ~done
         THEN SetDecided(a.x, a.s, [a.value EXCEPT !.isDecided = TRUE])
         ELSE UNCHANGED <<slot, maxDecidedSlot>>
      /\ admin' = IF ~ok \/ done THEN Unlocking(a, TRUE)
                  ELSE IF CopiesMore(a) THEN [a EXCEPT !.pc = "copy", !.s = @ + 1]
                  ELSE Unlocking(a, FALSE)
      /\ UNCHANGED <<peers, me, isLocked, down, minUndecidedSlot, round, msgs, now, decided>>

-----------------------------------------------------------------------------
Proposer(t) == SendPrepare(t) \/ SendAccept(t) \/ SendDecide(t)

Deliver(m) == Prepare(m) \/ Accept(m) \/ Decide(m) \/ CallFails(m)

Administrator(handled, ok) ==
  \/ lockPeers(handled, ok) \/ RemoteKill(handled, ok) \/ CheckStatus(handled, ok)
  \/ MinUndecidedSlot(handled, ok) \/ MaxDecidedSlot(handled, ok)
  \/ SyncPaxosValue(handled, ok) \/ UpdatePeers(handled, ok) \/ Put(handled, ok)

AdminNext ==
  \/ \E p \in Host, s \in SlotNum : Start(p, s)
  \/ \E t \in Thread : Proposer(t)
  \/ \E m \in msgs : Deliver(m)
  \/ \E p \in Host : Stop(p)
  \/ \E op \in {"add", "remove"}, x, p \in Host : Change(op, x, p)
  \/ \E handled, ok \in BOOLEAN : Administrator(handled, ok)
  \/ SyncStarts
  \/ \E ok \in BOOLEAN : SyncReturns(ok)

AdminSpec == AdminInit /\ [][AdminNext]_adminVars

-----------------------------------------------------------------------------
(* Everything ever decided for a slot agrees, although a change is made    *)
(* while rounds are under way: startHelper sends to one list and counts by *)
(* the length of another, and peers have the old list and the new.         *)
ChangeAgreement == \A d, e \in decided : d[1] = e[1] => d = e

(* When AddPeer succeeds, every peer it has synced and the one it adds     *)
(* have every slot decided up to the last one any of them had, although    *)
(* the rounds that fill the gaps run while other rounds go on, and a round *)
(* may outlive the call that has started it.                               *)
CaughtUp ==
  admin.pc = "done" /\ ~admin.err /\ admin.op = "add" =>
    \A q \in Range(admin.peers) \cup {admin.x}, s \in 0 .. admin.max : slot[q][s].isDecided

(* A change that succeeds leaves everyone its updates have reached with    *)
(* the new list and its own place in it, although sliceEqual has sorted    *)
(* the list meanwhile.                                                     *)
OneList ==
  admin.pc = "done" /\ ~admin.err =>
    \A q \in Range(NewPeers(admin)) \ admin.missed :
      peers[q] = NewPeers(admin) /\ NewPeers(admin)[me[q]] = q

(* However a change ends, the only ones left locked are those whom the     *)
(* deferred unlocking of this change, or of an earlier one, did not reach. *)
UnlockedAtEnd == admin.pc = "done" => \A p \in Host : isLocked[p] => p \in admin.unreached

-----------------------------------------------------------------------------
(* Types.                                                                  *)

Value == Host \cup {NoOp, Nil}

SlotValue == [value : Value, isDecided : BOOLEAN, seqNumAccepted : Int, seqNumHighest : Int]

Round == [pc : {"idle", "draw", "prepare", "prepared", "accept", "accepted"}, s : SlotNum,
          v : Value, n : Int, heard : Nat, numOk : Nat, acc : Int, propose : Value, high : Int]

Message == [type : {"Prepare", "Accept", "Decide"}, from : Thread, to : Host, up : BOOLEAN,
            waits : BOOLEAN, s : SlotNum, n : Int, v : Value]

AdminPc == {"idle", "open", "kill", "show", "lock", "min", "max", "sync", "syncing", "update",
            "copy", "copying", "put", "unlock", "done"}

Admin == [pc : AdminPc, op : {"none", "add", "remove"}, x : Host \cup {0}, peers : Seq(Host),
          good : Seq(Host), list : Seq(Host), same : BOOLEAN, i : Nat \ {0}, s : Nat, min : Nat,
          max : SlotNum \cup {-1}, value : SlotValue, err : BOOLEAN, missed : SUBSET Host,
          unreached : SUBSET Host]

AdminTypeOK ==
  /\ peers \in [Host -> Seq(Host) \ {<<>>}] /\ me \in [Host -> Nat \ {0}]
  /\ isLocked \in [Host -> BOOLEAN] /\ down \subseteq Host
  /\ slot \in [Host -> [SlotNum -> SlotValue]]
  /\ maxDecidedSlot \in [Host -> SlotNum] /\ minUndecidedSlot \in [Host -> 0 .. LastSlot + 1]
  /\ round \in [Thread -> Round] /\ msgs \subseteq Message /\ now \in Nat
  /\ decided \subseteq SlotNum \X Value
  /\ admin \in Admin /\ left \in [draws : Nat, starts : Nat, changes : Nat, fails : Nat]

-----------------------------------------------------------------------------
(* The inductive invariant: what the administrator a has done at each      *)
(* point of its program.                                                   *)

(* The list it works through, and its place in it.                         *)
ListOK(a) ==
  /\ a.pc # "idle" => a.op # "none" /\ a.x \in Host /\ a.peers # <<>>
  /\ a.pc \in {"open", "show"} => a.list = a.peers
  /\ a.pc \in {"lock", "unlock"} => a.list = Locked(a)
  /\ a.pc \in {"min", "max", "sync", "syncing"} => a.list = SyncList(a)
  /\ a.pc = "update" => a.list = NewPeers(a)
  /\ a.pc \in {"copy", "copying", "put"} => a.list = a.peers /\ a.op = "add"
  /\ a.pc \notin {"idle", "kill", "update", "done"} => a.i \in 1 .. Len(a.list)
  /\ a.pc \in {"sync", "syncing", "copy", "copying", "put"} => a.s \in SlotNum

(* Whoever is locked is still to be unlocked, or was not reached.          *)
LockOK(a, locked) ==
  \A p \in Host : locked[p] =>
    \/ p \in a.unreached
    \/ /\ a.pc \in {"lock", "min", "max", "sync", "syncing", "update", "copy", "copying", "put"}
       /\ p \in Range(Locked(a))
    \/ a.pc = "unlock" /\ \E j \in a.i .. Len(a.list) : a.list[j] = p

Succeeding(a) == a.pc \in {"unlock", "done"} /\ ~a.err

Copying(a) == a.pc \in {"copy", "copying", "put"}

(* q has the new list, or was not reached.                                 *)
HasList(a, prs, index, q) ==
  q \in a.missed \/ (prs[q] = NewPeers(a) /\ NewPeers(a)[index[q]] = q)

UpdateOK(a, prs, index) ==
  /\ a.pc = "update" => \A j \in 1 .. Len(a.list) : j < a.i => HasList(a, prs, index, a.list[j])
  /\ Copying(a) \/ Succeeding(a) => \A q \in Range(NewPeers(a)) : HasList(a, prs, index, q)

(* The slots that are known to be decided, of those AddPeer syncs and of   *)
(* the new peer.                                                           *)
SyncOK(a, slots) ==
  LET Has(j, s) == slots[a.peers[j]][s].isDecided
  IN  a.op = "add" =>
        /\ a.pc \in {"min", "max"} /\ ~a.err =>
             \A j \in 1 .. Len(a.peers), s \in SlotNum :
               (j < a.i \/ (j = a.i /\ a.pc = "max")) /\ s < a.min => Has(j, s)
        /\ a.pc \in {"sync", "syncing"} /\ ~a.err =>
             \A j \in 1 .. Len(a.peers), s \in SlotNum :
               s < a.s \/ (s = a.s /\ j < a.i) => Has(j, s)
        /\ a.pc = "update" \/ Copying(a) \/ Succeeding(a) =>
             \A j \in 1 .. Len(a.peers), s \in SlotNum : s <= a.max => Has(j, s)

CopyOK(a, slots) ==
  /\ Copying(a) => \A s \in SlotNum : s < a.s => slots[a.x][s].isDecided
  /\ a.op = "add" /\ Succeeding(a) => \A s \in SlotNum : s <= a.max => slots[a.x][s].isDecided

(* The round SyncPaxosValue waits for is one of the slot it was asked for. *)
WaitOK(a, slots, rounds) ==
  a.pc \in {"syncing", "copying"} =>
    LET q == a.list[a.i]
        r == rounds[<<q, "SyncPaxosValue">>]
    IN  IF r.pc = "idle" THEN slots[q][a.s].isDecided ELSE r.s = a.s

AdminOK(a, locked, prs, index, slots, rounds) ==
  /\ ListOK(a) /\ LockOK(a, locked) /\ UpdateOK(a, prs, index)
  /\ SyncOK(a, slots) /\ CopyOK(a, slots) /\ WaitOK(a, slots, rounds)

(* minUndecidedSlot is a lower bound.                                      *)
MinOK(slots, min) ==
  \A p \in Host, s \in SlotNum : s < min[p] => slots[p][s].isDecided

AdminInv ==
  AdminTypeOK /\ AdminOK(admin, isLocked, peers, me, slot, round) /\ MinOK(slot, minUndecidedSlot)
=============================================================================
