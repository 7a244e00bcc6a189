---------------------------- MODULE FlightServer ----------------------------
(***************************************************************************)
(* The airline servers of the flight reservation system                    *)
(* (p3, flight_reservation/server/server_impl.go): a replicated state      *)
(* machine on top of the Paxos log.  Each server handles one request at a  *)
(* time (srv.mutex): it replays the slots it has not seen, proposes the    *)
(* request for the first slot that is not decided, and goes on until the   *)
(* request itself is what was decided.                                     *)
(*                                                                         *)
(* The log is what module SlotConsensus promises of every slot: one value, *)
(* among those proposed for it, forever.  A server that restarts has lost  *)
(* everything but can read the log again.                                  *)
(***************************************************************************)
EXTENDS Integers, Sequences, FiniteSets

CONSTANTS Server,
          Request,     \* Request[r]: the PaxosValue of request r, whose Timestamp is r
          User, Flight,
          None,
          SameDecoded, \* a PaxosValue decoded from an RPC equals (==) the original
          MaxSlot,     \* bound: the slots are 0 .. MaxSlot
          MaxRestarts  \* bound: how often servers restart

ASSUME FlightAssumption ==
  /\ None \notin DOMAIN Request /\ SameDecoded \in BOOLEAN
  /\ MaxSlot \in Nat /\ MaxRestarts \in Nat

(* A reservation names a user; TicketNum is an int, of either sign.        *)
ASSUME RequestAssumption ==
  \A r \in DOMAIN Request :
    /\ Request[r].flight \in Flight /\ Request[r].tickets \in Int
    /\ Request[r].type = "ReserveTicket" => Request[r].user \in User

VARIABLES
  log,          \* log[n]: the value decided for slot n, or None
  proposed,     \* proposed[s]: the request s has put forward for its current slot
  proposals,    \* all <<slot, request>> put forward
  currSlotNum, reservedFlights, flightStatus,   \* of each server
  busy,         \* the request whose handler holds srv.mutex, or None
  outcome,      \* what the client knows of each request
  before,       \* before[r]: the requests answered when r was sent
  restarts

replicaVars == <<currSlotNum, reservedFlights, flightStatus>>
flightVars == <<log, proposed, proposals, replicaVars, busy, outcome, before, restarts>>

Req == DOMAIN Request
Slot == 0 .. MaxSlot

NoFlights == [f \in {} |-> 0]
NoReservations == [u \in User |-> <<>>]

FlightInit ==
  /\ log = [n \in Slot |-> None] /\ proposals = {}
  /\ proposed = [s \in Server |-> None]
  /\ currSlotNum = [s \in Server |-> 0]
  /\ reservedFlights = [s \in Server |-> NoReservations]
  /\ flightStatus = [s \in Server |-> NoFlights]
  /\ busy = [s \in Server |-> None]
  /\ outcome = [r \in Req |-> "new"]
  /\ before = [r \in Req |-> {}]
  /\ restarts = 0

Answered == {r \in Req : outcome[r] \in {"ok", "reject"}}

-----------------------------------------------------------------------------
(* The helpers that execute an operation: flights and reservations before, *)
(* and a record of those after with the result.                            *)

Done(flights, reservations, result) ==
  [flights |-> flights, reservations |-> reservations, result |-> result]

Available(flights, f) == f \in DOMAIN flights /\ flights[f] > 0

(* Variant: the number of tickets is not decreased.                        *)
ReservedFree(flights, f) == flights

Reserved(flights, f) == [flights EXCEPT ![f] = @ - 1]

reserveTicketHelper(op, flights, reservations) ==
  IF Available(flights, op.flight)
  THEN Done(Reserved(flights, op.flight),
            [reservations EXCEPT ![op.user] = Append(@, op.flight)], "ok")
  ELSE Done(flights, reservations, "reject")

addFlightHelper(op, flights, reservations) ==
  IF op.flight \notin DOMAIN flights
  THEN Done([f \in DOMAIN flights \cup {op.flight} |->
               IF f = op.flight THEN op.tickets ELSE flights[f]], reservations, "ok")
  ELSE Done(flights, reservations, "reject")

cancelFlightHelper(op, flights, reservations) ==
  IF op.flight \in DOMAIN flights
  THEN Done([f \in DOMAIN flights \ {op.flight} |-> flights[f]], reservations, "ok")
  ELSE Done(flights, reservations, "reject")

editFlightHelper(op, flights, reservations) ==
  IF op.flight \in DOMAIN flights
  THEN Done([flights EXCEPT ![op.flight] = op.tickets], reservations, "ok")
  ELSE Done(flights, reservations, "reject")

(* MyReservation and CheckTickets only read.                               *)
Execute(op, flights, reservations) ==
  CASE op.type = "ReserveTicket" -> reserveTicketHelper(op, flights, reservations)
    [] op.type = "AddFlight" -> addFlightHelper(op, flights, reservations)
    [] op.type = "CancelFlight" -> cancelFlightHelper(op, flights, reservations)
    [] op.type = "EditFlight" -> editFlightHelper(op, flights, reservations)
    [] OTHER -> Done(flights, reservations, "ok")

(* Variant: canceled flights are not looked for.                           *)
MyReservationAll(s, u) == reservedFlights[s][u]

(* What myReservationHelper returns: the user's flights that exist, each   *)
(* at its place among the user's reservations.                             *)
MyReservation(s, u) ==
  LET flights == reservedFlights[s][u]
  IN  [i \in {j \in DOMAIN flights : flights[j] \in DOMAIN flightStatus[s]} |-> flights[i]]

-----------------------------------------------------------------------------
(* addPaxosLogAndUpdateState.                                              *)

Begin(s, r) ==
  /\ busy[s] = None /\ outcome[r] = "new"
  /\ busy' = [busy EXCEPT ![s] = r]
  /\ outcome' = [outcome EXCEPT ![r] = "pending"]
  /\ before' = [before EXCEPT ![r] = Answered]
  /\ UNCHANGED <<log, proposed, proposals, replicaVars, restarts>>

(* What Status returns of a slot.                                          *)
Decided(slot) == slot \in Slot /\ log[slot] # None

(* Start: the request is put forward for the current slot.                 *)
Start(s) ==
  /\ busy[s] # None /\ currSlotNum[s] \in Slot
  /\ ~ Decided(currSlotNum[s]) /\ proposed[s] = None
  /\ proposed' = [proposed EXCEPT ![s] = busy[s]]
  /\ proposals' = proposals \cup {<<currSlotNum[s], busy[s]>>}
  /\ UNCHANGED <<log, replicaVars, busy, outcome, before, restarts>>

(* Variant: the lock is also looked at while Start is running.             *)
NotStartedAny(s) == TRUE

NotStarted(s) == proposed[s] = None

(* Status, or Start, finds that the Paxos admin has locked the peers.      *)
Refuse(s) ==
  /\ busy[s] # None /\ NotStarted(s)
  /\ outcome' = [outcome EXCEPT ![busy[s]] = "refused"]
  /\ busy' = [busy EXCEPT ![s] = None]
  /\ UNCHANGED <<log, proposed, proposals, replicaVars, before, restarts>>

(* The Status after Start finds the peers locked meanwhile.                *)
LockedAfterStart(s) ==
  /\ busy[s] # None /\ proposed[s] # None /\ Decided(currSlotNum[s])
  /\ outcome' = [outcome EXCEPT ![busy[s]] = "failed"]
  /\ busy' = [busy EXCEPT ![s] = None]
  /\ proposed' = [proposed EXCEPT ![s] = None]
  /\ UNCHANGED <<log, proposals, replicaVars, before, restarts>>

(* Paxos decides a slot, for any value put forward for it.                 *)
Choose(slot, r) ==
  /\ log[slot] = None /\ <<slot, r>> \in proposals
  /\ log' = [log EXCEPT ![slot] = r]
  /\ UNCHANGED <<proposed, proposals, replicaVars, busy, outcome, before, restarts>>

(* The server's own request came back from the log through another server, *)
(* which had a proposal for the slot and adopted this one, as a decoded    *)
(* copy that is not == to the original.                                    *)
Copied(s) ==
  /\ ~ SameDecoded
  /\ \E p \in proposals : p[1] = currSlotNum[s] /\ p[2] # busy[s]

(* Variant: operations of other servers are skipped.                       *)
ExecutedOwn(s, r) ==
  IF r = busy[s]
  THEN Execute(Request[r], flightStatus[s], reservedFlights[s])
  ELSE Done(flightStatus[s], reservedFlights[s], "ok")

Executed(s, r) == Execute(Request[r], flightStatus[s], reservedFlights[s])

(* Variant: the slot is advanced once more on return.                      *)
NextSlotTwice(s, r) == currSlotNum[s] + (IF r = busy[s] THEN 2 ELSE 1)

NextSlot(s, r) == currSlotNum[s] + 1

(* The decided slot is executed.  If it holds the request (==), its result *)
(* is the answer.                                                          *)
Apply(s) ==
  LET r == log[currSlotNum[s]]
      e == Executed(s, r)
  IN  /\ busy[s] # None /\ Decided(currSlotNum[s])
      /\ currSlotNum' = [currSlotNum EXCEPT ![s] = NextSlot(s, r)]
      /\ flightStatus' = [flightStatus EXCEPT ![s] = e.flights]
      /\ reservedFlights' = [reservedFlights EXCEPT ![s] = e.reservations]
      /\ proposed' = [proposed EXCEPT ![s] = None]
      /\ \/ /\ r = busy[s]
            /\ busy' = [busy EXCEPT ![s] = None]
            /\ outcome' = [outcome EXCEPT ![r] = e.result]
         \/ /\ r # busy[s] \/ Copied(s)
            /\ UNCHANGED <<busy, outcome>>
      /\ UNCHANGED <<log, proposals, before, restarts>>

(* The process dies, the client gets no answer, and NewServer starts over. *)
Restart(s) ==
  /\ restarts < MaxRestarts
  /\ restarts' = restarts + 1
  /\ currSlotNum' = [currSlotNum EXCEPT ![s] = 0]
  /\ reservedFlights' = [reservedFlights EXCEPT ![s] = NoReservations]
  /\ flightStatus' = [flightStatus EXCEPT ![s] = NoFlights]
  /\ proposed' = [proposed EXCEPT ![s] = None]
  /\ outcome' = [r \in Req |-> IF r = busy[s] THEN "unknown" ELSE outcome[r]]
  /\ busy' = [busy EXCEPT ![s] = None]
  /\ UNCHANGED <<log, proposals, before>>

FlightNext ==
  \/ \E s \in Server :
       \/ Start(s) \/ Refuse(s) \/ LockedAfterStart(s) \/ Apply(s) \/ Restart(s)
       \/ \E r \in Req : Begin(s, r)
  \/ \E n \in Slot, r \in Req : Choose(n, r)

FlightSpec == FlightInit /\ [][FlightNext]_flightVars

-----------------------------------------------------------------------------

ControlOK ==
  /\ log \in [Slot -> Req \cup {None}]
  /\ proposals \subseteq Slot \X Req
  /\ proposed \in [Server -> Req \cup {None}]
  /\ currSlotNum \in [Server -> 0 .. MaxSlot + 1]
  /\ busy \in [Server -> Req \cup {None}]
  /\ outcome \in [Req -> {"new", "pending", "ok", "reject", "refused", "failed", "unknown"}]
  /\ before \in [Req -> SUBSET Req]
  /\ restarts \in Nat

(* Servers that have executed the same slots hold the same flights and     *)
(* reservations, whatever they were asked and however often they restart.  *)
ReplicasAgree ==
  \A s, t \in Server : currSlotNum[s] = currSlotNum[t] =>
    /\ flightStatus[s] = flightStatus[t]
    /\ reservedFlights[s] = reservedFlights[t]

(* A request gets into the log once, so no ticket is reserved twice by one *)
(* call, although a server puts it forward for slot after slot.            *)
ExecutedOnce ==
  \A m, n \in Slot : log[m] # None /\ log[m] = log[n] => m = n

(* The log respects real time: a request sent after another was answered,  *)
(* by any server, comes after it.  A server far behind cannot slip a       *)
(* request into the past.                                                  *)
RealTimeOrder ==
  \A m, n \in Slot :
    log[m] # None /\ log[n] # None /\ log[m] \in before[log[n]] => m < n

(* A request refused because the peers were locked "should not have been   *)
(* executed", as the comment in addPaxosLogAndUpdateState says, and never  *)
(* is, whatever slots it was put forward for; one that was answered is in  *)
(* the log.                                                                *)
RefusedNeverExecuted ==
  /\ \A n \in Slot : log[n] # None => outcome[log[n]] # "refused"
  /\ \A r \in Answered : \E n \in Slot : log[n] = r

-----------------------------------------------------------------------------
(* The inductive invariant behind the three properties above.              *)

(* The log has no holes: the slots below a server's, below a proposal and  *)
(* below a decided slot are decided.                                       *)
NoHoles ==
  /\ \A s \in Server, n \in Slot : n < currSlotNum[s] => log[n] # None
  /\ \A p \in proposals, n \in Slot : n < p[1] => log[n] # None
  /\ \A n \in Slot : log[n] # None => <<n, log[n]>> \in proposals

(* The request a server is busy with, and the slots it was put forward for.*)
InHand ==
  /\ \A s \in Server :
       /\ busy[s] # None => outcome[busy[s]] = "pending"
       /\ proposed[s] # None => proposed[s] = busy[s]
       /\ \A t \in Server : busy[s] # None /\ busy[s] = busy[t] => s = t
  /\ \A s \in Server, p \in proposals : p[2] = busy[s] =>
       /\ p[1] <= currSlotNum[s]
       /\ p[1] = currSlotNum[s] => proposed[s] # None
       /\ p[1] < currSlotNum[s] => log[p[1]] # busy[s]

(* A request moves on to another slot, or is refused, only after the slots *)
(* it was put forward for were decided for others.                         *)
LostBefore ==
  \A p \in proposals :
    /\ outcome[p[2]] # "new"
    /\ outcome[p[2]] = "refused" => log[p[1]] # p[2] /\ log[p[1]] # None
    /\ \A q \in proposals : p[2] = q[2] /\ p[1] < q[1] => log[p[1]] # p[2]

(* What was answered is in the log, and answers stay.                      *)
AnsweredInLog ==
  /\ \A r \in Answered : \E n \in Slot : log[n] = r
  /\ \A r \in Req : before[r] \subseteq Answered

FlightInv == ControlOK /\ NoHoles /\ InHand /\ LostBefore /\ AnsweredInLog /\ RealTimeOrder

-----------------------------------------------------------------------------

(* The reservations of flight f: whose, and where among that user's.       *)
Seats(reservations, f) ==
  UNION {{<<u, i>> : i \in {j \in DOMAIN reservations[u] : reservations[u][j] = f}} : u \in User}

SeatsSold(s, f) == Cardinality(Seats(reservedFlights[s], f))

(* The slots server s has executed, and what they hold.                    *)
Passed(s) == 0 .. currSlotNum[s] - 1

History(s) == {Request[log[n]] : n \in Passed(s)}

(* Seats are neither lost nor sold twice: as long as a flight is neither   *)
(* edited nor canceled, what is left and what is reserved add up to what   *)
(* was offered, and it is not overbooked.                                  *)
SeatsAddUp ==
  \A s \in Server : \A f \in DOMAIN flightStatus[s] :
    (\A op \in History(s) : op.flight = f => op.type \notin {"EditFlight", "CancelFlight"}) =>
      \E op \in History(s) :
        /\ op.type = "AddFlight" /\ op.flight = f
        /\ flightStatus[s][f] + SeatsSold(s, f) = op.tickets
        /\ op.tickets >= 0 => flightStatus[s][f] >= 0

Does(n, type, f) == Request[log[n]].type = type /\ Request[log[n]].flight = f

(* User u has reserved flight f, and if it was canceled since then it was  *)
(* added again.                                                            *)
StillReserved(s, u, f) ==
  LET last == currSlotNum[s] - 1
  IN  \E k \in 0 .. last :
        /\ Does(k, "ReserveTicket", f) /\ Request[log[k]].user = u
        /\ \A n \in k + 1 .. last :
             Does(n, "CancelFlight", f) => \E j \in n + 1 .. last : Does(j, "AddFlight", f)

(* A check in myReservationHelper is there "to ensure no canceled flights  *)
(* will be returned": MyReservation returns only flights the user has      *)
(* reserved and that were not canceled since, unless the flight was then   *)
(* added again.                                                            *)
CanceledNotReturned ==
  \A s \in Server, u \in User : \A i \in DOMAIN MyReservation(s, u) :
    StillReserved(s, u, MyReservation(s, u)[i])
=============================================================================
