--------------------------- MODULE MCFlightServer ---------------------------
(* Small instances of FlightServer: the requests of each run.              *)
EXTENDS FlightServer, TLC

CONSTANTS u1, u2, f1

Op(type, user, tickets) ==
  [type |-> type, user |-> user, flight |-> f1, tickets |-> tickets]

(* The servers are interchangeable.                                        *)
Servers == Permutations(Server)

(* Two clients after the only seat of a flight that may be canceled.       *)
LastSeat ==
  <<Op("AddFlight", None, 1), Op("ReserveTicket", u1, 0),
    Op("ReserveTicket", u2, 0), Op("CancelFlight", None, 0)>>
=============================================================================
