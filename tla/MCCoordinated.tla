--------------------------- MODULE MCCoordinated ---------------------------
(* A small restaurant for TLC whose staff keep to the three disciplines    *)
(* the code leaves to them: OneWriter, QuietClose and OneDeskAtATime.      *)
EXTENDS Visit, Reservations, TLC

CONSTANTS burger, t1

MCItems == {burger}
MCLineTotal == burger :> 20
MCAmounts == {200}

(* Bookings two units long may start at three moments: the same one, half  *)
(* way into each other, and back to back.                                  *)
MCTimes == 0..2

Symmetry ==
  Permutations(Sessions) \cup Permutations(Clients) \cup Permutations(Bookings)
    \cup Permutations(Desks)

-----------------------------------------------------------------------------
(* Bound: tickets are written while there is one table, one visit, no      *)
(* guest, and one request at a time on the floor.                          *)
NoTickets ==
  /\ \A o \in Orders : orderStatus[o] = "absent"
  /\ \A c \in Callers : call[c] = NoCall

OneTableInUse ==
  /\ \A t \in Tables \ {t1} : tableStatus[t] = "absent"
  /\ Cardinality({s \in Sessions : Exists(s) \/ \E c \in Clients : req[c].session = s}) <= 1
  /\ \A g \in Guests : NewGuest(g)
  /\ Cardinality({c \in Clients : req[c] # Idle}) <= 1

FloorAndTickets == VisitNext /\ QuietClose' /\ (NoTickets \/ OneTableInUse)'

Book == ReservationNext /\ OneDeskAtATime'

(* The book of reservations shares no row with the floor and its tickets:  *)
(* their steps commute, so each moves while the other rests.               *)
StaffInit == VisitInit /\ ReservationInit

StaffNext ==
  \/ ReservationInit /\ FloorAndTickets /\ UNCHANGED reservationVars
  \/ VisitInit /\ Book /\ UNCHANGED visitVars

StaffSpec == StaffInit /\ [][StaffNext]_<<visitVars, reservationVars>>
=============================================================================
