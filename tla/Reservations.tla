---------------------------- MODULE Reservations ----------------------------
(**************************************************************************)
(* Bookings of a branch: app/api/reservations.py.                          *)
(*                                                                         *)
(* A request is cut where Floor cuts it, between what it reads and its     *)
(* commit.  Nothing here is locked: neither the table and the bookings a   *)
(* new booking is checked against, nor the booking whose status is moved.  *)
(* A party too large for the table and a table of another branch are       *)
(* refused with no effect, so such requests are not steps.                 *)
(**************************************************************************)
EXTENDS StateMachines, Integers

CONSTANTS
  Bookings,    \* identities of reservations
  Spots,       \* the dining tables a booking may ask for
  Null,        \* no booking, no status, and the table_id of a booking without a table
  Times,       \* the moments a booking may start at
  Duration,    \* settings.reservation_duration_minutes, in the unit of Times
  Desks        \* requests that may be in flight at the same time

ASSUME NullAssumption == Null \notin Bookings \cup Spots
ASSUME TimesAssumption == Times \subseteq Int
ASSUME DurationAssumption == Duration \in Nat \ {0}

VARIABLES
  bookingStatus,  \* reservations.status, "absent" before the row exists
  bookingSpot,    \* reservations.table_id
  startAt,        \* reservations.start_at
  desk            \* the request each desk has in flight

bookingVars == <<bookingStatus, bookingSpot, startAt>>
reservationVars == <<bookingVars, desk>>

Asked(step, b, t, x, target) ==
  [at |-> step, booking |-> b, spot |-> t, start |-> x, target |-> target]

NoDesk == Asked("idle", Null, Null, 0, Null)

DeskRequest ==
  {r \in [at: {"idle", "booking", "moving"}, booking: Bookings \cup {Null},
          spot: Spots \cup {Null}, start: Int, target: ReservationStatus \cup {Null}] :
     /\ r.at # "idle" => r.booking \in Bookings
     /\ r.at = "moving" => r.target \in ReservationStatus}

ReservationInit ==
  /\ bookingStatus = [b \in Bookings |-> "absent"]
  /\ bookingSpot = [b \in Bookings |-> Null]
  /\ startAt = [b \in Bookings |-> 0]   \* of no consequence before the row exists
  /\ desk = [d \in Desks |-> NoDesk]

-----------------------------------------------------------------------------
(* start_at < start + duration and start_at > start - duration.            *)
Overlap(x, y) == x < y + Duration /\ x > y - Duration

Holds(b, t) ==
  bookingSpot[b] = t /\ bookingStatus[b] \in {"requested", "confirmed", "seated"}

Conflicts(t, x) == {b \in Bookings : Holds(b, t) /\ Overlap(startAt[b], x)}

InHand(b) == \E d \in Desks : desk[d].at # "idle" /\ desk[d].booking = b

Take(d, r) == desk[d] = NoDesk /\ desk' = [desk EXCEPT ![d] = r]
Leave(d) == desk' = [desk EXCEPT ![d] = NoDesk]

(* Mutant: the overlap is not looked for. *)
BookUnchecked(d, b, t, x) ==
  /\ bookingStatus[b] = "absent"
  /\ ~InHand(b)
  /\ Take(d, Asked("booking", b, t, x, Null))
  /\ UNCHANGED bookingVars

(* POST /reservations: a table is asked for only when no booking that      *)
(* still holds it overlaps; a booking without a table is not checked ...   *)
BookBegin(d, b, t, x) ==
  /\ bookingStatus[b] = "absent"
  /\ ~InHand(b)
  /\ t # Null => Conflicts(t, x) = {}
  /\ Take(d, Asked("booking", b, t, x, Null))
  /\ UNCHANGED bookingVars

(* Mutant: the booking is inserted with its own id for a table_id. *)
BookMislinked(d) ==
  /\ desk[d].at = "booking"
  /\ bookingStatus' = [bookingStatus EXCEPT ![desk[d].booking] = "requested"]
  /\ bookingSpot' = [bookingSpot EXCEPT ![desk[d].booking] = desk[d].booking]
  /\ startAt' = [startAt EXCEPT ![desk[d].booking] = desk[d].start]
  /\ Leave(d)

(* ... then the booking is inserted as requested.                          *)
BookCommit(d) ==
  /\ desk[d].at = "booking"
  /\ bookingStatus' = [bookingStatus EXCEPT ![desk[d].booking] = "requested"]
  /\ bookingSpot' = [bookingSpot EXCEPT ![desk[d].booking] = desk[d].spot]
  /\ startAt' = [startAt EXCEPT ![desk[d].booking] = desk[d].start]
  /\ Leave(d)

(* Mutant: apply_transition is not called. *)
MoveUnchecked(d, b, target) ==
  /\ bookingStatus[b] # "absent"
  /\ Take(d, Asked("moving", b, Null, 0, target))
  /\ UNCHANGED bookingVars

(* PATCH /reservations/{id}/status: db.get, apply_transition ...           *)
MoveBegin(d, b, target) ==
  /\ CanTransition(ReservationEdges, bookingStatus[b], target)
  /\ Take(d, Asked("moving", b, Null, 0, target))
  /\ UNCHANGED bookingVars

(* ... and UPDATE ... SET status, whatever the row says by now.            *)
MoveCommit(d) ==
  /\ desk[d].at = "moving"
  /\ bookingStatus' = [bookingStatus EXCEPT ![desk[d].booking] = desk[d].target]
  /\ Leave(d)
  /\ UNCHANGED <<bookingSpot, startAt>>

(* The process dies or the database fails: rollback.                       *)
GiveUp(d) ==
  /\ desk[d] # NoDesk
  /\ Leave(d)
  /\ UNCHANGED bookingVars

ReservationNext ==
  \E d \in Desks :
    \/ \E b \in Bookings, t \in Spots \cup {Null}, x \in Times : BookBegin(d, b, t, x)
    \/ \E b \in Bookings, target \in ReservationStatus : MoveBegin(d, b, target)
    \/ BookCommit(d)
    \/ MoveCommit(d)
    \/ GiveUp(d)

ReservationSpec == ReservationInit /\ [][ReservationNext]_reservationVars

-----------------------------------------------------------------------------
ReservationTypeOK ==
  /\ bookingStatus \in [Bookings -> ReservationStatus \cup {"absent"}]
  /\ bookingSpot \in [Bookings -> Spots \cup {Null}]
  /\ startAt \in [Bookings -> Int]
  /\ desk \in [Desks -> DeskRequest]

(* The discipline the code leaves to its users: no two requests book the   *)
(* same table at once, and no two move the same booking at once.  A move   *)
(* may overlap a booking request.                                          *)
OneDeskAtATime ==
  \A d, e \in Desks :
    d # e =>
      /\ desk[d].at = "booking" /\ desk[e].at = "booking" =>
           desk[d].spot # desk[e].spot \/ desk[d].spot = Null
      /\ desk[d].at = "moving" /\ desk[e].at = "moving" =>
           desk[d].booking # desk[e].booking

OrderlySpec == ReservationInit /\ [][ReservationNext /\ OneDeskAtATime']_reservationVars

(* No table is promised to two parties at once: of two bookings that hold  *)
(* it, one starts at least Duration after the other.                       *)
NoDoubleBooking ==
  \A a, b \in Bookings, t \in Spots :
    a # b /\ Holds(a, t) /\ Holds(b, t) => ~Overlap(startAt[a], startAt[b])

(* A booking moves only along its lifecycle; in particular one that let    *)
(* its table go (no_show, cancelled, completed) never claims it again.     *)
BookingMoves ==
  \A b \in Bookings :
    bookingStatus'[b] # bookingStatus[b] =>
      \/ bookingStatus[b] = "absent" /\ bookingStatus'[b] = "requested"
      \/ CanTransition(ReservationEdges, bookingStatus[b], bookingStatus'[b])

BookingMovesAreLegal == [][BookingMoves]_reservationVars

(* What a request in flight has read is still so when it commits.          *)
PromisesStand ==
  \A d \in Desks :
    /\ desk[d].at = "booking" =>
         /\ bookingStatus[desk[d].booking] = "absent"
         /\ desk[d].spot # Null => Conflicts(desk[d].spot, desk[d].start) = {}
         /\ \A e \in Desks \ {d} :
              desk[e].at # "idle" => desk[e].booking # desk[d].booking
    /\ desk[d].at = "moving" =>
         CanTransition(ReservationEdges, bookingStatus[desk[d].booking], desk[d].target)
=============================================================================
