------------------------- MODULE ReservationProofs -------------------------
(**************************************************************************)
(* As long as no two requests book the same table or move the same booking *)
(* at once, no table is double-booked, for any number of bookings, tables, *)
(* requests and moments and any duration.                                  *)
(*                                                                         *)
(* NoDoubleBooking is not inductive by itself: a booking inserted now was  *)
(* checked earlier.  PromisesStand says that what the check saw still      *)
(* holds; the moves that overlap it cannot break it, because a legal move  *)
(* never takes a booking from letting its table go back to holding it.     *)
(**************************************************************************)
EXTENDS Reservations, TLAPS

OrderlyInv == ReservationTypeOK /\ PromisesStand /\ OneDeskAtATime /\ NoDoubleBooking

(* The requests the actions start with are requests. *)
LEMMA RequestTypes ==
  /\ NoDesk \in DeskRequest
  /\ \A b \in Bookings, t \in Spots \cup {Null}, x \in Int :
       Asked("booking", b, t, x, Null) \in DeskRequest
  /\ \A b \in Bookings, target \in ReservationStatus :
       Asked("moving", b, Null, 0, target) \in DeskRequest
  BY DEF NoDesk, Asked, DeskRequest

(* What a request in flight is, taken apart. *)
LEMMA DeskFacts ==
  ASSUME ReservationTypeOK, NEW d \in Desks
  PROVE  /\ desk[d].at \in {"idle", "booking", "moving"}
         /\ desk[d].at # "idle" => desk[d].booking \in Bookings
         /\ desk[d].spot \in Spots \cup {Null}
         /\ desk[d].start \in Int
         /\ desk[d].at = "moving" => desk[d].target \in ReservationStatus
<1>1. desk[d] \in DeskRequest
  BY DEF ReservationTypeOK
<1> QED BY <1>1 DEF DeskRequest

(* The initial state has the types of ReservationTypeOK. *)
LEMMA InitReservationType == ReservationInit => ReservationTypeOK
<1> SUFFICES ASSUME ReservationInit
             PROVE  ReservationTypeOK
  OBVIOUS
<1>1. bookingStatus \in [Bookings -> ReservationStatus \cup {"absent"}]
  BY DEF ReservationInit
<1>2. bookingSpot \in [Bookings -> Spots \cup {Null}]
  BY DEF ReservationInit
<1>3. startAt \in [Bookings -> Int]
  BY DEF ReservationInit
<1>4. desk \in [Desks -> DeskRequest]
  BY RequestTypes DEF ReservationInit
<1> QED BY <1>1, <1>2, <1>3, <1>4 DEF ReservationTypeOK

(* Every step keeps the types, however many requests overlap. *)
LEMMA NextReservationType ==
  ReservationTypeOK /\ [ReservationNext]_reservationVars => ReservationTypeOK'
<1> SUFFICES ASSUME ReservationTypeOK, [ReservationNext]_reservationVars
             PROVE  ReservationTypeOK'
  OBVIOUS
<1>1. CASE UNCHANGED reservationVars
  BY <1>1 DEF ReservationTypeOK, reservationVars, bookingVars
<1>2. CASE ReservationNext
  <2>0. PICK d \in Desks :
          \/ \E b \in Bookings, t \in Spots \cup {Null}, x \in Times : BookBegin(d, b, t, x)
          \/ \E b \in Bookings, target \in ReservationStatus : MoveBegin(d, b, target)
          \/ BookCommit(d)
          \/ MoveCommit(d)
          \/ GiveUp(d)
    BY <1>2 DEF ReservationNext
  <2>1. ASSUME NEW b \in Bookings, NEW t \in Spots \cup {Null}, NEW x \in Times,
               BookBegin(d, b, t, x)
        PROVE  ReservationTypeOK'
    <3>1. x \in Int
      BY TimesAssumption
    <3>2. Asked("booking", b, t, x, Null) \in DeskRequest
      BY <3>1, RequestTypes
    <3> QED BY <2>1, <3>2 DEF ReservationTypeOK, BookBegin, Take, bookingVars
  <2>2. ASSUME NEW b \in Bookings, NEW target \in ReservationStatus, MoveBegin(d, b, target)
        PROVE  ReservationTypeOK'
    <3>1. Asked("moving", b, Null, 0, target) \in DeskRequest
      BY RequestTypes
    <3> QED BY <2>2, <3>1 DEF ReservationTypeOK, MoveBegin, Take, bookingVars
  <2>3. CASE BookCommit(d)
    <3>1. "requested" \in ReservationStatus
      BY DEF ReservationStatus
    <3> QED BY <2>3, <3>1, RequestTypes, DeskFacts DEF ReservationTypeOK, BookCommit, Leave
  <2>4. CASE MoveCommit(d)
    BY <2>4, RequestTypes, DeskFacts DEF ReservationTypeOK, MoveCommit, Leave
  <2>5. CASE GiveUp(d)
    BY <2>5, RequestTypes DEF ReservationTypeOK, GiveUp, Leave, bookingVars
  <2> QED BY <2>0, <2>1, <2>2, <2>3, <2>4, <2>5
<1> QED BY <1>1, <1>2

(* A legal move never makes a booking hold its table that did not before.  *)
LEMMA HoldingIsNeverRegained ==
  ASSUME NEW current, NEW target, CanTransition(ReservationEdges, current, target),
         target \in {"requested", "confirmed", "seated"}
  PROVE  current \in {"requested", "confirmed", "seated"}
  BY DEF CanTransition, ReservationEdges

(* Two moments overlap the same way from either side. *)
LEMMA OverlapIsMutual ==
  ASSUME NEW x \in Int, NEW y \in Int
  PROVE  Overlap(x, y) <=> Overlap(y, x)
  BY DurationAssumption DEF Overlap

(* Nothing is booked or asked for at the start. *)
LEMMA InitOrderly == ReservationInit => OrderlyInv
  BY InitReservationType, NullAssumption DEF OrderlyInv, ReservationInit, NoDesk, Asked,
     PromisesStand, OneDeskAtATime, NoDoubleBooking, Holds

(* The bookings at stake do not change while a request only reads: what    *)
(* was promised and what is held stays.                                    *)
LEMMA ReadingKeepsBookings ==
  ASSUME UNCHANGED bookingVars
  PROVE  /\ \A b \in Bookings, t \in Spots : Holds(b, t)' <=> Holds(b, t)
         /\ \A t, x : Conflicts(t, x)' = Conflicts(t, x)
         /\ NoDoubleBooking => NoDoubleBooking'
  BY DEF bookingVars, Holds, Conflicts, NoDoubleBooking

(* A booking request begins: it has just seen its table free. *)
LEMMA BookBeginOrderly ==
  ASSUME OrderlyInv, NEW d \in Desks, NEW b \in Bookings, NEW t \in Spots \cup {Null},
         NEW x \in Times, BookBegin(d, b, t, x)
  PROVE  PromisesStand' /\ NoDoubleBooking'
<1>1. UNCHANGED bookingVars /\ desk' = [desk EXCEPT ![d] = Asked("booking", b, t, x, Null)]
  BY DEF BookBegin, Take
<1>2. NoDoubleBooking'
  BY <1>1, ReadingKeepsBookings DEF OrderlyInv
<1>3. desk \in [Desks -> DeskRequest]
  BY DEF OrderlyInv, ReservationTypeOK
<1>4. \A e \in Desks : desk[e].at # "idle" => desk[e].booking # b
  BY DEF BookBegin, InHand
<1>5. bookingStatus' = bookingStatus
  BY <1>1 DEF bookingVars
<1>6. /\ desk'[d] = Asked("booking", b, t, x, Null)
      /\ \A e \in Desks \ {d} : desk'[e] = desk[e]
  BY <1>1, <1>3
<1>7. bookingStatus[b] = "absent" /\ (t # Null => Conflicts(t, x) = {})
  BY DEF BookBegin
<1>8. \A s, y : Conflicts(s, y)' = Conflicts(s, y)
  BY <1>1, ReadingKeepsBookings
<1>9. PromisesStand'
  BY <1>4, <1>5, <1>6, <1>7, <1>8 DEF OrderlyInv, PromisesStand, Asked
<1> QED BY <1>2, <1>9

(* A status request begins: its booking exists, so no booking request in   *)
(* flight is about to insert it.                                           *)
LEMMA MoveBeginOrderly ==
  ASSUME OrderlyInv, NEW d \in Desks, NEW b \in Bookings, NEW target \in ReservationStatus,
         MoveBegin(d, b, target)
  PROVE  PromisesStand' /\ NoDoubleBooking'
<1>1. UNCHANGED bookingVars /\ desk' = [desk EXCEPT ![d] = Asked("moving", b, Null, 0, target)]
  BY DEF MoveBegin, Take
<1>2. NoDoubleBooking'
  BY <1>1, ReadingKeepsBookings DEF OrderlyInv
<1>3. desk \in [Desks -> DeskRequest]
  BY DEF OrderlyInv, ReservationTypeOK
<1>4. bookingStatus[b] # "absent" /\ CanTransition(ReservationEdges, bookingStatus[b], target)
  BY DEF MoveBegin, CanTransition, ReservationEdges
<1>5. bookingStatus' = bookingStatus
  BY <1>1 DEF bookingVars
<1>6. desk'[d] = Asked("moving", b, Null, 0, target) /\ \A e \in Desks \ {d} : desk'[e] = desk[e]
  BY <1>1, <1>3
<1>7. \A e \in Desks : desk[e].at = "booking" => desk[e].booking # b
  BY <1>4 DEF OrderlyInv, PromisesStand
<1>8. PromisesStand'
  BY <1>1, <1>4, <1>5, <1>6, <1>7, ReadingKeepsBookings DEF OrderlyInv, PromisesStand, Asked
<1> QED BY <1>2, <1>8

(* A request that ends without a trace leaves the promises of the others.  *)
LEMMA GiveUpOrderly ==
  ASSUME OrderlyInv, NEW d \in Desks, GiveUp(d)
  PROVE  PromisesStand' /\ NoDoubleBooking'
<1>1. UNCHANGED bookingVars /\ desk' = [desk EXCEPT ![d] = NoDesk]
  BY DEF GiveUp, Leave
<1>2. desk'[d] = NoDesk /\ \A e \in Desks \ {d} : desk'[e] = desk[e]
  BY <1>1 DEF OrderlyInv, ReservationTypeOK
<1>3. NoDesk.at = "idle"
  BY DEF NoDesk, Asked
<1>4. bookingStatus' = bookingStatus
  BY <1>1 DEF bookingVars
<1> QED BY <1>1, <1>2, <1>3, <1>4, ReadingKeepsBookings DEF OrderlyInv, PromisesStand

(* A legal move lets a table go or keeps it: nobody's promise is broken.   *)
LEMMA MoveCommitOrderly ==
  ASSUME OrderlyInv, NEW d \in Desks, MoveCommit(d)
  PROVE  PromisesStand' /\ NoDoubleBooking'
<1> DEFINE b == desk[d].booking
<1>1. /\ b \in Bookings
      /\ bookingStatus' = [bookingStatus EXCEPT ![b] = desk[d].target]
      /\ UNCHANGED <<bookingSpot, startAt>>
      /\ CanTransition(ReservationEdges, bookingStatus[b], desk[d].target)
  BY DeskFacts DEF OrderlyInv, PromisesStand, MoveCommit
<1>2. desk'[d] = NoDesk /\ \A e \in Desks \ {d} : desk'[e] = desk[e]
  BY DEF OrderlyInv, ReservationTypeOK, MoveCommit, Leave
<1>3. NoDesk.at = "idle"
  BY DEF NoDesk, Asked
<1>4. bookingStatus \in [Bookings -> ReservationStatus \cup {"absent"}]
  BY DEF OrderlyInv, ReservationTypeOK
<1>5. \A a \in Bookings : \A t : Holds(a, t)' => Holds(a, t)
  <2> SUFFICES ASSUME NEW a \in Bookings, NEW t, Holds(a, t)'
               PROVE  Holds(a, t)
    OBVIOUS
  <2>1. CASE a = b
    BY <1>1, <1>4, <2>1, HoldingIsNeverRegained DEF Holds
  <2>2. CASE a # b
    BY <1>1, <1>4, <2>2 DEF Holds
  <2> QED BY <2>1, <2>2
<1>6. NoDoubleBooking'
  BY <1>1, <1>5 DEF OrderlyInv, NoDoubleBooking
<1>7. \A t, x : Conflicts(t, x) = {} => Conflicts(t, x)' = {}
  BY <1>1, <1>5 DEF Conflicts
<1>8. \A e \in Desks \ {d} : desk[e].at # "idle" => desk[e].booking # b
  BY DeskFacts DEF OrderlyInv, PromisesStand, OneDeskAtATime, MoveCommit
<1>9. \A e \in Desks \ {d} :
        desk[e].at # "idle" => bookingStatus'[desk[e].booking] = bookingStatus[desk[e].booking]
  BY <1>1, <1>4, <1>8, DeskFacts DEF OrderlyInv
<1>10. PromisesStand'
  BY <1>2, <1>3, <1>7, <1>9 DEF OrderlyInv, PromisesStand
<1> QED BY <1>6, <1>10

(* A booking is inserted: its table is still free for it, and it is not    *)
(* the table any other request in flight is about to book.                 *)
LEMMA BookCommitOrderly ==
  ASSUME OrderlyInv, NEW d \in Desks, BookCommit(d)
  PROVE  PromisesStand' /\ NoDoubleBooking'
<1>0. PICK b \in Bookings, spot \in Spots \cup {Null}, start \in Int :
        b = desk[d].booking /\ spot = desk[d].spot /\ start = desk[d].start
  BY DeskFacts DEF OrderlyInv, BookCommit
<1>1. /\ bookingStatus' = [bookingStatus EXCEPT ![b] = "requested"]
      /\ bookingSpot' = [bookingSpot EXCEPT ![b] = spot]
      /\ startAt' = [startAt EXCEPT ![b] = start]
      /\ desk[d].at = "booking"
  BY <1>0 DEF BookCommit
<1>2. desk'[d] = NoDesk /\ \A e \in Desks \ {d} : desk'[e] = desk[e]
  BY DEF OrderlyInv, ReservationTypeOK, BookCommit, Leave
<1>3. NoDesk.at = "idle"
  BY DEF NoDesk, Asked
<1>4. /\ bookingStatus \in [Bookings -> ReservationStatus \cup {"absent"}]
      /\ bookingSpot \in [Bookings -> Spots \cup {Null}]
      /\ startAt \in [Bookings -> Int]
  BY DEF OrderlyInv, ReservationTypeOK
<1>5. /\ bookingStatus'[b] = "requested" /\ bookingSpot'[b] = spot /\ startAt'[b] = start
      /\ \A a \in Bookings \ {b} :
           /\ bookingStatus'[a] = bookingStatus[a]
           /\ bookingSpot'[a] = bookingSpot[a]
           /\ startAt'[a] = startAt[a]
  BY <1>1, <1>4
<1>6. spot # Null => Conflicts(spot, start) = {}
  BY <1>0, <1>1 DEF OrderlyInv, PromisesStand
<1>7. NoDoubleBooking'
  <2>1. ASSUME NEW a \in Bookings \ {b}, NEW t \in Spots, Holds(a, t)', Holds(b, t)'
        PROVE  ~Overlap(startAt'[a], start) /\ ~Overlap(start, startAt'[a])
    <3>1. spot = t /\ spot # Null
      BY <1>5, <2>1, NullAssumption DEF Holds
    <3>2. Holds(a, spot)
      BY <1>5, <2>1, <3>1 DEF Holds
    <3>3. ~Overlap(startAt[a], start)
      BY <1>6, <3>1, <3>2 DEF Conflicts
    <3> QED BY <1>1, <1>4, <1>5, <3>3, OverlapIsMutual
  <2>2. ASSUME NEW a \in Bookings \ {b}, NEW c \in Bookings \ {b}, NEW t \in Spots, a # c,
               Holds(a, t)', Holds(c, t)'
        PROVE  ~Overlap(startAt'[a], startAt'[c])
    BY <1>5, <2>2 DEF OrderlyInv, NoDoubleBooking, Holds
  <2> QED BY <1>5, <2>1, <2>2 DEF NoDoubleBooking
<1>8. ASSUME NEW e \in Desks \ {d}, desk[e].at # "idle"
      PROVE  desk[e].booking # b /\ desk[e].booking \in Bookings
  BY <1>0, <1>1, <1>8, DeskFacts DEF OrderlyInv, PromisesStand
<1>9. ASSUME NEW e \in Desks \ {d}, desk[e].at = "booking", desk[e].spot # Null
      PROVE  Conflicts(desk[e].spot, desk[e].start)' = {}
  <2>1. desk[e].spot # spot
    BY <1>0, <1>1, <1>9 DEF OrderlyInv, OneDeskAtATime
  <2>2. Conflicts(desk[e].spot, desk[e].start) = {}
    BY <1>9 DEF OrderlyInv, PromisesStand
  <2>3. \A a \in Bookings : Holds(a, desk[e].spot)' =>
          Holds(a, desk[e].spot) /\ startAt'[a] = startAt[a]
    BY <1>2, <1>5, <2>1 DEF Holds
  <2> QED BY <1>2, <2>2, <2>3 DEF Conflicts
<1>10. ASSUME NEW e \in Desks \ {d}, desk[e].at # "idle"
       PROVE  bookingStatus'[desk[e].booking] = bookingStatus[desk[e].booking]
  BY <1>5, <1>8, <1>10
<1>11. PromisesStand'
  BY <1>2, <1>3, <1>9, <1>10 DEF OrderlyInv, PromisesStand
<1> QED BY <1>7, <1>11

(* Every step that leaves no two desks on the same table or booking keeps  *)
(* OrderlyInv.                                                             *)
LEMMA NextOrderly ==
  OrderlyInv /\ [ReservationNext /\ OneDeskAtATime']_reservationVars => OrderlyInv'
<1> SUFFICES ASSUME OrderlyInv, [ReservationNext /\ OneDeskAtATime']_reservationVars
             PROVE  OrderlyInv'
  OBVIOUS
<1>1. ReservationTypeOK'
  BY NextReservationType DEF OrderlyInv
<1>2. CASE UNCHANGED reservationVars
  BY <1>1, <1>2
     DEF OrderlyInv, PromisesStand, OneDeskAtATime, NoDoubleBooking, Holds, Conflicts,
         reservationVars, bookingVars
<1>3. CASE ReservationNext /\ OneDeskAtATime'
  <2>1. PICK d \in Desks :
          \/ \E b \in Bookings, t \in Spots \cup {Null}, x \in Times : BookBegin(d, b, t, x)
          \/ \E b \in Bookings, target \in ReservationStatus : MoveBegin(d, b, target)
          \/ BookCommit(d)
          \/ MoveCommit(d)
          \/ GiveUp(d)
    BY <1>3 DEF ReservationNext
  <2>2. PromisesStand' /\ NoDoubleBooking'
    BY <2>1, BookBeginOrderly, MoveBeginOrderly, BookCommitOrderly, MoveCommitOrderly,
       GiveUpOrderly
  <2> QED BY <1>1, <1>3, <2>2 DEF OrderlyInv
<1> QED BY <1>2, <1>3

(* A step changes a booking's status only along an edge of its lifecycle,  *)
(* or by inserting it.                                                     *)
LEMMA NextBookingMoves ==
  OrderlyInv /\ [ReservationNext]_reservationVars => [BookingMoves]_reservationVars
<1> SUFFICES ASSUME OrderlyInv, [ReservationNext]_reservationVars
             PROVE  BookingMoves
  BY DEF reservationVars
<1>1. CASE bookingStatus' = bookingStatus
  BY <1>1 DEF BookingMoves
<1>2. ASSUME NEW d \in Desks, BookCommit(d)
      PROVE  BookingMoves
  BY <1>2, DeskFacts
     DEF BookCommit, BookingMoves, OrderlyInv, PromisesStand, ReservationTypeOK
<1>3. ASSUME NEW d \in Desks, MoveCommit(d)
      PROVE  BookingMoves
  BY <1>3, DeskFacts
     DEF MoveCommit, BookingMoves, OrderlyInv, PromisesStand, ReservationTypeOK
<1> QED
  BY <1>1, <1>2, <1>3
     DEF ReservationNext, reservationVars, bookingVars, BookBegin, MoveBegin, GiveUp

-----------------------------------------------------------------------------
(* The rows keep their types, however many requests overlap: no discipline *)
(* of the desks is needed for that.                                        *)
THEOREM ReservationsTyped == ReservationSpec => []ReservationTypeOK
  BY InitReservationType, NextReservationType, PTL DEF ReservationSpec

(* What a request in flight has checked (its table is free, its move is    *)
(* legal) still holds when it commits.                                     *)
THEOREM PromisesAreKept == OrderlySpec => []PromisesStand
<1>1. OrderlyInv => PromisesStand
  BY DEF OrderlyInv
<1> QED BY <1>1, InitOrderly, NextOrderly, PTL DEF OrderlySpec

(* create_reservation promises no table to two parties at overlapping      *)
(* times.                                                                  *)
THEOREM TablesAreBookedOnce == OrderlySpec => []NoDoubleBooking
<1>1. OrderlyInv => NoDoubleBooking
  BY DEF OrderlyInv
<1> QED BY <1>1, InitOrderly, NextOrderly, PTL DEF OrderlySpec

(* update_reservation_status moves a booking only along its lifecycle.     *)
THEOREM BookingsFollowTheirLifecycle == OrderlySpec => BookingMovesAreLegal
<1>1. [ReservationNext /\ OneDeskAtATime']_reservationVars =>
        [ReservationNext]_reservationVars
  OBVIOUS
<1>2. OrderlyInv /\ [ReservationNext /\ OneDeskAtATime']_reservationVars =>
        [BookingMoves]_reservationVars
  BY <1>1, NextBookingMoves
<1> QED BY <1>2, InitOrderly, NextOrderly, PTL DEF OrderlySpec, BookingMovesAreLegal
=============================================================================
