SPECIFICATION StaffSpec
CONSTANTS
  Tables = {t1, t2}
  Sessions = {s1, s2}
  Guests = {g1}
  Clients = {c1, c2}
  Orders = {o1}
  Items <- MCItems
  Payments = {p1}
  Callers = {k1}
  LineTotal <- MCLineTotal
  Amounts <- MCAmounts
  Nil = Nil
  Nothing = Nil
  Visits = {s1, s2}
  burger = burger
  t1 = t1
  Bookings = {b1, b2, b3}
  Spots = {t1}
  Null = Null
  Times <- MCTimes
  Duration = 2
  Desks = {d1, d2}
SYMMETRY Symmetry
INVARIANTS VisitKeepsTable CoordinatedInv ReservationTypeOK NoDoubleBooking PromisesStand
PROPERTIES ClosedIsTerminal FollowsRules ClosingLeavesNoMoney ClosedVisitsTakeNothingNew BookingMovesAreLegal
CHECK_DEADLOCK FALSE
