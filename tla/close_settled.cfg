SPECIFICATION VisitSpec
CONSTANTS
  Tables = {t1}
  Sessions = {s1}
  Guests = {}
  Clients = {c1}
  Orders = {o1}
  Items <- MCItems
  Payments = {p1}
  Callers = {k1}
  LineTotal <- MCLineTotal
  Amounts <- MCAmounts
  Nil = Nil
  Nothing = Nil
  Visits = {s1}
  burger = burger
SYMMETRY Symmetry
INVARIANTS SettledVisitsCanClose
