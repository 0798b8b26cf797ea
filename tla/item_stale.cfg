SPECIFICATION TicketSpec
CONSTANTS
  Visits = {v1}
  Orders = {o1}
  Items <- MCItems
  Payments = {p1, p2}
  Callers = {c1, c2}
  LineTotal <- MCLineTotal
  Amounts <- MCAmounts
  Nothing = Nothing
  burger = burger
SYMMETRY Symmetry
PROPERTIES ItemMovesAreLegal
CHECK_DEADLOCK FALSE
