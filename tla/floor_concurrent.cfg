SPECIFICATION FairSpec
CONSTANTS
  Tables = {t1}
  Sessions = {s1, s2}
  Guests = {}
  Clients = {c1, c2, c3}
  c1 = c1
  Nil = Nil
INVARIANTS TypeOK FloorInv OneActiveSession NoDeadlock
PROPERTIES TableMovesAreLegal VisitsOpenAtFreeTables ARequestEnds
