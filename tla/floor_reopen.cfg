SPECIFICATION Spec
CONSTANTS
  Tables = {t1}
  Sessions = {s1, s2}
  Guests = {}
  Clients = {c1, c2}
  c1 = c1
  Nil = Nil
SYMMETRY Symmetry
PROPERTIES ClosedIsTerminal
