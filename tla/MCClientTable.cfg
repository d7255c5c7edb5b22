SPECIFICATION Spec
CONSTANTS
  Client = {c1, c2, c3}
  Nick = {n1, n2, bad}
  Erroneous = {bad}
  NoNick = NoNick
  Junk = Junk
SYMMETRY Symmetry
INVARIANTS
  TypeOK
  NickUnique
  RegisteredComplete
PROPERTIES
  OnlyLatePassStalls
  ImplementsDirectory
CHECK_DEADLOCK FALSE
