SPECIFICATION StayConnected
CONSTANTS
  Client = {c1, c2, c3}
  Nick = {n1, n2, n3}
  Erroneous = {}
  NoNick = NoNick
  Junk = Junk
  ChannelName = {ch}
  PlusChannel = {}
  Key = {}
  NoKey = NoKey
  MaxLimit = 0
  MaxFlags = 1
SYMMETRY Symmetry
PROPERTIES
  ModeChangesAreSeen
CHECK_DEADLOCK FALSE
