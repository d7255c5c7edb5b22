SPECIFICATION StayConnected
CONSTANTS
  Client = {c1, c2}
  Nick = {n1, n2, n3}
  Erroneous = {}
  NoNick = NoNick
  Junk = Junk
  ChannelName = {ch}
  PlusChannel = {}
  Key = {k1}
  NoKey = NoKey
  MaxLimit = 1
  MaxFlags = 1
SYMMETRY Symmetry
PROPERTIES
  AdmissionControl
  AbandonedChannelIsFrozen
  ModeChangeIsReported
  ModeSetIsListed
CHECK_DEADLOCK FALSE
