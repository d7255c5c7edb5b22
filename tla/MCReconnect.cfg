SPECIFICATION Reconnect
CONSTANTS
  Client = {c1, c2}
  Nick = {n1, n2, n3}
  Erroneous = {}
  NoNick = NoNick
  Junk = Junk
  ChannelName = {ch}
  PlusChannel = {}
  Key = {}
  NoKey = NoKey
  MaxLimit = 0
  MaxFlags = 1
SYMMETRY Symmetry
INVARIANTS
  ListsHaveNoDuplicates
PROPERTIES
  AuthorityIsAppointedOrInherited
  AbandonedChannelIsFrozen
  ImplementsNamesakes
CHECK_DEADLOCK FALSE
