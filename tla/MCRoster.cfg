SPECIFICATION ManyChannels
CONSTANTS
  Client = {c1, c2}
  Nick = {n1, n2, n3}
  Erroneous = {}
  NoNick = NoNick
  Junk = Junk
  ChannelName = {ch, pc}
  PlusChannel = {pc}
  Key = {}
  NoKey = NoKey
  MaxLimit = 0
  MaxFlags = 2
SYMMETRY Symmetry
INVARIANTS
  ChannelsTypeOK
  AuthorityIsIdentity
  WhoAgreesWithWhoIs
PROPERTIES
  ImplementsRoster
  RemovalIsAnnounced
  ArrivalIsAnnounced
CHECK_DEADLOCK FALSE
