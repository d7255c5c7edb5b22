SPECIFICATION Talk
CONSTANTS
  Client = {c1, c2}
  Nick = {n1, "#a"}
  Erroneous = {}
  NoNick = NoNick
  Junk = Junk
  ChannelName = {"#a", "#b"}
  PlusChannel = {}
  Key = {}
  NoKey = NoKey
  MaxLimit = 0
  MaxFlags = 1
  Word = {":!bot", "create", "destroy", ":!ban", "bot", "*"}
  PartOf <- MCPartOf
  MaskOf <- MCMaskOf
  MaxWords = 2
  ChannelOrder <- MCOrder
SYMMETRY MessageSymmetry
INVARIANTS
  MessagesTypeOK
PROPERTIES
  BannedWordsAreMasked
  BotsObeyOperators
  BotChangesAreAnnounced
CHECK_DEADLOCK FALSE
