SPECIFICATION Talk
CONSTANTS
  Client = {c1, c2}
  Nick = {n1, n2}
  Erroneous = {}
  NoNick = NoNick
  Junk = Junk
  ChannelName = {"#a", "#b"}
  PlusChannel = {}
  Key = {}
  NoKey = NoKey
  MaxLimit = 0
  MaxFlags = 1
  Word = {":!bot", "create", "destroy", ":!ban", "bot"}
  PartOf <- MCPartOf
  MaskOf <- MCMaskOf
  MaxWords = 2
  ChannelOrder <- MCOrder
SYMMETRY MessageSymmetry
PROPERTIES
  BotCanBeDestroyed
CHECK_DEADLOCK FALSE
