SPECIFICATION FairSpec
CONSTANTS
  Peer = {p1, p2}
  MaxFd = 2
  None = None
  Null = Null
INVARIANTS
  TypeOK
  TablesAgree
  ReportsAreCurrent
PROPERTIES
  FailedIsNotWrittenTo
  ImplementsSessions
  ConnectionsAreTaken
  InputIsRead
  DepartedAreDropped
  OutputLeaves
CHECK_DEADLOCK FALSE
