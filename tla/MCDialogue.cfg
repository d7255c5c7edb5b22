SPECIFICATION DialogueSpec
CONSTANTS
  Char = {"x"}
  CR = "CR"
  LF = "LF"
  RecvMax = 4
  MaxSent = 6
  MaxNotices = 1
INVARIANTS
  DialogueTypeOK
  ContentIsKept
  TornOnlyAtTheEnd
  NothingStaysBehind
PROPERTIES
  ImplementsLineStream
  CompleteLinesAreServed
  ImplementsConversation
  LinesAreAnswered
CHECK_DEADLOCK FALSE
