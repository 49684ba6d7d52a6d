SPECIFICATION Spec
CONSTANTS
  p1 = p1
  p2 = p2
  None = None
  Prompts <- Two
  Streaming <- Two
  Replies <- YesNo
  MaxHistory = 1
  MaxAsks = 1
  EventCap = 1
SYMMETRY Symmetry
INVARIANTS
  TypeOK
  HistoryIsTrue
  LiveRunIsActive
  ActiveRunIsServed
  PromptsCanBeAnswered
  RepliesReachTheAgent
PROPERTIES
  StaysListed
CHECK_DEADLOCK FALSE
