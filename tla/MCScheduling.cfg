SPECIFICATION SchedSpec
CONSTANTS
  a = a
  b = b
  Root = Root
  Tasks <- Two
  Parent <- Tree
  EventCap = 1
  Requests = {r1, r2, r3}
  Cooldown = 3
  p1 = p1
  None = None
  Replies = {"allow_once", "deny"}
  MaxHistory = 1
  MaxAsks = 2
INVARIANTS
  TypesOK
  NothingLeftRunning
  ResultTellsTheEnd
  StatusAgreesWithResult
PROPERTIES
  CancelEndsTheTree
  CancelEndsRequest
  FailsBack
CHECK_DEADLOCK FALSE
