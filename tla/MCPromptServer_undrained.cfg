SPECIFICATION Spec
CONSTANTS
  p1 = p1
  p2 = p2
  None = None
  Prompts <- Two
  Streaming <- One
  Replies <- Yes
  MaxHistory = 2
  MaxAsks = 0
  EventCap = 1
INVARIANTS
  DrainsTheChannel
CHECK_DEADLOCK FALSE
