SPECIFICATION FairSpec
CONSTANTS
  MaxRuns = 3
  MaxAsks = 1
  QueueCap = 1
  EventCap = 1
  None = None
INVARIANTS
  TypeOK
  ShownPromptIsAwaited
  RepliesReachTheirRun
  BusyMeansUnfinished
PROPERTIES
  EndedRunIsFollowed
