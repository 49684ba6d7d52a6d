SPECIFICATION FairSpec
CONSTANTS
  Tools <- MCTools
  Inputs <- MCInputs
  Registered <- MCRegistered
  Valid <- MCValid
  ToolVerdict <- MCToolVerdict
  ReadOnly <- MCReadOnly
  Destructive <- MCDestructive
  ShellTools <- MCShell
  DenyRules <- ReadOther
  AllowRules <- TaskOther
  Mode = "plan"
  Requests <- Ruled
  Patterns <- MCPatterns
  HasAsker = TRUE
  Protocol = "google"
  MaxTurns = 2
  MaxCalls = 1
  EventCap = 1
  MaxFaults = 1
  NoCall = NoCall
INVARIANTS
  RunsAsPermitted
  LogFollowsConversation
  DenyRulesBind
PROPERTIES
  CancelEndsRun
