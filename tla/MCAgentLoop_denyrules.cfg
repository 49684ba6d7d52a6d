SPECIFICATION Spec
CONSTANTS
  Tools <- MCTools
  Inputs <- MCInputs
  Registered <- MCRegistered
  Valid <- MCValid
  ToolVerdict <- MCToolVerdict
  ReadOnly <- MCReadOnly
  Destructive <- MCDestructive
  ShellTools <- MCShell
  DenyRules <- AnyBash
  AllowRules <- NoRules
  Mode = "default"
  Requests <- Asking
  Patterns <- MCPatterns
  HasAsker = TRUE
  Protocol = "anthropic"
  MaxTurns = 1
  MaxCalls = 1
  EventCap = 1
  MaxFaults = 0
  NoCall = NoCall
INVARIANTS
  DenyRulesAreHardBlocks
