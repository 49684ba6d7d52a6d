SPECIFICATION Spec
CONSTANTS
  Tools <- MCTools
  Inputs <- MCInputs
  Registered <- MCRegistered
  Valid <- MCValid
  ToolVerdict <- MCToolVerdict
  ReadOnly <- MCReadOnly
  Destructive <- MCDestructive
  ShellTools <- MCShell
  DenyRules <- NoRules
  AllowRules <- NoRules
  Mode = "default"
  Requests <- Classes
  Patterns <- MCPatterns
  HasAsker = TRUE
  Protocol = "anthropic"
  MaxTurns = 1
  MaxCalls = 2
  EventCap = 1
  MaxFaults = 0
  NoCall = NoCall
INVARIANTS
  TypeOK
  OneTerminalEvent
  PromptsAreResolved
  SameStory
PROPERTIES
  KeepsDialogue
  KeepsContract
