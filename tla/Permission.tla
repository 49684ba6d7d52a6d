------------------------------ MODULE Permission ------------------------------
(***************************************************************************)
(* The decision the agent takes before it runs a tool call: the tool's own  *)
(* answer, the rules and the mode (checkToolPermissions and MatchRule).      *)
(*                                                                          *)
(* A call is a record [id, tool, input].  An input is a member of a small   *)
(* set; a rule names a tool and carries, in place of its pattern, the set   *)
(* of inputs that pattern matches.                                          *)
(***************************************************************************)
EXTENDS Naturals

CONSTANTS
  Tools,        \* names the model may put in a tool call
  Inputs,       \* tool inputs, up to what rules and validation tell apart
  Registered,   \* the names tool.Registry resolves
  Valid,        \* <<tool, input>> pairs that pass Tool.ValidateInput
  ToolVerdict,  \* [Tools -> {"allow", "ask", "deny"}]: Tool.CheckPermissions
  ReadOnly,     \* tools whose IsReadOnly is true
  Destructive,  \* tools whose IsDestructive is true
  ShellTools,   \* the names equal to "Bash" up to letter case
  DenyRules,    \* rules of PermissionContext.DenyRules
  AllowRules,   \* rules of PermissionContext.AllowRules when the run starts
  Mode          \* PermissionContext.Mode

Modes == {"default", "acceptEdits", "plan", "bypassPermissions", "dontAsk"}

Rule == [tool : Tools, matches : SUBSET Inputs]

ASSUME PermissionAssumption ==
  /\ Registered \subseteq Tools
  /\ Valid \subseteq Tools \X Inputs
  /\ ToolVerdict \in [Tools -> {"allow", "ask", "deny"}]
  /\ ReadOnly \subseteq Tools /\ Destructive \subseteq Tools
  /\ ShellTools \subseteq Tools
  /\ DenyRules \subseteq Rule /\ AllowRules \subseteq Rule
  /\ Mode \in Modes

-----------------------------------------------------------------------------

MatchRule(rule, call) == rule.tool = call.tool /\ call.input \in rule.matches

Matched(rules, call) == \E rule \in rules : MatchRule(rule, call)

\* The last stage: the mode decides what no rule has settled.
ModeDecision(call) ==
  IF Mode = "bypassPermissions" \/ call.tool \in ReadOnly THEN "allow"
  ELSE IF Mode \in {"plan", "dontAsk"} THEN "deny"
  ELSE IF Mode = "acceptEdits" /\ call.tool \notin ShellTools THEN "allow"
  ELSE "ask"

\* Mutation: the deny rules are not consulted.
CheckWithoutDenyRules(call, allowRules) ==
  IF ToolVerdict[call.tool] # "allow" THEN ToolVerdict[call.tool]
  ELSE IF Matched(allowRules, call) THEN "allow"
  ELSE IF call.tool \in Destructive THEN "ask"
  ELSE ModeDecision(call)

\* Mutation: a deny rule makes the agent ask.
CheckAskingTheDenied(call, allowRules) ==
  IF ToolVerdict[call.tool] # "allow" THEN ToolVerdict[call.tool]
  ELSE IF Matched(DenyRules, call) THEN "ask"
  ELSE IF Matched(allowRules, call) THEN "allow"
  ELSE IF call.tool \in Destructive THEN "ask"
  ELSE ModeDecision(call)

\* The stages in the order the code tries them: "ask" from the tool itself
\* settles the matter before any rule, and before the mode, is looked at.
CheckToolPermissions(call, allowRules) ==
  IF ToolVerdict[call.tool] # "allow" THEN ToolVerdict[call.tool]
  ELSE IF Matched(DenyRules, call) THEN "deny"
  ELSE IF Matched(allowRules, call) THEN "allow"
  ELSE IF call.tool \in Destructive THEN "ask"
  ELSE ModeDecision(call)

\* What becomes of a call before its tool runs: the registry, validation and
\* permission stages of executeToolCalls.
Admission(call, allowRules) ==
  IF call.tool \in Registered /\ <<call.tool, call.input>> \in Valid
  THEN CheckToolPermissions(call, allowRules)
  ELSE "deny"
=============================================================================
