----------------------------- MODULE MCAgentLoop ------------------------------
(***************************************************************************)
(* Small instances of AgentLoop.  The tools stand for the classes the       *)
(* agent tells apart: Read is read-only and allowed; Bash is the shell, and *)
(* asks; Task is neither; Patch would be destructive; Gone is in no         *)
(* registry.  "bad" fails validation, "other" is what a rule can single out.*)
(***************************************************************************)
EXTENDS AgentLoop

MCTools == {"Read", "Bash", "Task", "Patch", "Gone"}
MCInputs == {"good", "other", "bad"}
MCRegistered == MCTools \ {"Gone"}
MCValid == MCTools \X {"good", "other"}
MCToolVerdict == [tool \in MCTools |-> IF tool = "Bash" THEN "ask" ELSE "allow"]
MCReadOnly == {"Read"}
MCDestructive == {"Patch"}
MCShell == {"Bash"}

\* What an "always" reply's pattern can match: everything, or one input.
MCPatterns == {MCInputs, {"other"}}

NoRules == {}
ReadOther == {[tool |-> "Read", matches |-> {"other"}]}
TaskOther == {[tool |-> "Task", matches |-> {"other"}]}
AnyBash == {[tool |-> "Bash", matches |-> MCInputs]}

Asking == {<<"Bash", "good">>}
Mixed == {<<"Read", "good">>, <<"Bash", "good">>}
Classes == {<<"Read", "good">>, <<"Bash", "good">>, <<"Bash", "bad">>, <<"Task", "good">>,
            <<"Gone", "good">>}
Ruled == {<<"Read", "other">>, <<"Bash", "good">>, <<"Bash", "other">>, <<"Task", "good">>,
          <<"Task", "other">>, <<"Patch", "good">>}
=============================================================================
