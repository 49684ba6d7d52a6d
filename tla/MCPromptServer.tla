---------------------------- MODULE MCPromptServer ----------------------------
(***************************************************************************)
(* Small instances of PromptServer: two prompt requests of one session,     *)
(* streamed or not.                                                         *)
(***************************************************************************)
EXTENDS PromptServer, TLC

CONSTANTS p1, p2

One == {p1}
Two == {p1, p2}
YesNo == {"allow_once", "deny"}
Yes == {"allow_once"}

Symmetry == Permutations(Prompts)
=============================================================================
