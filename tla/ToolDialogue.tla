----------------------------- MODULE ToolDialogue -----------------------------
(***************************************************************************)
(* What a provider's API requires of the conversation it is sent, and so    *)
(* what a run of the agent has to keep to: the prompt comes first, the      *)
(* model and the user alternate, every tool use of the model is answered    *)
(* by one result, in order, in the very next message, and the conversation  *)
(* never stops while a tool use is unanswered.                              *)
(***************************************************************************)
EXTENDS Naturals, Sequences

VARIABLES
  convo,   \* the messages so far: records with fields role, uses, results
  over     \* nothing more will be said

dialogue == <<convo, over>>

Answers(results, uses) ==
  /\ Len(results) = Len(uses)
  /\ \A i \in 1..Len(uses) : results[i].call = uses[i]

FromUser(msg) == msg.role = "user" /\ msg.uses = <<>>
FromModel(msg) == msg.role = "assistant" /\ msg.results = <<>>

\* The newest message asks for tools and nothing has answered it yet.
Unanswered == convo # <<>> /\ convo[Len(convo)].uses # <<>>

\* The conversation grows by one message.
Said == convo'[Len(convo')]
Grows == Len(convo') = Len(convo) + 1 /\ convo' = Append(convo, Said)

Init == convo = <<>> /\ over = FALSE

Prompts ==
  /\ ~over /\ convo = <<>>
  /\ Grows /\ FromUser(Said) /\ Said.results = <<>>
  /\ UNCHANGED over

ModelSpeaks ==
  /\ ~over /\ convo # <<>> /\ convo[Len(convo)].role = "user"
  /\ Grows /\ FromModel(Said)
  /\ UNCHANGED over

ToolsAnswer ==
  /\ ~over /\ Unanswered
  /\ Grows /\ FromUser(Said)
  /\ Answers(Said.results, convo[Len(convo)].uses)
  /\ UNCHANGED over

Ends ==
  /\ ~over /\ ~Unanswered
  /\ over' = TRUE
  /\ UNCHANGED convo

Next == Prompts \/ ModelSpeaks \/ ToolsAnswer \/ Ends

Spec == Init /\ [][Next]_dialogue
=============================================================================
