--------------------------------- MODULE Tui ----------------------------------
(***************************************************************************)
(* The terminal UI: a Bubble Tea model whose Update is called with one      *)
(* message at a time, while goroutines start the runs, wait for their       *)
(* events and wait for permission prompts; and the asker through which the  *)
(* agents (see AgentRun) put their prompts on the screen.                   *)
(*                                                                          *)
(* A goroutine's receive and the Update that handles what it received are   *)
(* one step: what may happen in between is one more slot of the channel.    *)
(***************************************************************************)
EXTENDS AgentRun, Sequences

CONSTANTS
  MaxRuns,      \* bound: prompts the user submits
  MaxAsks,      \* bound: permission prompts of one run
  QueueCap,     \* capacity of PermissionAsker.requests (16 in the code)
  None          \* no prompt is shown

Runs == 1..MaxRuns

\* Each Ask has a reply channel of its own.
Prompts == Runs \X (1..MaxAsks)

Decisions == {"allow_once", "allow_always", "deny"}

ASSUME TuiAssumption ==
  /\ MaxRuns \in Nat /\ MaxAsks \in Nat
  /\ QueueCap \in Nat \ {0}
  /\ None \notin Prompts

VARIABLES
  running,        \* model.running
  pendingPrompt,  \* model.pendingPrompt
  quit,           \* tea.Quit: Update is not called any more
  submitted,      \* prompts submitted so far
  stage,          \* the goroutines that start and follow each run
  run,            \* what Agent.Run's caller sees of each run
  agent,          \* the agent goroutine: not there, in its loop, or in Ask
  asked,          \* permission prompts each run has opened
  requests,       \* PermissionAsker.requests
  response,       \* what each prompt's reply channel was sent
  decided,        \* what the user chose when the prompt was on the screen
  got             \* what Ask returned

uiVars == <<running, pendingPrompt, quit, submitted, stage>>
askVars == <<requests, response, decided, got>>
vars == <<uiVars, run, agent, asked, askVars>>

Init ==
  /\ running = FALSE
  /\ pendingPrompt = None
  /\ quit = FALSE
  /\ submitted = 0
  /\ stage = [r \in Runs |-> "idle"]
  /\ run = [r \in Runs |-> Begun]
  /\ agent = [r \in Runs |-> "none"]
  /\ asked = [r \in Runs |-> 0]
  /\ requests = <<>>
  /\ response = [p \in Prompts |-> "none"]
  /\ decided = [p \in Prompts |-> "none"]
  /\ got = [p \in Prompts |-> "none"]

Current(r) == <<r, asked[r]>>

-----------------------------------------------------------------------------
(* Update: keys.                                                            *)

\* Ctrl+S: ignored while a prompt is shown, and while a run is going on.
Submit ==
  /\ ~quit /\ pendingPrompt = None /\ ~running
  /\ submitted < MaxRuns
  /\ submitted' = submitted + 1
  /\ stage' = [stage EXCEPT ![submitted + 1] = "starting"]
  /\ running' = TRUE
  /\ UNCHANGED <<pendingPrompt, quit, run, agent, asked, askVars>>

\* Mutation: the reply goes to the prompt that was asked last.
SendToNewest(decision) ==
  LET newest == IF requests = <<>> THEN pendingPrompt ELSE requests[Len(requests)]
  IN  /\ decided' = [decided EXCEPT ![pendingPrompt] = decision]
      /\ response' = [response EXCEPT ![newest] = IF @ = "none" THEN decision ELSE @]

\* The reply is sent without blocking: it is dropped if the channel is full.
SendResponse(decision) ==
  /\ decided' = [decided EXCEPT ![pendingPrompt] = decision]
  /\ response' = [response EXCEPT ![pendingPrompt] = IF @ = "none" THEN decision ELSE @]

\* Mutation: the prompt stays on the screen.
ResolveKeepsPrompt(decision) ==
  /\ SendResponse(decision)
  /\ UNCHANGED <<pendingPrompt, requests, got>>

ResolvePermissionPrompt(decision) ==
  /\ SendResponse(decision)
  /\ pendingPrompt' = None
  /\ UNCHANGED <<requests, got>>

\* y, a, n and esc.
Decide ==
  /\ ~quit /\ pendingPrompt # None
  /\ \E decision \in Decisions : ResolvePermissionPrompt(decision)
  /\ UNCHANGED <<running, quit, submitted, stage, run, agent, asked>>

\* Ctrl+C denies the prompt that is shown, cancels every run's context and
\* ends the program.
Quit ==
  /\ ~quit
  /\ \/ pendingPrompt = None /\ UNCHANGED <<pendingPrompt, askVars>>
     \/ pendingPrompt # None /\ ResolvePermissionPrompt("deny")
  /\ quit' = TRUE
  /\ UNCHANGED <<running, submitted, stage, run, agent, asked>>

-----------------------------------------------------------------------------
(* Update: messages of the goroutines.                                      *)

\* startRunCmd calls Agent.Run: the agent goroutine is under way.
StartRun(r) ==
  /\ stage[r] = "starting"
  /\ stage' = [stage EXCEPT ![r] = "started"]
  /\ agent' = [agent EXCEPT ![r] = "loop"]
  /\ UNCHANGED <<running, pendingPrompt, quit, submitted, run, asked, askVars>>

\* runStartedMsg.
RunStarted(r) ==
  /\ ~quit /\ stage[r] = "started"
  /\ stage' = [stage EXCEPT ![r] = "following"]
  /\ UNCHANGED <<running, pendingPrompt, quit, submitted, run, agent, asked, askVars>>

\* The event in front is the run's terminal one.
AtEnd(r) == run[r].phase \in {"ended", "closed"} /\ run[r].held = 1

\* Mutation: no goroutine waits for the next event.
AgentEventOnce(r) ==
  /\ ~quit /\ stage[r] = "following"
  /\ run[r].held > 0 /\ run' = [run EXCEPT ![r] = Taken(@)]
  /\ running' = (running /\ ~(AtEnd(r) /\ run[r].outcome # "error"))
  /\ stage' = [stage EXCEPT ![r] = "done"]
  /\ UNCHANGED <<pendingPrompt, quit, submitted, agent, asked, askVars>>

\* agentEventMsg: EventDone clears running, EventError does not.
AgentEvent(r) ==
  /\ ~quit /\ stage[r] = "following"
  /\ run[r].held > 0 /\ run' = [run EXCEPT ![r] = Taken(@)]
  /\ running' = (running /\ ~(AtEnd(r) /\ run[r].outcome # "error"))
  /\ UNCHANGED <<pendingPrompt, quit, submitted, stage, agent, asked, askVars>>

\* Mutation: a closed channel is ignored.
EventsClosedIgnored(r) ==
  /\ ~quit /\ stage[r] = "following"
  /\ run[r].phase = "closed" /\ run[r].held = 0
  /\ stage' = [stage EXCEPT ![r] = "done"]
  /\ UNCHANGED <<running, pendingPrompt, quit, submitted, run, agent, asked, askVars>>

\* agentEventMsg of a closed channel: running is cleared, whichever run it was.
EventsClosed(r) ==
  /\ ~quit /\ stage[r] = "following"
  /\ run[r].phase = "closed" /\ run[r].held = 0
  /\ stage' = [stage EXCEPT ![r] = "done"]
  /\ running' = FALSE
  /\ UNCHANGED <<pendingPrompt, quit, submitted, run, agent, asked, askVars>>

\* permissionPromptMsg: the prompt is shown in place of whatever was shown.
ShowPrompt ==
  /\ ~quit /\ requests # <<>>
  /\ pendingPrompt' = Head(requests)
  /\ requests' = Tail(requests)
  /\ UNCHANGED <<running, quit, submitted, stage, run, agent, asked, response, decided, got>>

-----------------------------------------------------------------------------
(* The agent goroutine, until the process exits.                            *)

Ctx == IF quit THEN "cancelled" ELSE "live"

AgentSays(r) ==
  /\ agent[r] = "loop"
  /\ MaySend(run[r], "running") /\ run' = [run EXCEPT ![r] = Sent(@, "running")]
  /\ UNCHANGED <<uiVars, agent, asked, askVars>>

AgentAsks(r) ==
  /\ agent[r] = "loop" /\ asked[r] < MaxAsks
  /\ MaySend(run[r], "running") /\ run' = [run EXCEPT ![r] = Sent(@, "asking")]
  /\ asked' = [asked EXCEPT ![r] = @ + 1]
  /\ agent' = [agent EXCEPT ![r] = "asking"]
  /\ UNCHANGED <<uiVars, askVars>>

AgentResolves(r) ==
  /\ agent[r] = "returned"
  /\ MaySend(run[r], "asking") /\ run' = [run EXCEPT ![r] = Sent(@, "running")]
  /\ agent' = [agent EXCEPT ![r] = "loop"]
  /\ UNCHANGED <<uiVars, asked, askVars>>

AgentEnds(r) ==
  /\ agent[r] = "loop" /\ MaySend(run[r], "running")
  /\ \E how \in Endings : MayEnd(how, Ctx) /\ run' = [run EXCEPT ![r] = Ended(@, how)]
  /\ UNCHANGED <<uiVars, agent, asked, askVars>>

AgentCloses(r) ==
  /\ agent[r] = "loop"
  /\ run[r].phase = "ended" /\ run' = [run EXCEPT ![r] = Closed(@)]
  /\ UNCHANGED <<uiVars, agent, asked, askVars>>

-----------------------------------------------------------------------------
(* PermissionAsker.Ask: two selects, each against the context.              *)

\* Mutation: the queue has no bound.
PutRequestUnbounded(r) ==
  /\ agent[r] = "asking"
  /\ requests' = Append(requests, Current(r))
  /\ agent' = [agent EXCEPT ![r] = "waiting"]
  /\ UNCHANGED <<uiVars, run, asked, response, decided, got>>

PutRequest(r) ==
  /\ agent[r] = "asking"
  /\ Len(requests) < QueueCap
  /\ requests' = Append(requests, Current(r))
  /\ agent' = [agent EXCEPT ![r] = "waiting"]
  /\ UNCHANGED <<uiVars, run, asked, response, decided, got>>

AskGetsReply(r) ==
  /\ agent[r] = "waiting"
  /\ response[Current(r)] # "none"
  /\ got' = [got EXCEPT ![Current(r)] = response[Current(r)]]
  /\ agent' = [agent EXCEPT ![r] = "returned"]
  /\ UNCHANGED <<uiVars, run, asked, requests, response, decided>>

AskGivesUp(r) ==
  /\ agent[r] \in {"asking", "waiting"}
  /\ Ctx = "cancelled"
  /\ got' = [got EXCEPT ![Current(r)] = "error"]
  /\ agent' = [agent EXCEPT ![r] = "returned"]
  /\ UNCHANGED <<uiVars, run, asked, requests, response, decided>>

-----------------------------------------------------------------------------

Key == Submit \/ Decide \/ Quit

Follow(r) == StartRun(r) \/ RunStarted(r) \/ AgentEvent(r) \/ EventsClosed(r)

Loop(r) == AgentSays(r) \/ AgentAsks(r) \/ AgentResolves(r) \/ AgentEnds(r)
             \/ AgentCloses(r)

Ask(r) == PutRequest(r) \/ AskGetsReply(r) \/ AskGivesUp(r)

\* The program has ended, and with it the process.
Exited == quit /\ UNCHANGED vars

Next ==
  \/ Key \/ ShowPrompt \/ Exited
  \/ \E r \in Runs : Follow(r) \/ Loop(r) \/ Ask(r)

Spec == Init /\ [][Next]_vars

\* Bubble Tea runs every command in a goroutine and hands each message to
\* Update in the end.  The user, the model and the tools owe nothing.
Fairness ==
  /\ WF_vars(ShowPrompt)
  /\ \A r \in Runs :
       /\ WF_vars(Follow(r)) /\ WF_vars(Ask(r))
       /\ WF_vars(AgentResolves(r)) /\ WF_vars(AgentCloses(r))

FairSpec == Spec /\ Fairness

-----------------------------------------------------------------------------
(* What the terminal UI promises.                                           *)

\* Every variable keeps its type and the queue of prompts its capacity
\* (tui.go:52-72, permission_asker.go:20-22).
TypeOK ==
  /\ running \in BOOLEAN /\ quit \in BOOLEAN
  /\ pendingPrompt \in Prompts \cup {None}
  /\ submitted \in 0..MaxRuns
  /\ stage \in [Runs -> {"idle", "starting", "started", "following", "done"}]
  /\ run \in [Runs -> Run]
  /\ agent \in [Runs -> {"none", "loop", "asking", "waiting", "returned"}]
  /\ asked \in [Runs -> 0..MaxAsks]
  /\ requests \in Seq(Prompts) /\ Len(requests) <= QueueCap
  /\ response \in [Prompts -> Decisions \cup {"none"}]
  /\ decided \in [Prompts -> Decisions \cup {"none"}]
  /\ got \in [Prompts -> Decisions \cup {"none", "error"}]

\* The prompt on the screen is one an agent waits for and nobody has answered,
\* however many runs there are: a key never answers a prompt twice, and never
\* falls into the default branch of the send (tui.go:169-173, 283-299).
ShownPromptIsAwaited ==
  pendingPrompt # None =>
    /\ response[pendingPrompt] = "none"
    /\ \/ quit
       \/ agent[pendingPrompt[1]] = "waiting" /\ Current(pendingPrompt[1]) = pendingPrompt

\* An agent acts on the decision the user took on its own prompt, and on no
\* other's; without one it acts only when the program is quitting
\* (tui.go:283-299, permission_asker.go:24-40).
RepliesReachTheirRun ==
  \A p \in Prompts :
    /\ got[p] \in Decisions => decided[p] = got[p]
    /\ got[p] = "error" => quit

Unfinished(r) == stage[r] \in {"starting", "started", "following"}

\* The UI refuses a prompt only while a run is unfinished: no ending of a run,
\* an error's included, leaves it busy for good (tui.go:151-153, 184-191).
BusyMeansUnfinished == running => \E r \in Runs : Unfinished(r)

\* A run that has ended is followed to the close of its channel, whatever other
\* runs do: no agent goroutine is left behind on a full channel
\* (tui.go:184-194).
EndedRunIsFollowed ==
  \A r \in Runs :
    (run[r].phase = "ended") ~> (quit \/ (stage[r] = "done" /\ run[r].held = 0))

-----------------------------------------------------------------------------
(* What the documentation says.                                             *)

\* permission_asker.go:14: the asker bridges permission prompts from the agent
\* into the TUI.  A prompt an agent waits for is on its way to the screen, on
\* it, or answered.
PromptsReachTheScreen ==
  \A r \in Runs : agent[r] = "waiting" /\ ~quit =>
    \/ pendingPrompt = Current(r)
    \/ \E i \in 1..Len(requests) : requests[i] = Current(r)
    \/ response[Current(r)] # "none"
=============================================================================
