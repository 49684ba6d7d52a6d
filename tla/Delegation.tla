------------------------------ MODULE Delegation ------------------------------
(***************************************************************************)
(* Delegated tasks: agents (see AgentRun) that call the Task tool, and the  *)
(* runner their whole tree shares, which starts a child agent for each      *)
(* call, receives its events, and keeps a state, a cancel function and a    *)
(* result for each task.                                                    *)
(*                                                                          *)
(* An agent executes one tool call at a time, so that it goes on only when  *)
(* the child of its call has returned.                                      *)
(***************************************************************************)
EXTENDS AgentRun, FiniteSets

CONSTANTS
  Tasks,      \* the calls of subagentRunner.Run that start a task
  Root,       \* the agent the user runs; not a task
  Parent      \* [Tasks -> Tasks \cup {Root}]: the agent that makes the call

Agents == Tasks \cup {Root}

\* The ancestors of an agent, and the agent itself: at most all the tasks.
Lineage ==
  [a \in Agents |->
     LET up[n \in 0..Cardinality(Tasks)] ==
           IF n = 0 THEN {a} ELSE up[n - 1] \cup {Parent[t] : t \in up[n - 1] \cap Tasks}
     IN  up[Cardinality(Tasks)]]

ASSUME DelegationAssumption ==
  /\ IsFiniteSet(Tasks) /\ Root \notin Tasks
  /\ Parent \in [Tasks -> Agents]
  /\ \A t \in Tasks : Root \in Lineage[t]

States == {"running", "completed", "failed", "cancelled", "timeout"}

VARIABLES
  call,       \* where each call of Run is
  agent,      \* each agent: not there, in its loop, in Task or another tool, or gone
  run,        \* what the caller of each agent's Run sees
  cancelled,  \* agents whose own context has been cancelled
  verdict,    \* Run's local variable state
  states,     \* runner.states: the tasks that have one, and which
  cancels,    \* the tasks in runner.cancels
  results     \* runner.results: the State of each result

runnerVars == <<states, cancels, results>>
vars == <<call, agent, run, cancelled, verdict, runnerVars>>

\* A child's context derives from its parent's.
Live(a) == Lineage[a] \cap cancelled = {}
Ctx(a) == IF Live(a) THEN "live" ELSE "cancelled"

Init ==
  /\ call = [t \in Tasks |-> "none"]
  /\ agent = [a \in Agents |-> IF a = Root THEN "loop" ELSE "none"]
  /\ run = [a \in Agents |-> Begun]
  /\ cancelled = {}
  /\ verdict = [t \in Tasks |-> "completed"]
  /\ states = [t \in Tasks |-> "none"]
  /\ cancels = {}
  /\ results = [t \in Tasks |-> "none"]

-----------------------------------------------------------------------------
(* Run, in the goroutine of the agent that called the tool.                 *)

\* taskTool.Call and the head of Run: a fresh id, its context and its cancel.
\* A call that names a task_id returns a stored result and changes nothing.
RegisterTask(t) ==
  /\ call[t] = "none" /\ agent[Parent[t]] = "loop"
  /\ run[Parent[t]].phase = "running"
  /\ agent' = [agent EXCEPT ![Parent[t]] = "task"]
  /\ call' = [call EXCEPT ![t] = "registered"]
  /\ cancels' = cancels \cup {t}
  /\ UNCHANGED <<run, cancelled, verdict, states, results>>

\* setState(TaskRunning), newChildAgent, child.Run.
StartChild(t) ==
  /\ call[t] = "registered"
  /\ states' = [states EXCEPT ![t] = "running"]
  /\ agent' = [agent EXCEPT ![t] = "loop"]
  /\ call' = [call EXCEPT ![t] = "reading"]
  /\ UNCHANGED <<run, cancelled, verdict, cancels, results>>

\* Mutation: the reason is taken for a state.
AfterVerbatim(outcome, state) == IF outcome = "error" THEN "failed" ELSE outcome

\* Mutation: an error event does not change the verdict.
AfterLast(outcome, state) ==
  CASE outcome = "aborted" /\ state = "completed" -> "cancelled"
    [] outcome = "max_turns" /\ state = "completed" -> "timeout"
    [] OTHER -> state

\* What the terminal event makes of the verdict.
After(outcome, state) ==
  CASE outcome = "error" -> "failed"
    [] outcome = "aborted" /\ state = "completed" -> "cancelled"
    [] outcome = "max_turns" /\ state = "completed" -> "timeout"
    [] OTHER -> state

AtEnd(t) == run[t].phase \in {"ended", "closed"} /\ run[t].held = 1

\* Mutation: the loop over the events stops when the context is cancelled.
ReadEventWhileLive(t) ==
  /\ call[t] = "reading" /\ Live(t)
  /\ run[t].held > 0 /\ run' = [run EXCEPT ![t] = Taken(@)]
  /\ verdict' = [verdict EXCEPT ![t] = IF AtEnd(t) THEN After(run[t].outcome, @) ELSE @]
  /\ UNCHANGED <<call, agent, cancelled, runnerVars>>

ReadEvent(t) ==
  /\ call[t] = "reading"
  /\ run[t].held > 0 /\ run' = [run EXCEPT ![t] = Taken(@)]
  /\ verdict' = [verdict EXCEPT ![t] = IF AtEnd(t) THEN After(run[t].outcome, @) ELSE @]
  /\ UNCHANGED <<call, agent, cancelled, runnerVars>>

\* The channel is closed: a cancelled context overrules "completed".
EventsEnd(t) ==
  /\ call[t] = "reading"
  /\ run[t].phase = "closed" /\ run[t].held = 0
  /\ verdict' = [verdict EXCEPT ![t] = IF ~Live(t) /\ @ = "completed" THEN "cancelled" ELSE @]
  /\ call' = [call EXCEPT ![t] = "decided"]
  /\ UNCHANGED <<agent, run, cancelled, runnerVars>>

\* setState.
SetFinalState(t) ==
  /\ call[t] = "decided"
  /\ states' = [states EXCEPT ![t] = verdict[t]]
  /\ call' = [call EXCEPT ![t] = "stated"]
  /\ UNCHANGED <<agent, run, cancelled, verdict, cancels, results>>

\* Mutation: the context is looked at when the result is stored.
StoreResultLate(t) ==
  /\ call[t] = "stated"
  /\ results' = [results EXCEPT ![t] = IF ~Live(t) /\ verdict[t] = "completed"
                                        THEN "cancelled" ELSE verdict[t]]
  /\ call' = [call EXCEPT ![t] = "stored"]
  /\ UNCHANGED <<agent, run, cancelled, verdict, states, cancels>>

StoreResult(t) ==
  /\ call[t] = "stated"
  /\ results' = [results EXCEPT ![t] = verdict[t]]
  /\ call' = [call EXCEPT ![t] = "stored"]
  /\ UNCHANGED <<agent, run, cancelled, verdict, states, cancels>>

\* Mutation: the cancel function stays in the map.
ReturnKeepsCancel(t) ==
  /\ call[t] = "stored"
  /\ call' = [call EXCEPT ![t] = "returned"]
  /\ agent' = [agent EXCEPT ![Parent[t]] = "loop"]
  /\ UNCHANGED <<run, cancelled, verdict, runnerVars>>

\* The deferred removal of the cancel function; the caller's loop goes on.
ReturnTask(t) ==
  /\ call[t] = "stored"
  /\ cancels' = cancels \ {t}
  /\ call' = [call EXCEPT ![t] = "returned"]
  /\ agent' = [agent EXCEPT ![Parent[t]] = "loop"]
  /\ UNCHANGED <<run, cancelled, verdict, states, results>>

-----------------------------------------------------------------------------
(* Cancellation: by the runner's Cancel, whatever has become of the task,   *)
(* and from above, by whoever runs the root agent.                          *)

CancelTask(t) ==
  /\ call[t] # "none"
  /\ cancelled' = IF t \in cancels THEN cancelled \cup {t} ELSE cancelled
  /\ cancels' = cancels \ {t}
  /\ states' = [states EXCEPT ![t] = "cancelled"]
  /\ UNCHANGED <<call, agent, run, verdict, results>>

CancelRoot ==
  /\ Root \notin cancelled
  /\ cancelled' = cancelled \cup {Root}
  /\ UNCHANGED <<call, agent, run, verdict, runnerVars>>

-----------------------------------------------------------------------------
(* The agents' loops, and the receiver of the root's events.                *)

AgentUnchanged == UNCHANGED <<call, cancelled, verdict, runnerVars>>

\* An event that is not the end of the run.  (A prompt is resolved inside the
\* agent: to whoever receives it is an event like any other.)
AgentSays(a) ==
  /\ agent[a] = "loop"
  /\ MaySend(run[a], "running") /\ run' = [run EXCEPT ![a] = Sent(@, "running")]
  /\ UNCHANGED agent
  /\ AgentUnchanged

\* The call of any other tool: nothing is sent until it returns.
EnterTool(a) ==
  /\ agent[a] = "loop" /\ run[a].phase = "running"
  /\ agent' = [agent EXCEPT ![a] = "tool"]
  /\ UNCHANGED run
  /\ AgentUnchanged

LeaveTool(a) ==
  /\ agent[a] = "tool"
  /\ agent' = [agent EXCEPT ![a] = "loop"]
  /\ UNCHANGED run
  /\ AgentUnchanged

AgentEnds(a) ==
  /\ agent[a] = "loop" /\ MaySend(run[a], "running")
  /\ \E how \in Endings : MayEnd(how, Ctx(a)) /\ run' = [run EXCEPT ![a] = Ended(@, how)]
  /\ UNCHANGED agent
  /\ AgentUnchanged

AgentCloses(a) ==
  /\ agent[a] = "loop"
  /\ run[a].phase = "ended" /\ run' = [run EXCEPT ![a] = Closed(@)]
  /\ agent' = [agent EXCEPT ![a] = "gone"]
  /\ AgentUnchanged

RootReceives ==
  /\ run[Root].held > 0 /\ run' = [run EXCEPT ![Root] = Taken(@)]
  /\ UNCHANGED agent
  /\ AgentUnchanged

-----------------------------------------------------------------------------

Go(t) == RegisterTask(t) \/ StartChild(t) \/ ReadEvent(t) \/ EventsEnd(t)
           \/ SetFinalState(t) \/ StoreResult(t) \/ ReturnTask(t)

Loop(a) == AgentSays(a) \/ EnterTool(a) \/ LeaveTool(a) \/ AgentEnds(a) \/ AgentCloses(a)

Next ==
  \/ \E t \in Tasks : Go(t) \/ CancelTask(t)
  \/ \E a \in Agents : Loop(a)
  \/ RootReceives \/ CancelRoot

Spec == Init /\ [][Next]_vars

\* Whoever runs the root receives its events.  A model and a tool owe nothing,
\* but a cancelled agent that is back in its loop again and again ends: only the
\* calls of its current turn are still to come, as in AgentLoop's CancelEndsRun.
Fairness ==
  /\ WF_vars(RootReceives)
  /\ \A t \in Tasks :
       WF_vars(StartChild(t) \/ ReadEvent(t) \/ EventsEnd(t) \/ SetFinalState(t)
                 \/ StoreResult(t) \/ ReturnTask(t))
  /\ \A a \in Agents : WF_vars(AgentCloses(a)) /\ SF_vars(~Live(a) /\ AgentEnds(a))

FairSpec == Spec /\ Fairness

-----------------------------------------------------------------------------
(* What the runner promises.                                                *)

\* Every variable keeps its type (subagent_runner.go:15-22).
TypeOK ==
  /\ call \in [Tasks -> {"none", "registered", "reading", "decided", "stated", "stored",
                         "returned"}]
  /\ agent \in [Agents -> {"none", "loop", "task", "tool", "gone"}]
  /\ run \in [Agents -> Run]
  /\ cancelled \subseteq Agents
  /\ verdict \in [Tasks -> States]
  /\ states \in [Tasks -> States \cup {"none"}]
  /\ cancels \subseteq Tasks
  /\ results \in [Tasks -> States \cup {"none"}]

InProgress(t) == call[t] \notin {"none", "returned"}

\* A task that is over is not reported as running, and no cancel function
\* outlives its call: what Cancel finds in the map is a child that still runs
\* or whose result is on its way (subagent_runner.go:51-61, 134-152, 173-182).
NothingLeftRunning ==
  /\ \A t \in cancels : InProgress(t)
  /\ \A t \in Tasks : states[t] = "running" => call[t] \in {"reading", "decided"}

\* A result says how the child ended: failed on its error, timed out on its
\* turn budget, and completed only if it was; everything the child sent has
\* been received by then (subagent_runner.go:80-134).
ResultTellsTheEnd ==
  \A t \in Tasks : results[t] # "none" =>
    /\ run[t].phase = "closed" /\ run[t].held = 0
    /\ results[t] = "failed" <=> run[t].outcome = "error"
    /\ results[t] = "timeout" <=> run[t].outcome = "max_turns"
    /\ results[t] = "completed" => run[t].outcome = "completed"

\* Status and the result of a task that is over agree, unless Cancel was called
\* for it: what another lock section left in one map is not contradicted by the
\* other, wherever a cancellation from above or by id fell in between
\* (subagent_runner.go:126-152 and 173-182).
StatusAgreesWithResult ==
  \A t \in Tasks : results[t] # "none" /\ states[t] # results[t] =>
    states[t] = "cancelled" /\ t \notin cancels

\* tool.go:31 asks of every tool that it return once its context is cancelled;
\* not all do (question.go:110-132, bash.go:132-141).  No agent at or below t
\* stays in a tool for ever.
ToolsReturnBelow(t) == \A a \in Agents : t \in Lineage[a] => []<>(agent[a] # "tool")

\* Cancelling an agent ends every task below it, from the leaves up, although
\* each agent on the way waits for its child and each child for the room its
\* parent makes in the channel; as long as the tools of the task's own agents
\* return (subagent_runner.go:87-114).
CancelEndsTheTree ==
  \A t \in Tasks :
    ToolsReturnBelow(t) => ((InProgress(t) /\ ~Live(t)) ~> (call[t] = "returned"))

=============================================================================
