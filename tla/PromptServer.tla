----------------------------- MODULE PromptServer ------------------------------
(***************************************************************************)
(* One session of the HTTP server: the prompt requests that run an agent,   *)
(* the table of active runs, the run history, the permission prompts that   *)
(* wait for an answer over HTTP, and the requests that cancel and answer.   *)
(*                                                                          *)
(* Every map of the server is keyed by the session and no operation touches *)
(* two keys, so that one session shows all there is.  Each prompt request   *)
(* has a handler goroutine, an agent goroutine (see AgentRun) and a client, *)
(* who may go away.  Publishing events to subscribers is not part of it.    *)
(***************************************************************************)
EXTENDS AgentRun, Sequences, FiniteSets

CONSTANTS
  Prompts,      \* the POST /session/{id}/prompt requests
  Streaming,    \* those whose response is an event stream
  Replies,      \* the decisions a client sends
  MaxHistory,   \* maxRunHistory (100 in the code)
  MaxAsks       \* bound: permission prompts of one run

ASSUME PromptServerAssumption ==
  /\ IsFiniteSet(Prompts)
  /\ Streaming \subseteq Prompts
  /\ Replies \subseteq {"allow_once", "allow_always", "deny"}
  /\ MaxHistory \in Nat \ {0}
  /\ MaxAsks \in Nat

CONSTANT None             \* no active run
ASSUME NoneAssumption == None \notin Prompts

\* Permission prompts have an identity of their own: a fresh UUID each.
Ids == Prompts \X (1..MaxAsks)

Status == {"completed", "failed", "cancelled"}

VARIABLES
  handler,      \* where each prompt request's handler is
  ctx,          \* the run's context: "live" or "cancelled"
  gone,         \* requests whose client has disconnected
  run,          \* what Agent.Run's caller sees of each run
  agent,        \* the agent goroutine: not there, in its loop, in a tool, or in Ask
  asked,        \* permission prompts each run has opened
  active,       \* s.runs[session]
  cancelling,   \* runs taken from the table by cancelRun, not yet cancelled
  history,      \* s.history[session], newest first
  pending,      \* s.pendingPermission[session]
  taken,        \* the decision a resolve request holds for a prompt it removed
  replied,      \* prompts whose reply channel has been sent to
  got           \* what Ask returned

vars == <<handler, ctx, gone, run, agent, asked, active, cancelling,
          history, pending, taken, replied, got>>

tableVars == <<active, cancelling, history>>
askVars == <<pending, taken, replied, got>>
promptVars == <<agent, asked, askVars>>

Init ==
  /\ handler = [h \in Prompts |-> "idle"]
  /\ ctx = [h \in Prompts |-> "live"]
  /\ gone = {}
  /\ run = [h \in Prompts |-> Begun]
  /\ agent = [h \in Prompts |-> "none"]
  /\ asked = [h \in Prompts |-> 0]
  /\ active = None
  /\ cancelling = {}
  /\ history = <<>>
  /\ pending = {}
  /\ taken = [id \in Ids |-> "none"]
  /\ replied = {}
  /\ got = [id \in Ids |-> "none"]

Current(h) == <<h, asked[h]>>

-----------------------------------------------------------------------------
(* handleSessionPrompt.                                                     *)

\* The request is turned away before a run exists: no session, archived, a
\* bad body, no configuration, no agent.
Refuse(h) ==
  /\ handler[h] = "idle"
  /\ handler' = [handler EXCEPT ![h] = "done"]
  /\ UNCHANGED <<ctx, gone, run, tableVars, promptVars>>

\* registerRun: the run that was active is cancelled, and replaced.
Register(h) ==
  /\ handler[h] = "idle"
  /\ handler' = [handler EXCEPT ![h] = "registered"]
  /\ ctx' = [g \in Prompts |-> IF g = active THEN "cancelled" ELSE ctx[g]]
  /\ active' = h
  /\ UNCHANGED <<gone, run, cancelling, history, promptVars>>

\* Mutation: the history is not cut.
PrependForever(entry) == <<entry>> \o history

Prepend(entry) ==
  LET longer == <<entry>> \o history
  IN  IF Len(longer) > MaxHistory THEN SubSeq(longer, 1, MaxHistory) ELSE longer

\* runner.Run returns its channel: the agent goroutine is under way.
StartRun(h) ==
  /\ handler[h] = "registered"
  /\ handler' = [handler EXCEPT ![h] = "pumping"]
  /\ agent' = [agent EXCEPT ![h] = "loop"]
  /\ UNCHANGED <<ctx, gone, run, tableVars, asked, askVars>>

\* Mutation: the handler does not return after runner.Run's error.
RunRefusedGoesOn(h) ==
  /\ handler[h] = "registered"
  /\ ctx' = [ctx EXCEPT ![h] = "cancelled"]
  /\ history' = Prepend([run |-> h, status |-> "failed"])
  /\ handler' = [handler EXCEPT ![h] = "drained"]
  /\ UNCHANGED <<gone, run, active, cancelling, promptVars>>

\* runner.Run returns an error.
RunRefused(h) ==
  /\ handler[h] = "registered"
  /\ ctx' = [ctx EXCEPT ![h] = "cancelled"]
  /\ history' = Prepend([run |-> h, status |-> "failed"])
  /\ handler' = [handler EXCEPT ![h] = "recorded"]
  /\ UNCHANGED <<gone, run, active, cancelling, promptVars>>

\* The handler receives an event.  Writing it to a client that has gone may
\* fail, and then the handler returns at once.
Pump(h) ==
  /\ handler[h] = "pumping"
  /\ run[h].held > 0 /\ run' = [run EXCEPT ![h] = Taken(@)]
  /\ \/ UNCHANGED handler
     \/ /\ h \in Streaming \cap gone
        /\ handler' = [handler EXCEPT ![h] = "recorded"]
  /\ UNCHANGED <<ctx, gone, tableVars, promptVars>>

\* Mutation: the run leaves the table before it is recorded.
DrainedClears(h) ==
  /\ handler[h] = "pumping"
  /\ run[h].phase = "closed" /\ run[h].held = 0
  /\ handler' = [handler EXCEPT ![h] = "drained"]
  /\ active' = IF active = h THEN None ELSE active
  /\ UNCHANGED <<ctx, gone, run, cancelling, history, promptVars>>

\* The channel is closed and empty: the loop over it ends.
Drained(h) ==
  /\ handler[h] = "pumping"
  /\ run[h].phase = "closed" /\ run[h].held = 0
  /\ handler' = [handler EXCEPT ![h] = "drained"]
  /\ UNCHANGED <<ctx, gone, run, tableVars, promptVars>>

StatusOf(outcome) ==
  IF outcome = "error" THEN "failed"
  ELSE IF outcome = "aborted" THEN "cancelled"
  ELSE "completed"

\* appendRunHistory.
Record(h) ==
  /\ handler[h] = "drained"
  /\ history' = Prepend([run |-> h, status |-> StatusOf(run[h].outcome)])
  /\ handler' = [handler EXCEPT ![h] = "recorded"]
  /\ UNCHANGED <<ctx, gone, run, active, cancelling, promptVars>>

\* Mutation: clearRun does not compare the run's id.
ClearAnyRun(h) ==
  /\ handler[h] = "recorded"
  /\ active' = None
  /\ ctx' = [ctx EXCEPT ![h] = "cancelled"]
  /\ handler' = [handler EXCEPT ![h] = "done"]
  /\ UNCHANGED <<gone, run, cancelling, history, promptVars>>

\* Mutation: clearRun is not deferred.
ForgetRun(h) ==
  /\ handler[h] = "recorded"
  /\ ctx' = [ctx EXCEPT ![h] = "cancelled"]
  /\ handler' = [handler EXCEPT ![h] = "done"]
  /\ UNCHANGED <<gone, run, tableVars, promptVars>>

\* The deferred calls: clearRun removes this run's own entry, then cancel.
ClearRun(h) ==
  /\ handler[h] = "recorded"
  /\ active' = IF active = h THEN None ELSE active
  /\ ctx' = [ctx EXCEPT ![h] = "cancelled"]
  /\ handler' = [handler EXCEPT ![h] = "done"]
  /\ UNCHANGED <<gone, run, cancelling, history, promptVars>>

\* The client disconnects: net/http cancels the request's context, and with it
\* the run's.
ClientGone(h) ==
  /\ h \notin gone /\ handler[h] # "done"
  /\ gone' = gone \cup {h}
  /\ ctx' = [ctx EXCEPT ![h] = "cancelled"]
  /\ UNCHANGED <<handler, run, tableVars, promptVars>>

-----------------------------------------------------------------------------
(* handleSessionCancel: the run is taken from the table under the lock, and *)
(* cancelled after it has been released.                                    *)

TakeActive ==
  /\ active # None
  /\ cancelling' = cancelling \cup {active}
  /\ active' = None
  /\ UNCHANGED <<handler, ctx, gone, run, history, promptVars>>

CancelTaken(h) ==
  /\ h \in cancelling
  /\ ctx' = [ctx EXCEPT ![h] = "cancelled"]
  /\ cancelling' = cancelling \ {h}
  /\ UNCHANGED <<handler, gone, run, active, history, promptVars>>

-----------------------------------------------------------------------------
(* The agent goroutine.                                                     *)


AgentUnchanged == UNCHANGED <<handler, ctx, gone, tableVars>>

\* Any event that is neither a prompt nor the end of the run.
AgentSays(h) ==
  /\ agent[h] = "loop"
  /\ MaySend(run[h], "running") /\ run' = [run EXCEPT ![h] = Sent(@, "running")]
  /\ UNCHANGED promptVars
  /\ AgentUnchanged

AgentAsks(h) ==
  /\ agent[h] = "loop"
  /\ asked[h] < MaxAsks
  /\ MaySend(run[h], "running") /\ run' = [run EXCEPT ![h] = Sent(@, "asking")]
  /\ asked' = [asked EXCEPT ![h] = @ + 1]
  /\ agent' = [agent EXCEPT ![h] = "announced"]
  /\ UNCHANGED askVars
  /\ AgentUnchanged

\* The call of a tool: nothing is sent until it returns.
AgentEntersTool(h) ==
  /\ agent[h] = "loop" /\ run[h].phase = "running"
  /\ agent' = [agent EXCEPT ![h] = "tool"]
  /\ UNCHANGED <<run, asked, askVars>>
  /\ AgentUnchanged

AgentLeavesTool(h) ==
  /\ agent[h] = "tool"
  /\ agent' = [agent EXCEPT ![h] = "loop"]
  /\ UNCHANGED <<run, asked, askVars>>
  /\ AgentUnchanged

AgentResolves(h) ==
  /\ agent[h] = "returned"
  /\ MaySend(run[h], "asking") /\ run' = [run EXCEPT ![h] = Sent(@, "running")]
  /\ agent' = [agent EXCEPT ![h] = "loop"]
  /\ UNCHANGED <<asked, askVars>>
  /\ AgentUnchanged

AgentEnds(h) ==
  /\ agent[h] = "loop"
  /\ MaySend(run[h], "running")
  /\ \E how \in Endings :
       MayEnd(how, ctx[h]) /\ run' = [run EXCEPT ![h] = Ended(@, how)]
  /\ UNCHANGED promptVars
  /\ AgentUnchanged

AgentCloses(h) ==
  /\ agent[h] = "loop"
  /\ run[h].phase = "ended" /\ run' = [run EXCEPT ![h] = Closed(@)]
  /\ UNCHANGED promptVars
  /\ AgentUnchanged

-----------------------------------------------------------------------------
(* serverPermissionAsker.Ask, in the agent goroutine.                       *)

RegisterPending(h) ==
  /\ agent[h] = "announced"
  /\ pending' = pending \cup {Current(h)}
  /\ agent' = [agent EXCEPT ![h] = "waiting"]
  /\ UNCHANGED <<run, asked, taken, replied, got>>
  /\ AgentUnchanged

\* The two branches of Ask's select; either may win when both are ready.
AskGetsReply(h) ==
  /\ agent[h] = "waiting"
  /\ Current(h) \in replied
  /\ got' = [got EXCEPT ![Current(h)] = taken[Current(h)]]
  /\ agent' = [agent EXCEPT ![h] = "returning"]
  /\ UNCHANGED <<run, asked, pending, taken, replied>>
  /\ AgentUnchanged

\* Mutation: Ask ignores its context.
AskNeverGivesUp(h) ==
  /\ agent[h] = "waiting"
  /\ ctx[h] = "cancelled"
  /\ UNCHANGED vars

AskGivesUp(h) ==
  /\ agent[h] = "waiting"
  /\ ctx[h] = "cancelled"
  /\ got' = [got EXCEPT ![Current(h)] = "error"]
  /\ agent' = [agent EXCEPT ![h] = "returning"]
  /\ UNCHANGED <<run, asked, pending, taken, replied>>
  /\ AgentUnchanged

\* The deferred removePendingPermission.
RemovePending(h) ==
  /\ agent[h] = "returning"
  /\ pending' = pending \ {Current(h)}
  /\ agent' = [agent EXCEPT ![h] = "returned"]
  /\ UNCHANGED <<run, asked, taken, replied, got>>
  /\ AgentUnchanged

-----------------------------------------------------------------------------
(* handlePermissionResolve: the prompt is removed under the lock, and its   *)
(* channel sent to after it has been released.                              *)

\* Mutation: the prompt stays in the map while it is answered.
TakeKeepsPending(id) ==
  /\ id \in pending
  /\ \E decision \in Replies : taken' = [taken EXCEPT ![id] = decision]
  /\ UNCHANGED <<run, agent, asked, pending, replied, got>>
  /\ AgentUnchanged

TakePending(id) ==
  /\ id \in pending
  /\ pending' = pending \ {id}
  /\ \E decision \in Replies : taken' = [taken EXCEPT ![id] = decision]
  /\ UNCHANGED <<run, agent, asked, replied, got>>
  /\ AgentUnchanged

\* Mutation: an unbuffered channel drops the reply unless Ask is receiving.
SendOrDrop(id) ==
  /\ taken[id] # "none" /\ id \notin replied
  /\ \/ replied' = replied \cup {id} /\ UNCHANGED taken
     \/ taken' = [taken EXCEPT ![id] = "none"] /\ UNCHANGED replied
  /\ UNCHANGED <<run, agent, asked, pending, got>>
  /\ AgentUnchanged

\* The channel has room for its one reply: the send never takes the default.
SendReply(id) ==
  /\ taken[id] # "none" /\ id \notin replied
  /\ replied' = replied \cup {id}
  /\ UNCHANGED <<run, agent, asked, pending, taken, got>>
  /\ AgentUnchanged

-----------------------------------------------------------------------------

Handle(h) == Refuse(h) \/ Register(h) \/ StartRun(h) \/ RunRefused(h) \/ Pump(h)
               \/ Drained(h) \/ Record(h) \/ ClearRun(h)

Loop(h) == AgentSays(h) \/ AgentEntersTool(h) \/ AgentLeavesTool(h) \/ AgentAsks(h)
             \/ AgentResolves(h) \/ AgentEnds(h) \/ AgentCloses(h)

Ask(h) == RegisterPending(h) \/ AskGetsReply(h) \/ AskGivesUp(h) \/ RemovePending(h)

Next ==
  \/ \E h \in Prompts : Handle(h) \/ Loop(h) \/ Ask(h) \/ ClientGone(h) \/ CancelTaken(h)
  \/ TakeActive
  \/ \E id \in Ids : TakePending(id) \/ SendReply(id)

Spec == Init /\ [][Next]_vars

\* Go schedules every goroutine that can run.  The model, the user and the tools
\* owe nothing, but a cancelled agent that is back in its loop again and again
\* ends: only the calls of its current turn are still to come, as in AgentLoop's
\* CancelEndsRun.
Fairness ==
  /\ \A h \in Prompts :
       /\ WF_vars(StartRun(h) \/ RunRefused(h) \/ Pump(h) \/ Drained(h) \/ Record(h) \/ ClearRun(h))
       /\ WF_vars(Ask(h))
       /\ WF_vars(AgentResolves(h))
       /\ WF_vars(AgentCloses(h))
       /\ SF_vars(ctx[h] = "cancelled" /\ AgentEnds(h))
       /\ WF_vars(CancelTaken(h))
  /\ \A id \in Ids : WF_vars(SendReply(id))

FairSpec == Spec /\ Fairness

-----------------------------------------------------------------------------
(* What the server promises.                                                *)

\* Every variable keeps its type, and the history its length
\* (server.go:41-61, 1132-1144).
TypeOK ==
  /\ handler \in [Prompts -> {"idle", "registered", "pumping", "drained", "recorded", "done"}]
  /\ ctx \in [Prompts -> {"live", "cancelled"}]
  /\ gone \subseteq Prompts
  /\ run \in [Prompts -> Run]
  /\ agent \in [Prompts -> {"none", "loop", "tool", "announced", "waiting", "returning", "returned"}]
  /\ asked \in [Prompts -> 0..MaxAsks]
  /\ active \in Prompts \cup {None}
  /\ cancelling \subseteq Prompts
  /\ history \in Seq([run : Prompts, status : Status]) /\ Len(history) <= MaxHistory
  /\ pending \subseteq Ids
  /\ taken \in [Ids -> Replies \cup {"none"}]
  /\ replied \subseteq Ids
  /\ got \in [Ids -> Replies \cup {"none", "error"}]

Serving(h) == handler[h] \in {"registered", "pumping", "drained"}

\* A run that is going on with a live context can be cancelled: it is the
\* active one, or a cancel request has just taken it.  So at most one run of a
\* session goes on uncancelled, and no run is forgotten by the table while it
\* lasts (server.go:1090-1130, registerRun, clearRun and cancelRun).
LiveRunIsActive ==
  \A h \in Prompts : Serving(h) /\ ctx[h] = "live" => h = active \/ h \in cancelling

\* The table holds no run whose handler has returned
\* (server.go:695 and 1102-1113).
ActiveRunIsServed == active # None => handler[active] \in {"registered", "pumping", "drained", "recorded"}

Listed(h) == h = active \/ \E i \in 1..Len(history) : history[i].run = h

\* A run that GET /session/{id}/runs has shown stays in the listing, as the
\* active run or in the history, unless it was cancelled or replaced, its client
\* has gone, or newer runs fill the history (server.go:775-787 before 695).
StaysListed ==
  [][\A h \in Prompts : Listed(h) /\ ~Listed(h)' =>
       \/ h \in cancelling' \/ active' \notin {h, None} \/ h \in gone
       \/ Len(history) = MaxHistory]_vars

\* A run is recorded at most once, and only when its agent has finished: as
\* failed if it never started or ended in an error, as cancelled only if its
\* context was (server.go:698-713 and 767-787).
HistoryIsTrue ==
  /\ \A i, j \in 1..Len(history) : history[i].run = history[j].run => i = j
  /\ \A i \in 1..Len(history) :
       LET h == history[i].run
       IN  /\ handler[h] \in {"recorded", "done"}
           /\ history[i].status = "failed" <=> agent[h] = "none" \/ run[h].outcome = "error"
           /\ history[i].status = "cancelled" => ctx[h] = "cancelled"
           /\ agent[h] # "none" => run[h].phase = "closed" /\ run[h].held = 0

\* A waiting prompt can be answered: it is listed, or an answer is on its way;
\* and nothing is listed that no agent is waiting for
\* (server.go:1179-1249: Ask, and the two steps of resolvePendingPermission).
PromptsCanBeAnswered ==
  /\ \A h \in Prompts : agent[h] = "waiting" =>
       Current(h) \in pending \/ taken[Current(h)] # "none"
  /\ \A id \in pending :
       agent[id[1]] \in {"waiting", "returning"} /\ id = Current(id[1])

\* What a client was told was resolved is what the agent acted on, unless the
\* run was cancelled meanwhile; and every decision the agent acted on came
\* from one client (server.go:1193-1198 and 1243-1248).
RepliesReachTheAgent ==
  \A id \in Ids :
    /\ id \in replied /\ got[id] # "none" => got[id] = taken[id] \/ ctx[id[1]] = "cancelled"
    /\ got[id] \in Replies => id \in replied /\ got[id] = taken[id]

\* tool.go:31 asks of every tool that it return once its context is cancelled;
\* not all do (question.go:110-132, bash.go:132-141).
ToolsReturn(h) == []<>(agent[h] # "tool")

\* A cancelled prompt request returns: whatever cancelled it, and wherever its
\* agent was, as long as the agent's tools return (server.go:737-765, 1193-1198).
CancelEndsRequest ==
  \A h \in Prompts :
    ToolsReturn(h) => ((Serving(h) /\ ctx[h] = "cancelled") ~> (handler[h] = "done"))

-----------------------------------------------------------------------------
(* What the documentation and the tests say.                                *)

\* agent.go:106: the caller must drain the channel.  Once its handler has
\* returned, a run has been received to its end.
DrainsTheChannel ==
  \A h \in Prompts : handler[h] = "done" /\ agent[h] # "none" =>
    run[h].phase = "closed" /\ run[h].held = 0
=============================================================================
