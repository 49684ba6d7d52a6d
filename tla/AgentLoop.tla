------------------------------ MODULE AgentLoop -------------------------------
(***************************************************************************)
(* One run of the agent: Agent.Run, the loop goroutine it starts, and the   *)
(* parties the goroutine talks to.                                          *)
(*                                                                          *)
(*   - the LLM provider, through the stream channel processStream drains;   *)
(*   - the user, through permission.Asker;                                  *)
(*   - the session store, which takes a message and its parts one by one;   *)
(*   - the caller, who receives from the bounded event channel and may      *)
(*     cancel the context at any moment.                                    *)
(*                                                                          *)
(* Text, reasoning and usage carry no control: their events are left out.   *)
(***************************************************************************)
EXTENDS Permission, AgentRun, Sequences, SequencesExt

CONSTANTS
  Requests,     \* the <<tool, input>> pairs the model may ask for
  Patterns,     \* what an "allow always" reply's pattern can match
  HasAsker,     \* whether a PermissionAsker is configured
  Protocol,     \* which provider's parser feeds the stream
  MaxTurns,     \* Config.MaxTurns
  MaxCalls,     \* bound: tool calls started in one response
  MaxFaults     \* bound: store writes that fail while the context is live

ASSUME AgentLoopAssumption ==
  /\ Requests \subseteq Tools \X Inputs
  /\ Patterns \subseteq SUBSET Inputs
  /\ HasAsker \in BOOLEAN
  /\ Protocol \in {"anthropic", "openai", "google"}
  /\ MaxTurns \in Nat /\ MaxCalls \in Nat /\ MaxFaults \in Nat

Call == [id : Nat, tool : Tools, input : Inputs]
Outcomes == {"tool.completed", "tool.error"}
Result == [call : Call, outcome : Outcomes]

\* A message is a user message (the prompt or tool results) or an assistant
\* message (tool uses); text parts are not represented.
Message == [role : {"user", "assistant"}, uses : Seq(Call), results : Seq(Result)]
Prompt == [role |-> "user", uses |-> <<>>, results |-> <<>>]
Assistant(calls) == [role |-> "assistant", uses |-> calls, results |-> <<>>]
Results(parts) == [role |-> "user", uses |-> <<>>, results |-> parts]

CONSTANT NoCall           \* the nil *toolCall of processStream
ASSUME NoCallAssumption == NoCall \notin Call

Decisions == {"allow_once", "allow_always", "deny"}

\* Events of agent/types.go; "reason" is the payload of done.
Event ==
  [type : {"tool.started", "tool.completed", "tool.error", "permission.asked"}, call : Call]
    \cup [type : {"permission.resolved"}, call : Call, decision : Decisions]
    \cup [type : {"done"}, reason : {"completed", "aborted", "max_turns"}]
    \cup [type : {"error"}]

\* The log keeps a message, named by its place in the conversation, and the
\* parts of it that have been written.
Entry == [msg : Nat, parts : SUBSET Nat]

Terminal(e) == e.type \in {"done", "error"}

VARIABLES
  pc,           \* where the goroutine is
  ctx,          \* the run's context: "live" or "cancelled"
  turn,         \* turns completed
  messages,     \* the conversation sent with the next request
  stream,       \* the response: between blocks, in a tool block, or ended
  started,      \* tool calls the response has started
  current,      \* the tool call being streamed
  toolCalls,    \* calls of this response whose block has ended
  parts,        \* results of this turn
  verdict,      \* the decision of the permission prompt in progress
  allowRules,   \* PermissionContext.AllowRules
  reason,       \* why the loop stopped
  events,       \* every event sent on the channel, in order
  received,     \* how many of them the caller has received
  stored,       \* the session log: which message, and which of its parts
  part,         \* the next part of the newest message to be stored
  faults        \* store writes that failed with a live context

vars == <<pc, ctx, turn, messages, stream, started, current, toolCalls, parts, verdict,
          allowRules, reason, events, received, stored, part, faults>>

wireVars == <<stream, started, current, toolCalls>>
chanVars == <<events, received>>
storeVars == <<stored, part, faults>>

\* Mutation: a send that never blocks.
EmitUnbounded(e) ==
  /\ events' = Append(events, e)
  /\ UNCHANGED received

\* A send blocks while the buffer is full, whatever the context says.
Emit(e) ==
  /\ Len(events) - received < EventCap
  /\ events' = Append(events, e)
  /\ UNCHANGED received

Init ==
  /\ pc = "start"
  /\ ctx = "live"
  /\ turn = 0
  /\ messages = <<>>
  /\ stream = "between" /\ started = 0
  /\ current = NoCall
  /\ toolCalls = <<>>
  /\ parts = <<>>
  /\ verdict = "deny"
  /\ allowRules = AllowRules
  /\ reason = "completed"
  /\ events = <<>> /\ received = 0
  /\ stored = <<>> /\ part = 1 /\ faults = 0

-----------------------------------------------------------------------------
(* ensureSession and the first message.                                     *)

EnsureSession ==
  /\ pc = "start"
  /\ messages' = <<Prompt>>
  /\ pc' = "persist"
  /\ UNCHANGED <<ctx, turn, wireVars, parts, verdict, allowRules, reason,
                 chanVars, storeVars>>

\* Mutation: loop returns nil where it should return the error.
NoSessionSilently ==
  /\ pc = "start"
  /\ pc' = "returned"
  /\ UNCHANGED <<ctx, turn, messages, wireVars, parts, verdict, allowRules,
                 reason, chanVars, storeVars>>

\* The session cannot be loaded or created.
NoSession ==
  /\ pc = "start"
  /\ pc' = "fail"
  /\ UNCHANGED <<ctx, turn, messages, wireVars, parts, verdict, allowRules,
                 reason, chanVars, storeVars>>

-----------------------------------------------------------------------------
(* persistProviderMessage.  Every error is dropped by the loop; with a       *)
(* cancelled context every write fails.                                      *)

Newest == messages[Len(messages)]

PartCount(msg) ==
  IF msg.role = "assistant" THEN Len(msg.uses)
  ELSE IF Len(msg.results) = 0 THEN 1 ELSE Len(msg.results)

WriteSucceeds == (ctx = "live") /\ UNCHANGED faults
WriteFails ==
  \/ ctx = "cancelled" /\ UNCHANGED faults
  \/ ctx = "live" /\ faults < MaxFaults /\ faults' = faults + 1

\* Where the loop goes on once the newest message has been offered to the
\* store: the first request, the tool calls, the end, or the next turn.
Proceed ==
  IF Newest.role = "assistant"
  THEN /\ pc' = IF toolCalls = <<>> THEN "finish" ELSE "execute"
       /\ reason' = IF toolCalls = <<>> THEN "completed" ELSE reason
       /\ UNCHANGED turn
  ELSE /\ pc' = "turn"
       /\ turn' = IF Len(messages) = 1 THEN turn ELSE turn + 1
       /\ UNCHANGED reason

AppendMessage ==
  /\ pc = "persist"
  /\ \/ /\ WriteSucceeds
        /\ stored' = Append(stored, [msg |-> Len(messages), parts |-> {}])
        /\ part' = 1
        /\ pc' = "persistParts"
        /\ UNCHANGED <<turn, reason>>
     \/ /\ WriteFails
        /\ Proceed
        /\ UNCHANGED <<stored, part>>
  /\ UNCHANGED <<ctx, messages, wireVars, parts, verdict, allowRules, chanVars>>

AppendPart ==
  /\ pc = "persistParts"
  /\ part <= PartCount(Newest)
  /\ \/ /\ WriteSucceeds
        /\ stored' = [stored EXCEPT ![Len(stored)].parts = @ \cup {part}]
     \/ WriteFails /\ UNCHANGED stored
  /\ part' = part + 1
  /\ UNCHANGED <<pc, ctx, turn, messages, wireVars, parts, verdict, allowRules,
                 reason, chanVars>>

\* Mutation: the loop over the parts stops one early.
PersistedShort ==
  /\ pc = "persistParts"
  /\ part >= PartCount(Newest)
  /\ Proceed
  /\ UNCHANGED <<ctx, messages, wireVars, parts, verdict, allowRules, chanVars,
                 storeVars>>

Persisted ==
  /\ pc = "persistParts"
  /\ part > PartCount(Newest)
  /\ Proceed
  /\ UNCHANGED <<ctx, messages, wireVars, parts, verdict, allowRules, chanVars,
                 storeVars>>

-----------------------------------------------------------------------------
(* A turn: the checks at the loop head, the request, and the response.      *)

BeginTurn ==
  /\ pc = "turn"
  /\ \/ turn >= MaxTurns /\ pc' = "finish" /\ reason' = "max_turns"
     \/ turn < MaxTurns /\ ctx = "cancelled" /\ pc' = "finish" /\ reason' = "aborted"
     \/ turn < MaxTurns /\ ctx = "live" /\ pc' = "request" /\ UNCHANGED reason
  /\ UNCHANGED <<ctx, turn, messages, wireVars, parts, verdict, allowRules,
                 chanVars, storeVars>>

\* provider.Stream returns a channel, or an error.
StreamOpens ==
  /\ pc = "request"
  /\ stream' = "between" /\ started' = 0
  /\ current' = NoCall
  /\ toolCalls' = <<>>
  /\ pc' = "recv"
  /\ UNCHANGED <<ctx, turn, messages, parts, verdict, allowRules, reason,
                 chanVars, storeVars>>

StreamRefused ==
  /\ pc = "request"
  /\ pc' = "fail"
  /\ UNCHANGED <<ctx, turn, messages, wireVars, parts, verdict, allowRules,
                 reason, chanVars, storeVars>>

\* Whether the parser can send the start of a block, or the message's end: the
\* OpenAI parser never sends the end of a block, and goes straight on.
BlockMayStart == stream = "between" \/ (Protocol = "openai" /\ stream = "tool")

\* The model starts a tool call: tool_use_start.
RecvToolStart ==
  /\ pc = "recv"
  /\ BlockMayStart
  /\ started < MaxCalls
  /\ \E r \in Requests :
       LET call == [id |-> started + 1, tool |-> r[1], input |-> r[2]]
       IN  /\ current' = call
           /\ Emit([type |-> "tool.started", call |-> call])
  /\ stream' = "tool" /\ started' = started + 1
  /\ UNCHANGED <<pc, ctx, turn, messages, toolCalls, parts, verdict, allowRules,
                 reason, storeVars>>

\* A content block ends: tool_use_end.  Anthropic's parser also sends it for a
\* text block; the OpenAI parser never sends it.
RecvToolEnd ==
  /\ pc = "recv"
  /\ \/ Protocol # "openai" /\ stream = "tool"
     \/ Protocol = "anthropic" /\ stream = "between"
  /\ toolCalls' = IF current = NoCall THEN toolCalls ELSE Append(toolCalls, current)
  /\ current' = NoCall
  /\ stream' = "between"
  /\ UNCHANGED <<pc, ctx, turn, messages, started, parts, verdict, allowRules, reason,
                 chanVars, storeVars>>

\* message_end: the model has finished its message.
RecvMessageEnd ==
  /\ pc = "recv"
  /\ BlockMayStart
  /\ stream' = "ended"
  /\ UNCHANGED <<pc, ctx, turn, messages, started, current, toolCalls, parts, verdict,
                 allowRules, reason, chanVars, storeVars>>

\* An error event inside the stream: processStream returns at once.  Only
\* Anthropic's parser produces one.
RecvError ==
  /\ pc = "recv"
  /\ Protocol = "anthropic"
  /\ stream # "ended"
  /\ pc' = "fail"
  /\ UNCHANGED <<ctx, turn, messages, wireVars, parts, verdict, allowRules,
                 reason, chanVars, storeVars>>

\* The channel is closed.  The SSE parsers close it on the end of the body,
\* whatever ended it: the last event, a dropped connection, a cancelled
\* context.  Google's response is complete before the channel exists.
RecvClose ==
  /\ pc = "recv"
  /\ Protocol = "google" => stream = "ended"
  /\ messages' = Append(messages, Assistant(toolCalls))
  /\ pc' = "persist"
  /\ UNCHANGED <<ctx, turn, stream, started, current, toolCalls, parts, verdict, allowRules,
                 reason, chanVars, storeVars>>

-----------------------------------------------------------------------------
(* executeToolCalls: one call after another, one result each.               *)

Pending == toolCalls[Len(parts) + 1]

Executing == pc = "execute" /\ Len(parts) < Len(toolCalls)

\* The call's result for the model and its event for the caller.
Answer(outcome) ==
  /\ parts' = Append(parts, [call |-> Pending, outcome |-> outcome])
  /\ Emit([type |-> outcome, call |-> Pending])
  /\ pc' = "execute"

\* Mutation: a rejected call gets its result but the caller is not told.
RejectCallSilently ==
  /\ Executing
  /\ Admission(Pending, allowRules) = "deny"
  /\ parts' = Append(parts, [call |-> Pending, outcome |-> "tool.error"])
  /\ UNCHANGED <<pc, ctx, turn, messages, wireVars, verdict, allowRules, reason,
                 chanVars, storeVars>>

\* Unknown tool, invalid input, or permission denied without a prompt.
RejectCall ==
  /\ Executing
  /\ Admission(Pending, allowRules) = "deny"
  /\ Answer("tool.error")
  /\ UNCHANGED <<ctx, turn, messages, wireVars, verdict, allowRules, reason,
                 storeVars>>

AdmitCall ==
  /\ Executing
  /\ Admission(Pending, allowRules) = "allow"
  /\ pc' = "call"
  /\ UNCHANGED <<ctx, turn, messages, wireVars, parts, verdict, allowRules,
                 reason, chanVars, storeVars>>

\* askPermission: announce the prompt; with no asker it is denied at once.
AskPermission ==
  /\ Executing
  /\ Admission(Pending, allowRules) = "ask"
  /\ Emit([type |-> "permission.asked", call |-> Pending])
  /\ verdict' = "deny"
  /\ pc' = IF HasAsker THEN "ask" ELSE "resolve"
  /\ UNCHANGED <<ctx, turn, messages, wireVars, parts, allowRules, reason,
                 storeVars>>

\* asker.Ask returns a reply; "always" becomes a session rule before the
\* caller is told.
AskReplied ==
  /\ pc = "ask"
  /\ \E decision \in Decisions :
       /\ verdict' = decision
       /\ \/ /\ decision = "allow_always"
             /\ \E pattern \in Patterns :
                  allowRules' = allowRules
                    \cup {[tool |-> Pending.tool, matches |-> pattern]}
          \/ decision # "allow_always" /\ UNCHANGED allowRules
  /\ pc' = "resolve"
  /\ UNCHANGED <<ctx, turn, messages, wireVars, parts, reason, chanVars, storeVars>>

\* Mutation: the error of Ask is returned without resolving the prompt.
AskCancelledSilently ==
  /\ pc = "ask"
  /\ ctx = "cancelled"
  /\ pc' = "denied"
  /\ UNCHANGED <<ctx, turn, messages, wireVars, parts, verdict, allowRules,
                 reason, chanVars, storeVars>>

\* Mutation: Ask waits for the reply alone.
AskStaysBlocked ==
  /\ pc = "ask"
  /\ ctx = "cancelled"
  /\ UNCHANGED vars

\* asker.Ask returns the context's error.
AskCancelled ==
  /\ pc = "ask"
  /\ ctx = "cancelled"
  /\ pc' = "resolve"
  /\ UNCHANGED <<ctx, turn, messages, wireVars, parts, verdict, allowRules,
                 reason, chanVars, storeVars>>

ResolvePermission ==
  /\ pc = "resolve"
  /\ Emit([type |-> "permission.resolved", call |-> Pending, decision |-> verdict])
  /\ pc' = IF verdict = "deny" THEN "denied" ELSE "call"
  /\ UNCHANGED <<ctx, turn, messages, wireVars, parts, verdict, allowRules,
                 reason, storeVars>>

CallDenied ==
  /\ pc = "denied"
  /\ Answer("tool.error")
  /\ UNCHANGED <<ctx, turn, messages, wireVars, verdict, allowRules, reason,
                 storeVars>>

\* tool.Call returns a result or an error.
CallReturns ==
  /\ pc = "call"
  /\ \E outcome \in Outcomes : Answer(outcome)
  /\ UNCHANGED <<ctx, turn, messages, wireVars, verdict, allowRules, reason,
                 storeVars>>

\* Mutation: the loop over the calls breaks off on a cancelled context.
CallsBrokenOff ==
  /\ pc = "execute"
  /\ ctx = "cancelled" \/ Len(parts) = Len(toolCalls)
  /\ messages' = Append(messages, Results(parts))
  /\ parts' = <<>>
  /\ pc' = "persist"
  /\ UNCHANGED <<ctx, turn, wireVars, verdict, allowRules, reason, chanVars,
                 storeVars>>

\* Every call has its result: the results become the next user message.
CallsDone ==
  /\ pc = "execute"
  /\ Len(parts) = Len(toolCalls)
  /\ messages' = Append(messages, Results(parts))
  /\ parts' = <<>>
  /\ pc' = "persist"
  /\ UNCHANGED <<ctx, turn, wireVars, verdict, allowRules, reason, chanVars,
                 storeVars>>

-----------------------------------------------------------------------------
(* The end of the goroutine: one terminal event, then close(ch).            *)

Finish ==
  /\ pc = "finish"
  /\ Emit([type |-> "done", reason |-> reason])
  /\ pc' = "returned"
  /\ UNCHANGED <<ctx, turn, messages, wireVars, parts, verdict, allowRules,
                 reason, storeVars>>

Fail ==
  /\ pc = "fail"
  /\ Emit([type |-> "error"])
  /\ pc' = "returned"
  /\ UNCHANGED <<ctx, turn, messages, wireVars, parts, verdict, allowRules,
                 reason, storeVars>>

Close ==
  /\ pc = "returned"
  /\ pc' = "closed"
  /\ UNCHANGED <<ctx, turn, messages, wireVars, parts, verdict, allowRules,
                 reason, chanVars, storeVars>>

-----------------------------------------------------------------------------
(* The caller.                                                              *)

Receive ==
  /\ received < Len(events)
  /\ received' = received + 1
  /\ UNCHANGED <<pc, ctx, turn, messages, wireVars, parts, verdict, allowRules,
                 reason, events, storeVars>>

Cancel ==
  /\ ctx = "live"
  /\ pc # "closed"
  /\ ctx' = "cancelled"
  /\ UNCHANGED <<pc, turn, messages, wireVars, parts, verdict, allowRules, reason,
                 chanVars, storeVars>>

-----------------------------------------------------------------------------

Persist == AppendMessage \/ AppendPart \/ Persisted

Respond == StreamOpens \/ StreamRefused \/ RecvToolStart \/ RecvToolEnd
             \/ RecvMessageEnd \/ RecvError \/ RecvClose

Execute == RejectCall \/ AdmitCall \/ AskPermission \/ AskReplied \/ AskCancelled
             \/ ResolvePermission \/ CallDenied \/ CallReturns \/ CallsDone

Conclude == Finish \/ Fail \/ Close

\* The run is over and every event has been received.
Terminated == pc = "closed" /\ received = Len(events) /\ UNCHANGED vars

Next == EnsureSession \/ NoSession \/ Persist \/ BeginTurn \/ Respond \/ Execute
          \/ Conclude \/ Receive \/ Cancel \/ Terminated

Spec == Init /\ [][Next]_vars

\* What the scheduler, the store and a live caller owe the run.  A silent
\* model and a user who never answers owe it nothing, until the context is
\* cancelled: then the response's body fails and Ask returns.  A tool owes it
\* nothing even then: one that reads the terminal, or a command whose output
\* a child of its own holds open, does not look at the context.
\* Google's response is in memory by then, and is sent to its end.
Fairness ==
  /\ WF_vars(EnsureSession \/ Persist \/ BeginTurn \/ Conclude)
  /\ WF_vars(RejectCall \/ AdmitCall \/ AskPermission \/ ResolvePermission
               \/ CallDenied \/ CallsDone)
  /\ WF_vars(ctx = "cancelled" /\ (StreamRefused \/ RecvClose \/ AskCancelled))
  /\ WF_vars(Protocol = "google" /\ (RecvToolEnd \/ RecvMessageEnd))
  /\ WF_vars(Receive)

FairSpec == Spec /\ Fairness

-----------------------------------------------------------------------------
(* What a run promises.                                                     *)

Places == {"start", "persist", "persistParts", "turn", "request", "recv", "execute",
           "call", "ask", "resolve", "denied", "finish", "fail", "returned", "closed"}

\* Every variable keeps its type, the counters stay within their bounds and
\* the channel never holds more than its capacity (agent.go, Run and loop).
TypeOK ==
  /\ pc \in Places
  /\ ctx \in {"live", "cancelled"}
  /\ turn \in Nat
  /\ messages \in Seq(Message)
  /\ stream \in {"between", "tool", "ended"} /\ started \in Nat
  /\ current \in Call \cup {NoCall}
  /\ toolCalls \in Seq(Call)
  /\ parts \in Seq(Result)
  /\ verdict \in Decisions
  /\ allowRules \subseteq Rule
  /\ reason \in {"completed", "aborted", "max_turns"}
  /\ events \in Seq(Event)
  /\ received \in Nat
  /\ received <= Len(events) /\ Len(events) - received <= EventCap
  /\ stored \in Seq(Entry)
  /\ part \in Nat
  /\ faults \in 0..MaxFaults

\* The conversation a run sends keeps the API's contract: see ToolDialogue
\* (agent.go:150-202, the appends to messages, and executeToolCalls).
Dialogue == INSTANCE ToolDialogue
              WITH convo <- messages, over <- pc \in {"returned", "closed"}
KeepsDialogue == Dialogue!Spec

\* A terminal event (done or error) is the last event of a run, and no run
\* closes its channel without one, whichever way the loop is left
\* (agent.go:107-116 and the returns of loop).
OneTerminalEvent ==
  /\ \A i \in 1..Len(events) :
       Terminal(events[i]) => i = Len(events) /\ pc \in {"returned", "closed"}
  /\ pc \in {"returned", "closed"} => events # <<>> /\ Terminal(events[Len(events)])

\* What the caller sees of the run keeps to AgentRun: the channel within its
\* capacity, prompts resolved before anything else is sent, one ending, "aborted"
\* only for a cancelled context, the channel closed after it (agent.go:104-116).
Outside ==
  [phase |-> IF pc \in {"ask", "resolve"} THEN "asking"
             ELSE IF pc = "returned" THEN "ended"
             ELSE IF pc = "closed" THEN "closed" ELSE "running",
   held |-> Len(events) - received,
   outcome |-> IF pc \notin {"returned", "closed"} THEN "none"
               ELSE IF events[Len(events)].type = "error" THEN "error"
               ELSE events[Len(events)].reason]

KeepsContract == Outside = Begun /\ [][Step(Outside, Outside', ctx)]_Outside

\* A permission prompt is answered before anything else happens: no other
\* event comes between permission.asked and its permission.resolved, and the
\* channel is not closed in between (agent.go:569-645).
PromptsAreResolved ==
  /\ \A i \in 1..Len(events) : events[i].type = "permission.asked" =>
       IF i = Len(events) THEN pc \in {"ask", "resolve"}
       ELSE events[i + 1].type = "permission.resolved" /\ events[i + 1].call = events[i].call
  /\ \A i \in 1..Len(events) : events[i].type = "permission.resolved" =>
       i > 1 /\ events[i - 1].type = "permission.asked"

Approved(i) ==
  i > 1 /\ events[i - 1].type = "permission.resolved"
        /\ events[i - 1].decision \in {"allow_once", "allow_always"}

\* No tool runs behind the user's back: a completed call was approved at its
\* own prompt, or the configuration or an earlier "always" admits it without
\* one; a tool that changes things under plan or dontAsk, or a call a deny
\* rule names, never completes on the mode alone (agent.go:501-567).
RunsAsPermitted ==
  \A i \in 1..Len(events) : events[i].type = "tool.completed" /\ ~Approved(i) =>
    /\ events[i].call.tool \in Registered
    /\ <<events[i].call.tool, events[i].call.input>> \in Valid
    /\ ~Matched(DenyRules, events[i].call)
    /\ Mode \in {"plan", "dontAsk", "default"} =>
         events[i].call.tool \in ReadOnly \/ Matched(allowRules, events[i].call)

IsOutcome(e) == e.type \in Outcomes

\* The results a caller is told of by the events evs, and those that the
\* messages msgs tell the model.
ResultsTold(evs) ==
  FlattenSeq([i \in DOMAIN evs |->
    IF IsOutcome(evs[i]) THEN <<[call |-> evs[i].call, outcome |-> evs[i].type]>> ELSE <<>>])

ResultsIn(msgs) == FlattenSeq([i \in DOMAIN msgs |-> msgs[i].results])

\* The caller and the model are told the same story: the outcome events, in
\* order, are the results the conversation holds, and nothing else
\* (agent.go:406-490 builds both).
SameStory == ResultsTold(events) = ResultsIn(messages) \o parts

\* The session log is the conversation with gaps, never out of order and
\* never twice; and while no write has failed it has no gap: the request in
\* flight is on disk in full, so a crash loses nothing the model was told
\* (agent.go:134, 178, 201 and persistProviderMessage).
LogFollowsConversation ==
  /\ \A i \in 1..Len(stored) :
       /\ stored[i].msg <= Len(messages)
       /\ i > 1 => stored[i - 1].msg < stored[i].msg
       /\ stored[i].parts \subseteq 1..PartCount(messages[stored[i].msg])
  /\ pc \in {"request", "recv"} /\ faults = 0 /\ ctx = "live" =>
       /\ Len(stored) = Len(messages)
       /\ \A i \in 1..Len(stored) : stored[i].parts = 1..PartCount(messages[i])

\* A call that a deny rule names completes only if its tool asks by itself: no
\* mode, no allow rule and no reply to a prompt lets it through
\* (agent.go:501-567; what of permission.go:9 the code keeps).
DenyRulesBind ==
  \A i \in 1..Len(events) :
    events[i].type = "tool.completed" /\ ToolVerdict[events[i].call.tool] # "ask" =>
      ~Matched(DenyRules, events[i].call)

\* tool.go:31 asks of every tool that it return once its context is cancelled;
\* not all do (question.go:110-132, bash.go:132-141).
ToolsReturn == []<>(pc # "call")

\* Cancelling the context ends the run: the channel is closed and its last
\* event received, as long as the caller keeps receiving and no tool holds the
\* run for ever (agent.go:104-106).
CancelEndsRun ==
  ToolsReturn => ((ctx = "cancelled") ~> (pc = "closed" /\ received = Len(events)))

-----------------------------------------------------------------------------
(* What the documentation says of a run.                                    *)

\* types.go:98: "completed" means the model stopped requesting tools
\* voluntarily, that is, its message reached its end.
CompletedMeansModelStopped ==
  \A i \in 1..Len(events) :
    events[i] = [type |-> "done", reason |-> "completed"] => stream = "ended"

\* permission.go:9: deny rules are hard blocks.
DenyRulesAreHardBlocks ==
  \A i \in 1..Len(events) :
    events[i].type = "tool.completed" => ~Matched(DenyRules, events[i].call)

\* types.go:11-16: tool.started says that a call begins execution; a model
\* message that reached its end leaves no started call without an outcome.
StartedCallsRun ==
  pc = "closed" /\ stream = "ended" =>
    \A i \in 1..Len(events) : events[i].type = "tool.started" =>
      \E j \in i + 1 .. Len(events) : IsOutcome(events[j]) /\ events[j].call = events[i].call
=============================================================================
