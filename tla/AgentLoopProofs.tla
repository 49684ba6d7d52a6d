--------------------------- MODULE AgentLoopProofs ----------------------------
(***************************************************************************)
(* Proofs about AgentLoop, for every value of its constants.                *)
(***************************************************************************)
EXTENDS AgentLoop, SequenceTheorems, Flattening, TLAPS

Executes == {"execute", "call", "ask", "resolve", "denied"}
Over == {"returned", "closed"}

\* Where the goroutine is fixes who spoke last, and, while it executes calls,
\* that the newest message asked for exactly those calls.
Position ==
  /\ pc = "start" => messages = <<>>
  /\ pc \notin {"start", "fail"} \cup Over => messages # <<>>
  /\ messages # <<>> /\ Newest.role = "user" => Newest.uses = <<>>
  /\ pc \in {"turn", "request", "recv"} => Newest.role = "user"
  /\ pc \in {"finish", "fail"} \cup Over => messages = <<>> \/ Newest.uses = <<>>
  /\ pc \in {"persist", "persistParts"} /\ Newest.role = "assistant" =>
       Newest.uses = toolCalls
  /\ pc \in Executes =>
       Newest.role = "assistant" /\ Newest.uses = toolCalls /\ toolCalls # <<>>
  /\ pc = "persistParts" => stored # <<>>
  /\ reason = "aborted" => ctx = "cancelled"

\* The results so far answer the first calls, one each and in order.
Progress ==
  /\ pc \notin Executes => parts = <<>>
  /\ pc = "execute" => Len(parts) <= Len(toolCalls)
  /\ pc \in Executes \ {"execute"} => Len(parts) < Len(toolCalls)
  /\ pc \in Executes => \A i \in 1..Len(parts) : parts[i].call = toolCalls[i]

IInv == TypeOK /\ Position /\ Progress

USE DEF Executes, Over

LEMMA InitIInv == Init => IInv
  BY PermissionAssumption, AgentLoopAssumption, AgentRunAssumption
  DEF Init, IInv, TypeOK, Position, Progress, Places, Decisions

\* A step that only moves the goroutine, or the channel, keeps the types.
LEMMA EmitType ==
  ASSUME TypeOK, NEW e \in Event, Emit(e)
  PROVE  /\ events' \in Seq(Event)
         /\ Len(events') = Len(events) + 1
         /\ received' = received
         /\ received' <= Len(events') /\ Len(events') - received' <= EventCap
         /\ \A i \in 1..Len(events) : events'[i] = events[i]
         /\ events'[Len(events) + 1] = e
  BY AgentRunAssumption DEF Emit, TypeOK

\* The newest message is a message.
LEMMA NewestType ==
  ASSUME TypeOK, messages # <<>>
  PROVE  Newest \in Message
  BY DEF TypeOK, Newest

\* Appending a message leaves it the newest one.
LEMMA AppendNewest ==
  ASSUME TypeOK, NEW msg \in Message, messages' = Append(messages, msg)
  PROVE  messages' \in Seq(Message) /\ messages' # <<>> /\ Newest' = msg
  BY SMTT(30), AppendProperties DEF TypeOK, Newest

\* Leaving persistProviderMessage keeps the invariant.
LEMMA ProceedStep ==
  ASSUME IInv, pc \in {"persist", "persistParts"}, Proceed,
         UNCHANGED <<ctx, messages, toolCalls, parts>>
  PROVE  /\ pc' \in {"finish", "execute", "turn"}
         /\ turn' \in Nat
         /\ reason' \in {"completed", "aborted", "max_turns"}
         /\ Position' /\ Progress'
<1> USE DEF IInv, Position, Progress, Newest
<1>0. messages # <<>> /\ parts = <<>> /\ Newest \in Message
  BY NewestType
<1>1. CASE Newest.role = "assistant"
  <2>1. CASE toolCalls = <<>>
    BY <1>0, <1>1, <2>1 DEF Proceed, TypeOK
  <2>2. CASE toolCalls # <<>>
    <3>1. pc' = "execute" /\ UNCHANGED <<turn, reason>>
      BY <1>1, <2>2 DEF Proceed
    <3>2. Len(parts) = 0 /\ Len(parts) <= Len(toolCalls) /\ 1..Len(parts) = {}
      BY <1>0 DEF TypeOK
    <3>3. QED
      BY <1>0, <1>1, <2>2, <3>1, <3>2 DEF TypeOK
  <2>3. QED
    BY <2>1, <2>2
<1>2. CASE Newest.role # "assistant"
  <2>1. Newest.role = "user"
    BY <1>0, <1>2 DEF Message
  <2>2. QED
    BY <1>0, <2>1 DEF Proceed, TypeOK
<1>3. QED
  BY <1>1, <1>2

\* The call being handled is one of the response's calls.
LEMMA PendingType ==
  ASSUME IInv, pc \in Executes, Len(parts) < Len(toolCalls)
  PROVE  Pending \in Call
  BY DEF IInv, TypeOK, Pending

\* Answering a call adds its result and sends its event.
LEMMA AnswerStep ==
  ASSUME IInv, pc \in Executes, Len(parts) < Len(toolCalls),
         NEW outcome \in Outcomes, Answer(outcome),
         UNCHANGED <<ctx, turn, messages, wireVars, verdict, allowRules, reason, storeVars>>
  PROVE  IInv'
<1> USE DEF IInv, wireVars, storeVars
<1>1. Pending \in Call
  BY PendingType
<1>2. [type |-> outcome, call |-> Pending] \in Event
  BY <1>1 DEF Event, Outcomes
<1>3. [call |-> Pending, outcome |-> outcome] \in Result
  BY <1>1 DEF Result
<1>4. TypeOK'
  <2>1. parts' \in Seq(Result)
    BY <1>3 DEF Answer, TypeOK
  <2>2. /\ events' \in Seq(Event) /\ received' \in Nat
        /\ received' <= Len(events') /\ Len(events') - received' <= EventCap
    BY <1>2, EmitType DEF Answer, TypeOK
  <2>3. QED
    BY <2>1, <2>2 DEF Answer, TypeOK, Places
<1>5. Position'
  BY DEF Answer, Position, Newest
<1>6. Progress'
  <2>1. /\ Len(parts') = Len(parts) + 1 /\ Len(parts') <= Len(toolCalls)
        /\ \A i \in 1..Len(parts) : parts'[i] = parts[i]
        /\ parts'[Len(parts) + 1].call = toolCalls[Len(parts) + 1]
    BY DEF Answer, TypeOK, Pending
  <2>2. ASSUME NEW i \in 1..Len(parts') PROVE parts'[i].call = toolCalls[i]
    <3>1. CASE i \in 1..Len(parts)
      BY <2>1, <3>1 DEF Progress
    <3>2. CASE i = Len(parts) + 1
      BY <2>1, <3>2
    <3>3. QED
      BY <2>1, <3>1, <3>2 DEF TypeOK
  <2>3. QED
    BY <2>1, <2>2 DEF Answer, Progress
<1>7. QED
  BY <1>4, <1>5, <1>6

LEMMA StepIInv == ASSUME IInv, [Next]_vars PROVE IInv'
<1> USE DEF IInv, wireVars, chanVars, storeVars
<1>1. CASE EnsureSession
  BY <1>1 DEF EnsureSession, TypeOK, Position, Progress, Places, Message, Prompt, Newest
<1>2. CASE NoSession
  BY <1>2 DEF NoSession, TypeOK, Position, Progress, Places, Newest
<1>3. CASE AppendMessage
  <2>1. messages # <<>> /\ Len(messages) \in Nat
    BY <1>3 DEF AppendMessage, TypeOK, Position
  <2>2. CASE WriteSucceeds /\ pc' = "persistParts"
    <3>1. [msg |-> Len(messages), parts |-> {}] \in Entry
      BY <2>1 DEF Entry
    <3>2. stored' \in Seq(Entry) /\ stored' # <<>>
      <4>1. pc' # "finish" /\ pc' # "execute" /\ pc' # "turn"
        BY <2>2
      <4>2. stored' = Append(stored, [msg |-> Len(messages), parts |-> {}])
        BY <1>3, <4>1 DEF AppendMessage, Proceed
      <4>3. QED
        BY <3>1, <4>2, AppendProperties DEF TypeOK
    <3>3. QED
      <4>1. part' = 1 /\ UNCHANGED <<turn, reason, faults>>
        BY <1>3, <2>2 DEF AppendMessage, Proceed, WriteSucceeds
      <4>2. UNCHANGED <<ctx, messages, wireVars, parts, verdict, allowRules, chanVars>>
        BY <1>3 DEF AppendMessage
      <4>3. pc = "persist"
        BY <1>3 DEF AppendMessage
      <4>4. QED
        BY <2>2, <3>2, <4>1, <4>2, <4>3 DEF TypeOK, Position, Progress, Places, Newest
  <2>3. CASE WriteFails /\ Proceed /\ UNCHANGED <<stored, part, parts>>
    <3>1. faults' \in 0..MaxFaults
      BY <2>3, AgentLoopAssumption DEF WriteFails, TypeOK
    <3>2. QED
      BY <1>3, <2>3, <3>1, ProceedStep DEF AppendMessage, TypeOK, Places
  <2>4. QED
    BY <1>3, <2>2, <2>3 DEF AppendMessage
<1>4. CASE AppendPart
  <2>1. Len(stored) \in 1..Len(stored)
    BY <1>4 DEF AppendPart, TypeOK, Position
  <2>2. stored' \in Seq(Entry) /\ stored' # <<>>
    <3>1. CASE UNCHANGED stored
      BY <1>4, <3>1 DEF AppendPart, TypeOK, Position
    <3>2. CASE stored' = [stored EXCEPT ![Len(stored)].parts = @ \cup {part}]
      <4> DEFINE entry == [stored[Len(stored)] EXCEPT !.parts = @ \cup {part}]
      <4>1. entry \in Entry
        <5>1. stored[Len(stored)] \in Entry
          BY <2>1, ElementOfSeq DEF TypeOK
        <5>2. QED
          BY <5>1 DEF Entry, TypeOK
      <4>2. stored' = [stored EXCEPT ![Len(stored)] = entry]
        BY <3>2
      <4>3. QED
        BY <2>1, <4>1, <4>2, ExceptSeq DEF TypeOK
    <3>3. QED
      BY <1>4, <3>1, <3>2 DEF AppendPart
  <2>3. faults' \in 0..MaxFaults
    BY <1>4, AgentLoopAssumption, SMTT(30) DEF AppendPart, WriteSucceeds, WriteFails, TypeOK
  <2>4. QED
    BY SMTT(30), <1>4, <2>2, <2>3 DEF AppendPart, TypeOK, Position, Progress, Places, Newest
<1>5. CASE Persisted
  BY <1>5, ProceedStep DEF Persisted, TypeOK, Places
<1>6. CASE BeginTurn
  BY <1>6 DEF BeginTurn, TypeOK, Position, Progress, Places, Newest
<1>7. CASE StreamOpens
  BY <1>7 DEF StreamOpens, TypeOK, Position, Progress, Places, Newest
<1>8. CASE StreamRefused
  BY <1>8 DEF StreamRefused, TypeOK, Position, Progress, Places, Newest
<1>9. CASE RecvToolStart
  <2>1. PICK r \in Requests :
          /\ current' = [id |-> started + 1, tool |-> r[1], input |-> r[2]]
          /\ Emit([type |-> "tool.started",
                   call |-> [id |-> started + 1, tool |-> r[1], input |-> r[2]]])
    BY <1>9 DEF RecvToolStart
  <2>2. current' \in Call
    BY <2>1, AgentLoopAssumption DEF Call, TypeOK
  <2>3. [type |-> "tool.started", call |-> current'] \in Event
    BY <2>2 DEF Event
  <2>4. /\ events' \in Seq(Event) /\ received' \in Nat
        /\ received' <= Len(events') /\ Len(events') - received' <= EventCap
    BY <2>1, <2>3, EmitType DEF TypeOK
  <2>5. QED
    BY <1>9, <2>2, <2>4 DEF RecvToolStart, TypeOK, Position, Progress, Places, Newest
<1>10. CASE RecvToolEnd
  BY <1>10 DEF RecvToolEnd, TypeOK, Position, Progress, Places, Newest
<1>11. CASE RecvMessageEnd
  BY <1>11 DEF RecvMessageEnd, TypeOK, Position, Progress, Places, Newest
<1>12. CASE RecvError
  BY <1>12 DEF RecvError, TypeOK, Position, Progress, Places, Newest
<1>13. CASE RecvClose
  <2>1. Assistant(toolCalls) \in Message
    BY DEF Assistant, Message, TypeOK
  <2>2. messages' \in Seq(Message) /\ messages' # <<>> /\ Newest' = Assistant(toolCalls)
    BY <1>13, <2>1, AppendNewest DEF RecvClose
  <2>3. QED
    BY <1>13, <2>2 DEF RecvClose, TypeOK, Position, Progress, Places, Assistant
<1>14. CASE AdmitCall
  BY <1>14 DEF AdmitCall, Executing, TypeOK, Position, Progress, Places, Newest
<1>15. CASE RejectCall
  <2>1. pc \in Executes /\ Len(parts) < Len(toolCalls)
    BY <1>15 DEF RejectCall, Executing, Progress
  <2>2. QED
    BY <1>15, <2>1, AnswerStep DEF RejectCall, Outcomes
<1>16. CASE AskPermission
  <2>1. Pending \in Call
    BY <1>16, PendingType DEF AskPermission, Executing, Progress
  <2>2. [type |-> "permission.asked", call |-> Pending] \in Event
    BY <2>1 DEF Event, TypeOK
  <2>3. /\ events' \in Seq(Event) /\ received' \in Nat
        /\ received' <= Len(events') /\ Len(events') - received' <= EventCap
    BY <1>16, <2>2, EmitType DEF AskPermission, TypeOK
  <2>4. QED
    BY <1>16, <2>3 DEF AskPermission, Executing, TypeOK, Position, Progress, Places, Newest, Decisions
<1>17. CASE AskReplied
  <2>1. Pending \in Call
    BY <1>17, PendingType DEF AskReplied, Progress
  <2>2. verdict' \in Decisions /\ allowRules' \subseteq Rule
    BY <1>17, <2>1, AgentLoopAssumption DEF AskReplied, TypeOK, Rule, Call
  <2>3. QED
    BY <1>17, <2>2 DEF AskReplied, TypeOK, Position, Progress, Places, Newest
<1>18. CASE AskCancelled
  BY <1>18 DEF AskCancelled, TypeOK, Position, Progress, Places, Newest
<1>19. CASE ResolvePermission
  <2>1. Pending \in Call
    BY <1>19, PendingType DEF ResolvePermission, Progress
  <2>2. [type |-> "permission.resolved", call |-> Pending, decision |-> verdict] \in Event
    BY <2>1 DEF Event, TypeOK
  <2>3. /\ events' \in Seq(Event) /\ received' \in Nat
        /\ received' <= Len(events') /\ Len(events') - received' <= EventCap
    BY <1>19, <2>2, EmitType DEF ResolvePermission, TypeOK
  <2>4. QED
    BY <1>19, <2>3 DEF ResolvePermission, TypeOK, Position, Progress, Places, Newest, Decisions
<1>20. CASE CallDenied
  <2>1. pc \in Executes /\ Len(parts) < Len(toolCalls)
    BY <1>20 DEF CallDenied, Executing, Progress
  <2>2. QED
    BY <1>20, <2>1, AnswerStep DEF CallDenied, Outcomes
<1>21. CASE CallReturns
  <2>1. pc \in Executes /\ Len(parts) < Len(toolCalls)
    BY <1>21 DEF CallReturns, Progress
  <2>2. QED
    BY <1>21, <2>1, AnswerStep DEF CallReturns
<1>22. CASE CallsDone
  <2>1. Results(parts) \in Message
    BY DEF Results, Message, TypeOK
  <2>2. messages' \in Seq(Message) /\ messages' # <<>> /\ Newest' = Results(parts)
    BY <1>22, <2>1, AppendNewest DEF CallsDone
  <2>3. QED
    BY <1>22, <2>2 DEF CallsDone, TypeOK, Position, Progress, Places, Results
<1>23. CASE Finish
  <2>1. [type |-> "done", reason |-> reason] \in Event
    BY DEF Event, TypeOK
  <2>2. /\ events' \in Seq(Event) /\ received' \in Nat
        /\ received' <= Len(events') /\ Len(events') - received' <= EventCap
    BY <1>23, <2>1, EmitType DEF Finish, TypeOK
  <2>3. QED
    BY <1>23, <2>2 DEF Finish, TypeOK, Position, Progress, Places, Newest
<1>24. CASE Fail
  <2>1. [type |-> "error"] \in Event
    BY DEF Event, TypeOK
  <2>2. /\ events' \in Seq(Event) /\ received' \in Nat
        /\ received' <= Len(events') /\ Len(events') - received' <= EventCap
    BY <1>24, <2>1, EmitType DEF Fail, TypeOK
  <2>3. QED
    BY <1>24, <2>2 DEF Fail, TypeOK, Position, Progress, Places, Newest
<1>25. CASE Close
  BY <1>25 DEF Close, TypeOK, Position, Progress, Places, Newest
<1>26. CASE Receive
  <2>1. received' \in Nat /\ received' <= Len(events) /\ Len(events) - received' <= EventCap
    BY <1>26, AgentRunAssumption DEF Receive, TypeOK
  <2>2. QED
    BY <1>26, <2>1 DEF Receive, TypeOK, Position, Progress, Places, Newest
<1>27. CASE Cancel
  BY <1>27 DEF Cancel, TypeOK, Position, Progress, Places, Newest
<1>28. CASE UNCHANGED vars
  BY <1>28 DEF vars, TypeOK, Position, Progress, Places, Newest
<1>29. QED
  BY <1>1, <1>2, <1>3, <1>4, <1>5, <1>6, <1>7, <1>8, <1>9, <1>10, <1>11, <1>12, <1>13,
     <1>14, <1>15, <1>16, <1>17, <1>18, <1>19, <1>20, <1>21, <1>22, <1>23, <1>24, <1>25,
     <1>26, <1>27, <1>28
  DEF Next, Persist, Respond, Execute, Conclude, Terminated

\* Every run keeps its types and bounds, and its position: what TypeOK and the
\* two strengthenings say of agent.go's loop holds in every reachable state.
THEOREM Invariant == Spec => []IInv
<1>1. Init => IInv
  BY InitIInv
<1>2. IInv /\ [Next]_vars => IInv'
  BY StepIInv
<1>3. QED
  BY <1>1, <1>2, PTL DEF Spec

\* The type invariant of a run, with the capacity of its event channel
\* (agent.go:107-206).
THEOREM TypeCorrect == Spec => []TypeOK
<1>1. IInv => TypeOK
  BY DEF IInv
<1>2. QED
  BY <1>1, Invariant, PTL

-----------------------------------------------------------------------------
(* One terminal event, and it is the last one.                              *)

\* Sending an event keeps OneTerminalEvent if the goroutine returns exactly
\* when the event is terminal.
LEMMA EmitKeepsTerminal ==
  ASSUME TypeOK, OneTerminalEvent, pc \notin Over, NEW e \in Event, Emit(e),
         Terminal(e) <=> pc' \in Over
  PROVE  OneTerminalEvent'
<1>1. /\ events' \in Seq(Event) /\ Len(events') = Len(events) + 1
      /\ \A i \in 1..Len(events) : events'[i] = events[i]
      /\ events'[Len(events) + 1] = e
  BY EmitType
<1>2. \A i \in 1..Len(events) : ~Terminal(events[i])
  BY DEF OneTerminalEvent
<1>3. \A i \in 1..Len(events) : ~Terminal(events'[i])
  BY <1>1, <1>2
<1>4. events' # <<>>
  BY <1>1 DEF TypeOK
<1>5. Len(events) \in Nat
  BY DEF TypeOK
<1>6. \A i \in 1..Len(events') : Terminal(events'[i]) => i = Len(events') /\ pc' \in Over
  BY <1>1, <1>3, <1>5
<1>7. pc' \in Over => events' # <<>> /\ Terminal(events'[Len(events')])
  BY <1>1, <1>4, <1>5
<1>8. QED
  BY <1>6, <1>7 DEF OneTerminalEvent, Terminal

\* A step that sends nothing keeps it if it neither leaves nor enters the end.
LEMMA QuietKeepsTerminal ==
  ASSUME OneTerminalEvent, UNCHANGED events, pc \in Over <=> pc' \in Over
  PROVE  OneTerminalEvent'
  BY DEF OneTerminalEvent, Terminal

LEMMA StepOneTerminalEvent ==
  ASSUME IInv, OneTerminalEvent, [Next]_vars
  PROVE  OneTerminalEvent'
<1> TypeOK
  BY DEF IInv
<1> USE DEF chanVars
<1>1. CASE EnsureSession \/ NoSession \/ AppendMessage \/ AppendPart \/ Persisted \/ BeginTurn
  <2>1. UNCHANGED events /\ pc \notin Over /\ pc' \notin Over
    BY <1>1 DEF EnsureSession, NoSession, AppendMessage, AppendPart, Persisted, BeginTurn, Proceed
  <2>2. QED
    BY <2>1, QuietKeepsTerminal
<1>2. CASE StreamOpens \/ StreamRefused \/ RecvToolEnd \/ RecvMessageEnd \/ RecvError \/ RecvClose
  <2>1. UNCHANGED events /\ pc \notin Over /\ pc' \notin Over
    BY <1>2 DEF StreamOpens, StreamRefused, RecvToolEnd, RecvMessageEnd, RecvError, RecvClose
  <2>2. QED
    BY <2>1, QuietKeepsTerminal
<1>3. CASE AdmitCall \/ AskReplied \/ AskCancelled \/ CallsDone
  <2>1. UNCHANGED events /\ pc \notin Over /\ pc' \notin Over
    BY <1>3 DEF AdmitCall, Executing, AskReplied, AskCancelled, CallsDone
  <2>2. QED
    BY <2>1, QuietKeepsTerminal
<1>4. CASE Close \/ Receive \/ Cancel \/ UNCHANGED vars
  <2>1. UNCHANGED events /\ (pc \in Over <=> pc' \in Over)
    BY <1>4 DEF Close, Receive, Cancel, vars
  <2>2. QED
    BY <2>1, QuietKeepsTerminal
<1>5. CASE RecvToolStart
  <2>1. PICK r \in Requests :
          Emit([type |-> "tool.started",
                call |-> [id |-> started + 1, tool |-> r[1], input |-> r[2]]])
    BY <1>5 DEF RecvToolStart
  <2>2. [type |-> "tool.started",
         call |-> [id |-> started + 1, tool |-> r[1], input |-> r[2]]] \in Event
    BY <2>1, AgentLoopAssumption DEF Event, Call, TypeOK
  <2>3. pc \notin Over /\ pc' \notin Over
    BY <1>5 DEF RecvToolStart
  <2>4. QED
    BY <2>1, <2>2, <2>3, EmitKeepsTerminal DEF Terminal
<1>6. CASE RejectCall \/ CallDenied \/ CallReturns
  <2>1. PICK outcome \in Outcomes : Answer(outcome)
    BY <1>6 DEF RejectCall, CallDenied, CallReturns, Outcomes
  <2>2. pc \in Executes /\ Len(parts) < Len(toolCalls) /\ pc' \notin Over
    BY <1>6 DEF RejectCall, CallDenied, CallReturns, Answer, Executing, IInv, Progress
  <2>3. [type |-> outcome, call |-> Pending] \in Event
    BY <2>2, PendingType DEF Event, Outcomes
  <2>4. QED
    BY <2>1, <2>2, <2>3, EmitKeepsTerminal DEF Answer, Outcomes, Terminal
<1>7. CASE AskPermission
  <2>1. Emit([type |-> "permission.asked", call |-> Pending])
        /\ pc \in Executes /\ Len(parts) < Len(toolCalls) /\ pc' \notin Over
    BY <1>7 DEF AskPermission, Executing
  <2>2. [type |-> "permission.asked", call |-> Pending] \in Event
    BY <2>1, PendingType DEF Event
  <2>3. QED
    BY <2>1, <2>2, EmitKeepsTerminal DEF Terminal
<1>8. CASE ResolvePermission
  <2>1. Emit([type |-> "permission.resolved", call |-> Pending, decision |-> verdict])
        /\ pc \in Executes /\ Len(parts) < Len(toolCalls) /\ pc' \notin Over
    BY <1>8 DEF ResolvePermission, IInv, Progress
  <2>2. [type |-> "permission.resolved", call |-> Pending, decision |-> verdict] \in Event
    BY <2>1, PendingType DEF Event, TypeOK
  <2>3. QED
    BY <2>1, <2>2, EmitKeepsTerminal DEF Terminal
<1>9. CASE Finish
  <2>1. Emit([type |-> "done", reason |-> reason]) /\ pc \notin Over /\ pc' \in Over
    BY <1>9 DEF Finish
  <2>2. [type |-> "done", reason |-> reason] \in Event
    BY DEF Event, TypeOK
  <2>3. QED
    BY <2>1, <2>2, EmitKeepsTerminal DEF Terminal
<1>10. CASE Fail
  <2>1. Emit([type |-> "error"]) /\ pc \notin Over /\ pc' \in Over
    BY <1>10 DEF Fail
  <2>2. [type |-> "error"] \in Event
    BY DEF Event
  <2>3. QED
    BY <2>1, <2>2, EmitKeepsTerminal DEF Terminal
<1>11. QED
  BY <1>1, <1>2, <1>3, <1>4, <1>5, <1>6, <1>7, <1>8, <1>9, <1>10
  DEF Next, Persist, Respond, Execute, Conclude, Terminated

\* Whichever way the loop is left, its channel carries exactly one terminal
\* event, the last (agent.go:107-116 and the returns of loop).
THEOREM OneTerminal == Spec => []OneTerminalEvent
<1>1. Init => OneTerminalEvent
  BY DEF Init, OneTerminalEvent
<1>2. IInv /\ OneTerminalEvent /\ [Next]_vars => OneTerminalEvent'
  BY StepOneTerminalEvent
<1>3. QED
  BY <1>1, <1>2, Invariant, PTL DEF Spec

-----------------------------------------------------------------------------
(* A run implements ToolDialogue.                                           *)

\* A message appended is what the abstract dialogue calls said.
LEMMA AppendGrows ==
  ASSUME TypeOK, NEW msg \in Message, messages' = Append(messages, msg)
  PROVE  Dialogue!Grows /\ Dialogue!Said = msg
  BY DEF TypeOK, Dialogue!Grows, Dialogue!Said

\* A step that neither speaks nor ends is a stutter.
LEMMA QuietStutters ==
  ASSUME UNCHANGED messages, pc \in Over <=> pc' \in Over
  PROVE  UNCHANGED Dialogue!dialogue
<1>1. (pc \in Over) = (pc' \in Over)
  OBVIOUS
<1>2. QED
  BY <1>1 DEF Dialogue!dialogue

LEMMA StepDialogue ==
  ASSUME IInv, [Next]_vars
  PROVE  [Dialogue!Next]_(Dialogue!dialogue)
<1> TypeOK
  BY DEF IInv
<1>1. CASE EnsureSession
  <2>1. /\ pc \notin Over /\ pc' \notin Over /\ messages = <<>>
        /\ messages' = Append(messages, Prompt)
    BY <1>1 DEF EnsureSession, IInv, Position
  <2>2. Prompt \in Message
    BY DEF Prompt, Message
  <2>3. Dialogue!Grows /\ Dialogue!Said = Prompt
    BY <2>1, <2>2, AppendGrows
  <2>4. Dialogue!Prompts
    BY <2>1, <2>3 DEF Dialogue!Prompts, Dialogue!FromUser, Prompt
  <2>5. QED
    BY <2>4 DEF Dialogue!Next
<1>2. CASE NoSession \/ AppendMessage \/ AppendPart \/ Persisted \/ BeginTurn
  <2>1. UNCHANGED messages /\ pc \notin Over /\ pc' \notin Over
    BY <1>2 DEF NoSession, AppendMessage, AppendPart, Persisted, BeginTurn, Proceed
  <2>2. QED
    BY <2>1, QuietStutters
<1>3. CASE StreamOpens \/ StreamRefused \/ RecvToolStart \/ RecvToolEnd \/ RecvMessageEnd \/ RecvError
  <2>1. UNCHANGED messages /\ pc \notin Over /\ pc' \notin Over
    BY <1>3 DEF StreamOpens, StreamRefused, RecvToolStart, RecvToolEnd, RecvMessageEnd, RecvError
  <2>2. QED
    BY <2>1, QuietStutters
<1>4. CASE RecvClose
  <2>1. /\ pc \notin Over /\ pc' \notin Over /\ messages # <<>> /\ Newest.role = "user"
        /\ messages' = Append(messages, Assistant(toolCalls))
    BY <1>4 DEF RecvClose, IInv, Position
  <2>2. Assistant(toolCalls) \in Message
    BY DEF Assistant, Message, TypeOK
  <2>3. Dialogue!Grows /\ Dialogue!Said = Assistant(toolCalls)
    BY <2>1, <2>2, AppendGrows
  <2>4. Dialogue!ModelSpeaks
    BY <2>1, <2>3 DEF Dialogue!ModelSpeaks, Dialogue!FromModel, Assistant, Newest
  <2>5. QED
    BY <2>4 DEF Dialogue!Next
<1>5. CASE RejectCall \/ AdmitCall \/ AskPermission \/ AskReplied \/ AskCancelled
             \/ ResolvePermission \/ CallDenied \/ CallReturns
  <2>1. UNCHANGED messages /\ pc \notin Over /\ pc' \notin Over
    BY <1>5 DEF RejectCall, AdmitCall, AskPermission, AskReplied, AskCancelled,
       ResolvePermission, CallDenied, CallReturns, Executing, Answer
  <2>2. QED
    BY <2>1, QuietStutters
<1>6. CASE CallsDone
  <2>1. /\ pc \in Executes /\ pc \notin Over /\ pc' \notin Over
        /\ Newest.uses = toolCalls /\ toolCalls # <<>>
        /\ messages # <<>> /\ messages' = Append(messages, Results(parts))
        /\ Len(parts) = Len(toolCalls)
        /\ \A i \in 1..Len(parts) : parts[i].call = toolCalls[i]
    BY <1>6 DEF CallsDone, IInv, Position, Progress
  <2>2. Results(parts) \in Message
    BY DEF Results, Message, TypeOK
  <2>3. Dialogue!Grows /\ Dialogue!Said = Results(parts)
    BY <2>1, <2>2, AppendGrows
  <2>4. Dialogue!Answers(parts, toolCalls)
    BY <2>1 DEF Dialogue!Answers
  <2>5. Dialogue!ToolsAnswer
    BY <2>1, <2>3, <2>4
    DEF Dialogue!ToolsAnswer, Dialogue!Unanswered, Dialogue!FromUser, Results, Newest
  <2>6. QED
    BY <2>5 DEF Dialogue!Next
<1>7. CASE Finish \/ Fail
  <2>1. /\ pc \notin Over /\ pc' \in Over /\ UNCHANGED messages
        /\ messages = <<>> \/ Newest.uses = <<>>
    BY <1>7 DEF Finish, Fail, IInv, Position
  <2>2. Dialogue!Ends
    BY <2>1 DEF Dialogue!Ends, Dialogue!Unanswered, Newest
  <2>3. QED
    BY <2>2 DEF Dialogue!Next
<1>8. CASE Close \/ Receive \/ Cancel \/ UNCHANGED vars
  <2>1. UNCHANGED messages /\ (pc \in Over <=> pc' \in Over)
    BY <1>8 DEF Close, Receive, Cancel, vars
  <2>2. QED
    BY <2>1, QuietStutters
<1>9. QED
  BY <1>1, <1>2, <1>3, <1>4, <1>5, <1>6, <1>7, <1>8
  DEF Next, Persist, Respond, Execute, Conclude, Terminated

\* A run is a dialogue the provider's API accepts, however its response ends,
\* its tools fail, its prompts are answered and its context is cancelled
\* (agent.go:119-206 and executeToolCalls).
THEOREM Refinement == Spec => KeepsDialogue
<1>1. Init => Dialogue!Init
  BY DEF Init, Dialogue!Init
<1>2. IInv /\ [Next]_vars => [Dialogue!Next]_(Dialogue!dialogue)
  BY StepDialogue
<1>3. QED
  BY <1>1, <1>2, Invariant, PTL DEF Spec, KeepsDialogue, Dialogue!Spec

-----------------------------------------------------------------------------
(* Prompts, and what runs because of them.                                  *)

Prompting == {"ask", "resolve"}

\* While a prompt is open its announcement is the newest event, and names the
\* call being handled.
OpenPrompt ==
  pc \in Prompting =>
    events # <<>> /\ events[Len(events)] = [type |-> "permission.asked", call |-> Pending]

\* A call about to run has been approved by the newest event, or admitted.
Cleared == pc = "call" => Approved(Len(events) + 1) \/ Admission(Pending, allowRules) = "allow"

PInv == OpenPrompt /\ PromptsAreResolved /\ Cleared /\ RunsAsPermitted

\* Sending an event that belongs to no prompt.
LEMMA EmitKeepsPrompts ==
  ASSUME TypeOK, PromptsAreResolved, pc \notin Prompting, NEW e \in Event, Emit(e),
         e.type # "permission.resolved",
         e.type = "permission.asked" <=> pc' \in Prompting
  PROVE  PromptsAreResolved'
<1>1. /\ events' \in Seq(Event) /\ Len(events') = Len(events) + 1
      /\ \A i \in 1..Len(events) : events'[i] = events[i]
      /\ events'[Len(events) + 1] = e
  BY EmitType
<1>2. Len(events) \in Nat
  BY DEF TypeOK
<1>3. ASSUME NEW i \in 1..Len(events'), events'[i].type = "permission.asked"
      PROVE  IF i = Len(events') THEN pc' \in Prompting
             ELSE /\ events'[i + 1].type = "permission.resolved"
                  /\ events'[i + 1].call = events'[i].call
  <2>1. CASE i = Len(events')
    BY <1>1, <1>3, <2>1
  <2>2. CASE i # Len(events')
    <3>1. i \in 1..Len(events) /\ events[i].type = "permission.asked"
      BY <1>1, <1>2, <1>3, <2>2
    <3>2. i # Len(events)
      BY <3>1 DEF PromptsAreResolved, Prompting
    <3>3. i + 1 \in 1..Len(events)
      BY <1>2, <3>1, <3>2
    <3>4. QED
      BY <1>1, <2>2, <3>1, <3>2, <3>3 DEF PromptsAreResolved
  <2>3. QED
    BY <2>1, <2>2
<1>4. ASSUME NEW i \in 1..Len(events'), events'[i].type = "permission.resolved"
      PROVE  i > 1 /\ events'[i - 1].type = "permission.asked"
  <2>1. i \in 1..Len(events) /\ events[i].type = "permission.resolved"
    BY <1>1, <1>2, <1>4
  <2>2. i > 1 /\ i - 1 \in 1..Len(events) /\ events[i - 1].type = "permission.asked"
    BY <1>2, <2>1 DEF PromptsAreResolved
  <2>3. QED
    BY <1>1, <2>2
<1>5. QED
  BY <1>3, <1>4 DEF PromptsAreResolved, Prompting

\* Sending the answer to the open prompt.
LEMMA ResolveKeepsPrompts ==
  ASSUME IInv, PInv, ResolvePermission
  PROVE  PromptsAreResolved'
<1> DEFINE e == [type |-> "permission.resolved", call |-> Pending, decision |-> verdict]
<1>1. e \in Event
  BY PendingType DEF ResolvePermission, IInv, TypeOK, Progress, Event
<1>2. /\ events' \in Seq(Event) /\ Len(events') = Len(events) + 1
      /\ \A i \in 1..Len(events) : events'[i] = events[i]
      /\ events'[Len(events) + 1] = e
  BY <1>1, EmitType DEF ResolvePermission, IInv
<1>3. /\ Len(events) \in Nat /\ Len(events) \in 1..Len(events)
      /\ events[Len(events)] = [type |-> "permission.asked", call |-> Pending]
  BY DEF PInv, OpenPrompt, Prompting, ResolvePermission, IInv, TypeOK
<1>4. ASSUME NEW i \in 1..Len(events'), events'[i].type = "permission.asked"
      PROVE  /\ i # Len(events') /\ events'[i + 1].type = "permission.resolved"
             /\ events'[i + 1].call = events'[i].call
  <2>1. i \in 1..Len(events) /\ events[i].type = "permission.asked"
    BY <1>2, <1>3, <1>4
  <2>2. CASE i = Len(events)
    BY <1>2, <1>3, <2>2
  <2>3. CASE i # Len(events)
    <3>1. i + 1 \in 1..Len(events)
      BY <1>3, <2>1, <2>3
    <3>2. QED
      BY <1>2, <1>3, <2>1, <2>3, <3>1 DEF PInv, PromptsAreResolved
  <2>4. QED
    BY <2>2, <2>3
<1>5. ASSUME NEW i \in 1..Len(events'), events'[i].type = "permission.resolved"
      PROVE  i > 1 /\ events'[i - 1].type = "permission.asked"
  <2>1. CASE i = Len(events) + 1
    BY <1>2, <1>3, <2>1
  <2>2. CASE i # Len(events) + 1
    <3>1. i \in 1..Len(events) /\ events[i].type = "permission.resolved"
      BY <1>2, <1>3, <1>5, <2>2
    <3>2. i > 1 /\ i - 1 \in 1..Len(events) /\ events[i - 1].type = "permission.asked"
      BY <1>3, <3>1 DEF PInv, PromptsAreResolved
    <3>3. QED
      BY <1>2, <3>2
  <2>3. QED
    BY <2>1, <2>2
<1>6. QED
  BY <1>4, <1>5 DEF PromptsAreResolved

\* An admitted call is one the rules or the mode let through.
Lawful(call) ==
  /\ call.tool \in Registered
  /\ <<call.tool, call.input>> \in Valid
  /\ ~Matched(DenyRules, call)
  /\ Mode \in {"plan", "dontAsk", "default"} =>
       call.tool \in ReadOnly \/ Matched(allowRules, call)

LEMMA AdmittedIsLawful ==
  ASSUME NEW call, Admission(call, allowRules) = "allow"
  PROVE  Lawful(call)
  BY DEF Admission, CheckToolPermissions, ModeDecision, Lawful

\* Sending an event keeps RunsAsPermitted if the event is no completed call,
\* or is one that was cleared.
LEMMA EmitKeepsPermitted ==
  ASSUME TypeOK, RunsAsPermitted, NEW e \in Event, Emit(e), UNCHANGED allowRules,
         e.type = "tool.completed" => Approved(Len(events) + 1) \/ Lawful(e.call)
  PROVE  RunsAsPermitted'
<1>1. /\ events' \in Seq(Event) /\ Len(events') = Len(events) + 1
      /\ \A i \in 1..Len(events) : events'[i] = events[i]
      /\ events'[Len(events) + 1] = e
  BY EmitType
<1>2. Len(events) \in Nat
  BY DEF TypeOK
<1>3. ASSUME NEW i \in 1..Len(events') PROVE Approved(i)' <=> Approved(i)
  <2>1. i > 1 => i - 1 \in 1..Len(events)
    BY <1>1, <1>2
  <2>2. QED
    BY <1>1, <2>1 DEF Approved
<1>4. ASSUME NEW i \in 1..Len(events'), events'[i].type = "tool.completed", ~Approved(i)
      PROVE  Lawful(events'[i].call)
  <2>1. CASE i = Len(events) + 1
    BY <1>1, <1>4, <2>1
  <2>2. CASE i # Len(events) + 1
    <3>1. i \in 1..Len(events) /\ events'[i] = events[i]
      BY <1>1, <1>2, <2>2
    <3>2. QED
      BY <1>4, <3>1 DEF RunsAsPermitted, Lawful
  <2>3. QED
    BY <2>1, <2>2
<1>5. QED
  BY <1>3, <1>4 DEF RunsAsPermitted, Lawful, Matched

\* A step that sends nothing and does not enter or leave a prompt.
LEMMA QuietKeepsPrompts ==
  ASSUME PInv, UNCHANGED <<events, toolCalls, parts>>, pc \in Prompting <=> pc' \in Prompting,
         allowRules \subseteq allowRules',
         pc' = "call" =>
           (pc = "call" /\ UNCHANGED allowRules) \/ Admission(Pending, allowRules') = "allow"
  PROVE  PInv'
<1>1. OpenPrompt' /\ PromptsAreResolved'
  BY DEF PInv, OpenPrompt, PromptsAreResolved, Prompting, Pending
<1>2. Cleared'
  BY DEF PInv, Cleared, Approved, Admission, CheckToolPermissions, ModeDecision, Pending,
     Matched
<1>3. RunsAsPermitted'
  BY DEF PInv, RunsAsPermitted, Approved, Matched
<1>4. QED
  BY <1>1, <1>2, <1>3 DEF PInv

\* A step that sends an event of another kind, outside any prompt.
LEMMA OtherEvents ==
  ASSUME IInv, PInv, NEW e \in Event, Emit(e), pc \notin Prompting, pc' \notin Prompting,
         pc' # "call", UNCHANGED allowRules,
         e.type \notin {"permission.asked", "permission.resolved"},
         e.type = "tool.completed" => pc = "call" /\ e.call = Pending
  PROVE  PInv'
<1>1. PromptsAreResolved'
  BY EmitKeepsPrompts DEF IInv, PInv
<1>2. e.type = "tool.completed" => Approved(Len(events) + 1) \/ Lawful(e.call)
  BY AdmittedIsLawful DEF PInv, Cleared
<1>3. RunsAsPermitted'
  BY <1>2, EmitKeepsPermitted DEF IInv, PInv
<1>4. QED
  BY <1>1, <1>3 DEF PInv, OpenPrompt, Cleared

LEMMA StepPInv == ASSUME IInv, PInv, [Next]_vars PROVE PInv'
<1> TypeOK
  BY DEF IInv
<1> USE DEF chanVars, wireVars, Prompting
<1>1. CASE EnsureSession \/ NoSession \/ AppendMessage \/ AppendPart \/ Persisted \/ BeginTurn
  <2>1. /\ UNCHANGED <<events, toolCalls, parts, allowRules>>
        /\ pc \notin Prompting /\ pc' \notin Prompting /\ pc' # "call"
    BY <1>1 DEF EnsureSession, NoSession, AppendMessage, AppendPart, Persisted, BeginTurn, Proceed
  <2>2. QED
    BY <2>1, QuietKeepsPrompts
<1>2. CASE StreamOpens \/ StreamRefused \/ RecvToolEnd \/ RecvMessageEnd \/ RecvError
             \/ RecvClose \/ CallsDone
  <2>1. /\ UNCHANGED <<events, allowRules>> /\ pc \notin Prompting /\ pc' \notin Prompting
        /\ pc' # "call"
    BY <1>2 DEF StreamOpens, StreamRefused, RecvToolEnd, RecvMessageEnd, RecvError, RecvClose, CallsDone
  <2>2. QED
    BY <2>1 DEF PInv, OpenPrompt, Cleared, PromptsAreResolved, RunsAsPermitted, Approved, Matched
<1>3. CASE AdmitCall
  <2>1. /\ UNCHANGED <<events, toolCalls, parts, allowRules>>
        /\ pc \notin Prompting /\ pc' \notin Prompting
        /\ Admission(Pending, allowRules') = "allow"
    BY <1>3 DEF AdmitCall, Executing
  <2>2. QED
    BY <2>1, QuietKeepsPrompts
<1>4. CASE AskReplied \/ AskCancelled
  <2>1. /\ UNCHANGED <<events, toolCalls, parts>> /\ allowRules \subseteq allowRules'
        /\ pc \in Prompting /\ pc' \in Prompting /\ pc' # "call"
    BY <1>4 DEF AskReplied, AskCancelled
  <2>2. QED
    BY <2>1, QuietKeepsPrompts
<1>5. CASE Close \/ Receive \/ Cancel \/ UNCHANGED vars
  <2>1. /\ UNCHANGED <<events, toolCalls, parts, allowRules>>
        /\ pc \in Prompting <=> pc' \in Prompting
        /\ pc' = "call" => pc = "call"
    BY <1>5 DEF Close, Receive, Cancel, vars
  <2>2. QED
    BY <2>1, QuietKeepsPrompts
<1>6. CASE RecvToolStart
  <2>1. PICK r \in Requests :
          Emit([type |-> "tool.started",
                call |-> [id |-> started + 1, tool |-> r[1], input |-> r[2]]])
    BY <1>6 DEF RecvToolStart
  <2>2. [type |-> "tool.started",
         call |-> [id |-> started + 1, tool |-> r[1], input |-> r[2]]] \in Event
    BY <2>1, AgentLoopAssumption DEF Event, Call, TypeOK
  <2>3. pc = "recv" /\ pc' = "recv" /\ UNCHANGED allowRules
    BY <1>6 DEF RecvToolStart
  <2>4. QED
    BY <2>1, <2>2, <2>3, OtherEvents
<1>7. CASE RejectCall \/ CallDenied \/ CallReturns
  <2>1. PICK outcome \in Outcomes : Answer(outcome) /\ (outcome = "tool.completed" => pc = "call")
    BY <1>7 DEF RejectCall, CallDenied, CallReturns, Outcomes
  <2>2. /\ pc \in Executes /\ Len(parts) < Len(toolCalls)
        /\ pc \notin Prompting /\ pc' = "execute" /\ UNCHANGED allowRules
    BY <1>7 DEF RejectCall, CallDenied, CallReturns, Answer, Executing, IInv, Progress
  <2>3. [type |-> outcome, call |-> Pending] \in Event
    BY <2>2, PendingType DEF Event, Outcomes
  <2>4. QED
    BY <2>1, <2>2, <2>3, OtherEvents DEF Answer, Outcomes
<1>8. CASE Finish
  <2>1. [type |-> "done", reason |-> reason] \in Event
    BY DEF Event, TypeOK
  <2>2. QED
    BY <1>8, <2>1, OtherEvents DEF Finish
<1>9. CASE Fail
  <2>1. [type |-> "error"] \in Event
    BY DEF Event
  <2>2. QED
    BY <1>9, <2>1, OtherEvents DEF Fail
<1>10. CASE AskPermission
  <2> DEFINE e == [type |-> "permission.asked", call |-> Pending]
  <2>1. /\ Emit(e) /\ pc \in Executes /\ Len(parts) < Len(toolCalls)
        /\ pc \notin Prompting /\ pc' \in Prompting
        /\ UNCHANGED <<toolCalls, parts, allowRules>>
    BY <1>10 DEF AskPermission, Executing
  <2>2. e \in Event
    BY <2>1, PendingType DEF Event
  <2>3. PromptsAreResolved'
    BY <2>1, <2>2, EmitKeepsPrompts DEF PInv
  <2>4. RunsAsPermitted'
    BY <2>1, <2>2, EmitKeepsPermitted DEF PInv
  <2>5. Len(events') = Len(events) + 1 /\ events'[Len(events) + 1] = e /\ events' \in Seq(Event)
    BY <2>1, <2>2, EmitType
  <2>6. OpenPrompt'
    BY <2>1, <2>5 DEF OpenPrompt, Pending, TypeOK
  <2>7. QED
    BY <2>1, <2>3, <2>4, <2>6 DEF PInv, Cleared
<1>11. CASE ResolvePermission
  <2> DEFINE e == [type |-> "permission.resolved", call |-> Pending, decision |-> verdict]
  <2>1. /\ Emit(e) /\ pc \in Executes /\ Len(parts) < Len(toolCalls)
        /\ pc' \notin Prompting /\ UNCHANGED <<toolCalls, parts, allowRules>>
        /\ pc' = "call" => verdict # "deny"
    BY <1>11 DEF ResolvePermission, IInv, Progress
  <2>2. e \in Event
    BY <2>1, PendingType DEF Event, TypeOK
  <2>3. PromptsAreResolved'
    BY <1>11, ResolveKeepsPrompts
  <2>4. RunsAsPermitted'
    BY <2>1, <2>2, EmitKeepsPermitted DEF PInv
  <2>5. Len(events') = Len(events) + 1 /\ events'[Len(events) + 1] = e /\ Len(events) \in Nat
    BY <2>1, <2>2, EmitType DEF TypeOK
  <2>6. Len(events) > 0
    BY <1>11 DEF PInv, OpenPrompt, ResolvePermission, TypeOK
  <2>7. Cleared'
    BY <2>1, <2>5, <2>6 DEF Cleared, Approved, TypeOK, Decisions
  <2>8. QED
    BY <2>1, <2>3, <2>4, <2>7 DEF PInv, OpenPrompt
<1>12. QED
  BY <1>1, <1>2, <1>3, <1>4, <1>5, <1>6, <1>7, <1>8, <1>9, <1>10, <1>11
  DEF Next, Persist, Respond, Execute, Conclude, Terminated

LEMMA AlwaysPInv == Spec => []PInv
<1>1. Init => PInv
  BY DEF Init, PInv, OpenPrompt, PromptsAreResolved, Cleared, RunsAsPermitted, Prompting
<1>2. IInv /\ PInv /\ [Next]_vars => PInv'
  BY StepPInv
<1>3. QED
  BY <1>1, <1>2, Invariant, PTL DEF Spec

\* Every prompt that is announced is answered by the very next event, whether
\* the user replies, nobody can be asked, or the context is cancelled
\* (agent.go:569-645).
THEOREM PromptsResolved == Spec => []PromptsAreResolved
<1>1. PInv => PromptsAreResolved
  BY DEF PInv
<1>2. QED
  BY <1>1, AlwaysPInv, PTL

\* No tool completes unless its own prompt was approved or the rules and the
\* mode admit the call (agent.go:406-567).
THEOREM Permitted == Spec => []RunsAsPermitted
<1>1. PInv => RunsAsPermitted
  BY DEF PInv
<1>2. QED
  BY <1>1, AlwaysPInv, PTL

\* What is left of the deny rules as hard blocks: a tool that asks by itself gets
\* past them, and no other.
Blocked(call) == ToolVerdict[call.tool] # "ask" /\ Matched(DenyRules, call)

Admitted == {"ask", "resolve", "call"}

BlockInv ==
  /\ pc \in Admitted => ~Blocked(Pending)
  /\ \A i \in 1..Len(events) : events[i].type = "tool.completed" => ~Blocked(events[i].call)

\* Whatever the allow rules and the mode.
LEMMA BlockedIsDenied ==
  ASSUME NEW call \in Call, NEW rules, Blocked(call) PROVE Admission(call, rules) = "deny"
<1>1. ToolVerdict[call.tool] \in {"allow", "deny"}
  BY PermissionAssumption DEF Call, Blocked
<1>2. QED
  BY <1>1 DEF Admission, CheckToolPermissions, Blocked

\* A step keeps to the blocks if whatever it admits, or has completed, is none.
LEMMA StepKeepsBlocks ==
  ASSUME TypeOK, BlockInv,
         \/ UNCHANGED events
         \/ \E e \in Event : Emit(e) /\ (e.type = "tool.completed" => ~Blocked(e.call)),
         pc' \in Admitted => UNCHANGED <<toolCalls, parts>> /\ (pc \in Admitted \/ ~Blocked(Pending))
  PROVE  BlockInv'
<1>1. ASSUME pc' \in Admitted PROVE ~Blocked(Pending')
  BY <1>1 DEF BlockInv, Pending
<1>2. ASSUME NEW i \in 1..Len(events'), events'[i].type = "tool.completed"
      PROVE  ~Blocked(events'[i].call)
  <2>1. CASE UNCHANGED events
    BY <1>2, <2>1 DEF BlockInv
  <2>2. ASSUME NEW e \in Event, Emit(e), e.type = "tool.completed" => ~Blocked(e.call)
        PROVE  ~Blocked(events'[i].call)
    <3>1. /\ Len(events') = Len(events) + 1 /\ \A j \in 1..Len(events) : events'[j] = events[j]
          /\ events'[Len(events) + 1] = e /\ Len(events) \in Nat
      BY <2>2, EmitType DEF TypeOK
    <3>2. i \in 1..Len(events) \/ i = Len(events) + 1
      BY <3>1
    <3>3. QED
      BY <1>2, <2>2, <3>1, <3>2 DEF BlockInv
  <2>3. QED
    BY <2>1, <2>2
<1>3. QED
  BY <1>1, <1>2 DEF BlockInv, Blocked, Matched

LEMMA StepBlockInv == ASSUME IInv, BlockInv, [Next]_vars PROVE BlockInv'
<1> TypeOK
  BY DEF IInv
<1> USE DEF chanVars, wireVars
<1>1. CASE EnsureSession \/ NoSession \/ Persist \/ BeginTurn
  <2>1. UNCHANGED events /\ pc' \notin Admitted
    BY <1>1 DEF EnsureSession, NoSession, Persist, AppendMessage, AppendPart, Persisted, BeginTurn,
                Proceed, Admitted
  <2>2. QED
    BY <2>1, StepKeepsBlocks
<1>2. CASE StreamOpens \/ StreamRefused \/ RecvToolEnd \/ RecvMessageEnd \/ RecvError
             \/ RecvClose \/ CallsDone
  <2>1. UNCHANGED events /\ pc' \notin Admitted
    BY <1>2 DEF StreamOpens, StreamRefused, RecvToolEnd, RecvMessageEnd, RecvError, RecvClose,
                CallsDone, Admitted
  <2>2. QED
    BY <2>1, StepKeepsBlocks
<1>3. CASE RecvToolStart
  <2>1. PICK r \in Requests :
          Emit([type |-> "tool.started",
                call |-> [id |-> started + 1, tool |-> r[1], input |-> r[2]]])
    BY <1>3 DEF RecvToolStart
  <2>2. [type |-> "tool.started",
         call |-> [id |-> started + 1, tool |-> r[1], input |-> r[2]]] \in Event
    BY <2>1, AgentLoopAssumption DEF Event, Call, TypeOK
  <2>3. pc' \notin Admitted
    BY <1>3 DEF RecvToolStart, Admitted
  <2>4. QED
    BY <2>1, <2>2, <2>3, StepKeepsBlocks
<1>4. CASE AdmitCall \/ AskPermission
  <2>1. /\ pc \in Executes /\ Len(parts) < Len(toolCalls) /\ UNCHANGED <<toolCalls, parts>>
        /\ Admission(Pending, allowRules) # "deny"
        /\ UNCHANGED events \/ Emit([type |-> "permission.asked", call |-> Pending])
    BY <1>4 DEF AdmitCall, AskPermission, Executing, Executes
  <2>2. Pending \in Call
    BY <2>1, PendingType
  <2>3. ~Blocked(Pending)
    BY <2>1, <2>2, BlockedIsDenied
  <2>4. [type |-> "permission.asked", call |-> Pending] \in Event
    BY <2>2 DEF Event
  <2>5. QED
    BY <2>1, <2>3, <2>4, StepKeepsBlocks
<1>5. CASE AskReplied \/ AskCancelled
  <2>1. UNCHANGED <<events, toolCalls, parts>> /\ pc \in Admitted
    BY <1>5 DEF AskReplied, AskCancelled, Admitted
  <2>2. QED
    BY <2>1, StepKeepsBlocks
<1>6. CASE ResolvePermission
  <2> DEFINE e == [type |-> "permission.resolved", call |-> Pending, decision |-> verdict]
  <2>1. /\ pc \in Admitted /\ Emit(e) /\ UNCHANGED <<toolCalls, parts>>
        /\ pc \in Executes /\ Len(parts) < Len(toolCalls)
    BY <1>6 DEF ResolvePermission, Admitted, IInv, Progress, Executes
  <2>2. e \in Event
    BY <2>1, PendingType DEF Event, TypeOK
  <2>3. e.type # "tool.completed"
    OBVIOUS
  <2> HIDE DEF e
  <2>4. QED
    BY <2>1, <2>2, <2>3, StepKeepsBlocks
<1>7. CASE RejectCall \/ CallDenied \/ CallReturns
  <2>1. PICK outcome \in Outcomes : Answer(outcome) /\ (outcome = "tool.completed" => pc = "call")
    BY <1>7 DEF RejectCall, CallDenied, CallReturns, Outcomes
  <2> DEFINE e == [type |-> outcome, call |-> Pending]
  <2>2. pc \in Executes /\ Len(parts) < Len(toolCalls)
    BY <1>7 DEF RejectCall, CallDenied, CallReturns, Executing, Executes, IInv, Progress
  <2>3. e \in Event /\ e.type = outcome /\ e.call = Pending
    BY <2>2, PendingType DEF Event, Outcomes
  <2>4. Emit(e) /\ pc' \notin Admitted
    BY <2>1 DEF Answer, Admitted
  <2> HIDE DEF e
  <2>5. e.type = "tool.completed" => ~Blocked(e.call)
    BY <2>1, <2>3 DEF BlockInv, Admitted
  <2>6. QED
    BY <2>3, <2>4, <2>5, StepKeepsBlocks
<1>8. CASE Finish \/ Fail
  <2>1. [type |-> "done", reason |-> reason] \in Event /\ [type |-> "error"] \in Event
    BY DEF Event, TypeOK
  <2>2. /\ Emit([type |-> "done", reason |-> reason]) \/ Emit([type |-> "error"])
        /\ pc' \notin Admitted
    BY <1>8 DEF Finish, Fail, Admitted
  <2>3. QED
    BY <2>1, <2>2, StepKeepsBlocks
<1>9. CASE Close \/ Receive \/ Cancel \/ UNCHANGED vars
  <2>1. UNCHANGED <<events, toolCalls, parts>> /\ (pc' = pc \/ pc' \notin Admitted)
    BY <1>9 DEF Close, Receive, Cancel, vars, Admitted
  <2>2. QED
    BY <2>1, StepKeepsBlocks
<1>10. QED
  BY <1>1, <1>2, <1>3, <1>4, <1>5, <1>6, <1>7, <1>8, <1>9
  DEF Next, Respond, Execute, Conclude, Terminated

\* A call that a deny rule names never completes unless its tool asks by itself
\* (CheckToolPermissions looks at the tool's own verdict first): not under any
\* mode, by any allow rule, nor by a reply to a prompt (agent.go:501-567).
THEOREM DenyBinds == Spec => []DenyRulesBind
<1>1. Init => BlockInv
  BY DEF Init, BlockInv, Admitted
<1>2. IInv /\ BlockInv /\ [Next]_vars => BlockInv'
  BY StepBlockInv
<1>3. BlockInv => DenyRulesBind
  BY DEF BlockInv, Blocked, DenyRulesBind
<1>4. QED
  BY <1>1, <1>2, <1>3, Invariant, PTL DEF Spec

-----------------------------------------------------------------------------
(* What the caller sees of a run implements AgentRun.                       *)

\* The three parts of the view.
SeenPhase == IF pc \in {"ask", "resolve"} THEN "asking"
             ELSE IF pc = "returned" THEN "ended"
             ELSE IF pc = "closed" THEN "closed" ELSE "running"
SeenOutcome == IF pc \notin {"returned", "closed"} THEN "none"
               ELSE IF events[Len(events)].type = "error" THEN "error"
               ELSE events[Len(events)].reason

View(phase, held, outcome) == [phase |-> phase, held |-> held, outcome |-> outcome]

LEMMA OutsideView ==
  /\ Outside = View(SeenPhase, Len(events) - received, SeenOutcome)
  /\ Outside' = View(SeenPhase', Len(events') - received', SeenOutcome')
  BY DEF Outside, View, SeenPhase, SeenOutcome

\* What the operators of AgentRun make of a view.
LEMMA ViewSteps ==
  ASSUME NEW phase, NEW held, NEW outcome, NEW to, NEW how
  PROVE  /\ View(phase, held, outcome).phase = phase
         /\ View(phase, held, outcome).held = held
         /\ Sent(View(phase, held, outcome), to) = View(to, held + 1, outcome)
         /\ Ended(View(phase, held, outcome), how) = View("ended", held + 1, how)
         /\ Closed(View(phase, held, outcome)) = View("closed", held, outcome)
         /\ Taken(View(phase, held, outcome)) = View(phase, held - 1, outcome)
  BY DEF View, Sent, Ended, Closed, Taken

\* A step that changes none of the parts.
LEMMA QuietView ==
  ASSUME UNCHANGED <<events, received>>, SeenPhase' = SeenPhase, SeenOutcome' = SeenOutcome
  PROVE  Outside' = Outside
  BY OutsideView

\* An event sent by a goroutine that goes on.
LEMMA EventInView ==
  ASSUME TypeOK, NEW e \in Event, Emit(e), pc \notin Over, pc' \notin Over,
         SeenPhase = "asking" => SeenPhase' = "running"
  PROVE  Step(Outside, Outside', ctx)
<1>1. /\ Len(events) - received < EventCap
      /\ Len(events') - received' = (Len(events) - received) + 1
  BY EmitType DEF Emit, TypeOK
<1>2. SeenOutcome = "none" /\ SeenOutcome' = "none"
  BY DEF SeenOutcome
<1>3. SeenPhase \in {"running", "asking"} /\ SeenPhase' \in {"running", "asking"}
  BY DEF SeenPhase
<1>4. Outside = View(SeenPhase, Len(events) - received, "none")
  BY <1>2, OutsideView
<1>5. Outside' = View(SeenPhase', (Len(events) - received) + 1, "none")
  BY <1>1, <1>2, OutsideView
<1>6. MaySend(Outside, SeenPhase) /\ Outside' = Sent(Outside, SeenPhase')
  BY <1>1, <1>4, <1>5, ViewSteps DEF MaySend
<1>7. QED
  BY <1>3, <1>6 DEF Step

\* The terminal event.
LEMMA EndInView ==
  ASSUME IInv, Finish \/ Fail
  PROVE  Step(Outside, Outside', ctx)
<1> TypeOK
  BY DEF IInv
<1> DEFINE e == IF pc = "fail" THEN [type |-> "error"] ELSE [type |-> "done", reason |-> reason]
           how == IF pc = "fail" THEN "error" ELSE reason
<1>1. e \in Event /\ Emit(e) /\ pc \in {"finish", "fail"} /\ pc' = "returned"
  BY DEF Finish, Fail, Event, TypeOK
<1>2. /\ Len(events) - received < EventCap
      /\ Len(events') - received' = (Len(events) - received) + 1
      /\ events'[Len(events')] = e
  BY <1>1, EmitType DEF Emit, TypeOK
<1>3. SeenOutcome' = how
  BY <1>1, <1>2 DEF SeenOutcome
<1>4. SeenPhase = "running" /\ SeenOutcome = "none" /\ SeenPhase' = "ended"
  BY <1>1 DEF SeenPhase, SeenOutcome
<1>5. Outside = View("running", Len(events) - received, "none")
  BY <1>4, OutsideView
<1>6. Outside' = View("ended", (Len(events) - received) + 1, how)
  BY <1>2, <1>3, <1>4, OutsideView
<1>7. MaySend(Outside, "running") /\ Outside' = Ended(Outside, how)
  BY <1>2, <1>5, <1>6 DEF MaySend, View, Ended
<1>8. how \in Endings /\ MayEnd(how, ctx)
  BY DEF Endings, MayEnd, IInv, Position, TypeOK
<1>9. QED
  BY <1>7, <1>8 DEF Step

LEMMA StepContract ==
  ASSUME IInv, [Next]_vars
  PROVE  [Step(Outside, Outside', ctx)]_Outside
<1> TypeOK
  BY DEF IInv
<1> USE DEF chanVars
<1>1. CASE EnsureSession \/ NoSession \/ AppendMessage \/ AppendPart \/ Persisted \/ BeginTurn
  <2>1. UNCHANGED <<events, received>> /\ SeenPhase' = SeenPhase /\ SeenOutcome' = SeenOutcome
    BY <1>1 DEF EnsureSession, NoSession, AppendMessage, AppendPart, Persisted, BeginTurn,
       Proceed, SeenPhase, SeenOutcome
  <2>2. QED
    BY <2>1, QuietView
<1>2. CASE StreamOpens \/ StreamRefused \/ RecvToolEnd \/ RecvMessageEnd \/ RecvError
             \/ RecvClose \/ CallsDone
  <2>1. UNCHANGED <<events, received>> /\ SeenPhase' = SeenPhase /\ SeenOutcome' = SeenOutcome
    BY <1>2 DEF StreamOpens, StreamRefused, RecvToolEnd, RecvMessageEnd, RecvError,
       RecvClose, CallsDone, SeenPhase, SeenOutcome
  <2>2. QED
    BY <2>1, QuietView
<1>3. CASE AdmitCall \/ AskReplied \/ AskCancelled \/ Cancel \/ UNCHANGED vars
  <2>1. UNCHANGED <<events, received>> /\ SeenPhase' = SeenPhase /\ SeenOutcome' = SeenOutcome
    BY <1>3 DEF AdmitCall, Executing, AskReplied, AskCancelled, Cancel, vars, SeenPhase, SeenOutcome
  <2>2. QED
    BY <2>1, QuietView
<1>4. CASE RecvToolStart
  <2>1. PICK r \in Requests :
          Emit([type |-> "tool.started",
                call |-> [id |-> started + 1, tool |-> r[1], input |-> r[2]]])
    BY <1>4 DEF RecvToolStart
  <2>2. [type |-> "tool.started",
         call |-> [id |-> started + 1, tool |-> r[1], input |-> r[2]]] \in Event
    BY <2>1, AgentLoopAssumption DEF Event, Call, TypeOK
  <2>3. pc \notin Over /\ pc' \notin Over /\ SeenPhase = "running"
    BY <1>4 DEF RecvToolStart, SeenPhase
  <2>4. QED
    BY <2>1, <2>2, <2>3, EventInView
<1>5. CASE RejectCall \/ CallDenied \/ CallReturns
  <2>1. PICK outcome \in Outcomes : Answer(outcome)
    BY <1>5 DEF RejectCall, CallDenied, CallReturns, Outcomes
  <2>2. /\ pc \in Executes /\ Len(parts) < Len(toolCalls) /\ pc' \notin Over
        /\ SeenPhase = "running"
    BY <1>5 DEF RejectCall, CallDenied, CallReturns, Answer, Executing, IInv, Progress, SeenPhase
  <2>3. [type |-> outcome, call |-> Pending] \in Event
    BY <2>2, PendingType DEF Event, Outcomes
  <2>4. QED
    BY <2>1, <2>2, <2>3, EventInView DEF Answer
<1>6. CASE AskPermission
  <2>1. Emit([type |-> "permission.asked", call |-> Pending])
        /\ pc \in Executes /\ Len(parts) < Len(toolCalls) /\ pc' \notin Over
        /\ SeenPhase = "running"
    BY <1>6 DEF AskPermission, Executing, SeenPhase
  <2>2. [type |-> "permission.asked", call |-> Pending] \in Event
    BY <2>1, PendingType DEF Event
  <2>3. QED
    BY <2>1, <2>2, EventInView
<1>7. CASE ResolvePermission
  <2>1. Emit([type |-> "permission.resolved", call |-> Pending, decision |-> verdict])
        /\ pc \in Executes /\ Len(parts) < Len(toolCalls) /\ pc' \notin Over
        /\ SeenPhase' = "running"
    BY <1>7 DEF ResolvePermission, IInv, Progress, SeenPhase
  <2>2. [type |-> "permission.resolved", call |-> Pending, decision |-> verdict] \in Event
    BY <2>1, PendingType DEF Event, TypeOK
  <2>3. QED
    BY <2>1, <2>2, EventInView
<1>8. CASE Finish \/ Fail
  BY <1>8, EndInView
<1>9. CASE Close
  <2>1. /\ SeenPhase = "ended" /\ SeenPhase' = "closed" /\ SeenOutcome' = SeenOutcome
        /\ UNCHANGED <<events, received>>
    BY <1>9 DEF Close, SeenPhase, SeenOutcome
  <2>2. Outside.phase = "ended" /\ Outside' = Closed(Outside)
    BY <2>1, OutsideView, ViewSteps
  <2>3. QED
    BY <2>2 DEF Step
<1>10. CASE Receive
  <2>1. /\ SeenPhase' = SeenPhase /\ SeenOutcome' = SeenOutcome
        /\ Len(events) - received > 0
        /\ Len(events') - received' = (Len(events) - received) - 1
    BY <1>10 DEF Receive, SeenPhase, SeenOutcome, TypeOK
  <2>2. Outside.held > 0 /\ Outside' = Taken(Outside)
    BY <2>1, OutsideView, ViewSteps
  <2>3. QED
    BY <2>2 DEF Step
<1>11. QED
  BY <1>1, <1>2, <1>3, <1>4, <1>5, <1>6, <1>7, <1>8, <1>9, <1>10
  DEF Next, Persist, Respond, Execute, Conclude, Terminated

\* The contract PromptServer relies on holds of every run (agent.go:104-206).
THEOREM Contract == Spec => KeepsContract
<1>1. Init => Outside = Begun
  BY DEF Init, Outside, Begun
<1>2. IInv /\ [Next]_vars => [Step(Outside, Outside', ctx)]_Outside
  BY StepContract
<1>3. QED
  BY <1>1, <1>2, Invariant, PTL DEF Spec, KeepsContract

-----------------------------------------------------------------------------
(* The session log.                                                         *)

\* Every entry is a message of the conversation, later ones for later messages,
\* with parts that the message has.
InOrder ==
  /\ \A i \in 1..Len(stored) :
       /\ stored[i].msg \in 1..Len(messages)
       /\ stored[i].parts \subseteq 1..PartCount(messages[stored[i].msg])
  /\ \A i, j \in 1..Len(stored) : i < j => stored[i].msg < stored[j].msg

\* The newest message is entered after it was appended, and its parts after that.
AtHand ==
  /\ pc = "persist" => \A i \in 1..Len(stored) : stored[i].msg < Len(messages)
  /\ pc = "persistParts" =>
       /\ stored[Len(stored)].msg = Len(messages)
       /\ part \in 1..(PartCount(Newest) + 1)

\* How many messages are in the log for good, while no write has failed.
Whole == IF pc \in {"persist", "persistParts"} THEN Len(messages) - 1 ELSE Len(messages)

NoGap ==
  faults = 0 /\ ctx = "live" =>
    /\ Len(stored) = IF pc = "persist" THEN Len(messages) - 1 ELSE Len(messages)
    /\ \A i \in 1..Whole : stored[i].parts = 1..PartCount(messages[i])
    /\ pc = "persistParts" => stored[Len(stored)].parts = 1..(part - 1)

LogInv == InOrder /\ AtHand /\ NoGap

\* A message has a number of parts.
LEMMA PartCountType == ASSUME NEW msg \in Message PROVE PartCount(msg) \in Nat
  BY DEF PartCount, Message

\* A step that leaves the conversation and the log alone, away from the store.
LEMMA LogStays ==
  ASSUME IInv, LogInv, UNCHANGED <<messages, stored, part, faults>>,
         pc \notin {"persist", "persistParts"}, pc' \notin {"persist", "persistParts"},
         ctx' = "live" => ctx = "live"
  PROVE  LogInv'
  BY DEF LogInv, InOrder, AtHand, NoGap, Whole, Newest, PartCount

\* A message is appended and is to be persisted.
LEMMA LogAppends ==
  ASSUME IInv, LogInv, NEW msg \in Message, messages' = Append(messages, msg),
         UNCHANGED <<stored, part, faults, ctx>>,
         pc \notin {"persist", "persistParts"}, pc' = "persist"
  PROVE  LogInv'
<1>1. /\ Len(messages) \in Nat /\ Len(messages') = Len(messages) + 1
      /\ \A i \in 1..Len(messages) : messages'[i] = messages[i]
  BY AppendProperties DEF IInv, TypeOK
<1>2. ASSUME NEW i \in 1..Len(messages) PROVE PartCount(messages[i])' = PartCount(messages'[i])
  BY DEF PartCount
<1>3. InOrder'
  BY <1>1 DEF LogInv, InOrder, PartCount
<1>4. AtHand'
  BY <1>1 DEF LogInv, InOrder, AtHand, IInv, TypeOK
<1>5. NoGap'
  BY <1>1 DEF LogInv, NoGap, Whole, PartCount
<1>6. QED
  BY <1>3, <1>4, <1>5 DEF LogInv

\* The message itself is written.
LEMMA LogMessage == ASSUME IInv, LogInv, AppendMessage PROVE LogInv'
<1> DEFINE n == Len(messages)
           entry == [msg |-> n, parts |-> {}]
<1>1. /\ pc = "persist" /\ UNCHANGED <<ctx, messages>>
      /\ Newest \in Message /\ n \in Nat /\ n >= 1
  <2>1. pc = "persist" /\ UNCHANGED <<ctx, messages>>
    BY DEF AppendMessage
  <2>2. messages # <<>> /\ messages \in Seq(Message)
    BY <2>1 DEF IInv, Position, TypeOK
  <2>3. QED
    BY <2>1, <2>2, NewestType, EmptySeq DEF IInv
<1>2. PartCount(Newest) \in Nat
  BY <1>1, PartCountType
<1>3. CASE WriteSucceeds /\ stored' = Append(stored, entry) /\ part' = 1 /\ pc' = "persistParts"
  <2>1. entry \in Entry
    BY <1>1 DEF Entry
  <2>2. /\ Len(stored) \in Nat /\ Len(stored') = Len(stored) + 1
        /\ stored'[Len(stored) + 1] = entry
        /\ \A i \in 1..Len(stored) : stored'[i] = stored[i]
    BY <1>3, <2>1, AppendProperties DEF IInv, TypeOK
  <2>3. InOrder'
    <3>1. \A m : PartCount(messages[m])' = PartCount(messages[m])
      BY <1>1 DEF PartCount
    <3>2. ASSUME NEW i \in 1..Len(stored')
          PROVE  /\ stored'[i].msg \in 1..n
                 /\ stored'[i].parts \subseteq 1..PartCount(messages[stored'[i].msg])
      BY <1>1, <2>2 DEF LogInv, InOrder
    <3>3. ASSUME NEW i \in 1..Len(stored'), NEW j \in 1..Len(stored'), i < j
          PROVE  stored'[i].msg < stored'[j].msg
      <4>1. i \in 1..Len(stored)
        BY <2>2, <3>3
      <4>2. CASE j \in 1..Len(stored)
        BY <2>2, <3>3, <4>1, <4>2 DEF LogInv, InOrder
      <4>3. CASE j = Len(stored) + 1
        BY <1>1, <2>2, <4>1, <4>3 DEF LogInv, AtHand
      <4>4. QED
        BY <2>2, <4>2, <4>3
    <3>4. QED
      BY <1>1, <3>1, <3>2, <3>3 DEF InOrder
  <2>4. AtHand'
    <3>1. Newest' = Newest
      BY <1>1 DEF Newest
    <3>2. PartCount(Newest)' = PartCount(Newest)
      BY <3>1 DEF PartCount
    <3>3. QED
      BY <1>1, <1>2, <1>3, <2>2, <3>2 DEF AtHand
  <2>5. NoGap'
    <3> SUFFICES ASSUME faults' = 0, ctx' = "live"
                 PROVE  /\ Len(stored') = n
                        /\ \A i \in 1..(n - 1) : stored'[i].parts = 1..PartCount(messages[i])
                        /\ stored'[Len(stored')].parts = {}
      BY <1>1, <1>3 DEF NoGap, Whole, PartCount
    <3>1. /\ Len(stored) = n - 1
          /\ \A i \in 1..(n - 1) : stored[i].parts = 1..PartCount(messages[i])
      BY <1>1, <1>3 DEF LogInv, NoGap, Whole, WriteSucceeds
    <3>2. QED
      BY <1>1, <2>2, <3>1
  <2>6. QED
    BY <2>3, <2>4, <2>5 DEF LogInv
<1>4. CASE WriteFails /\ Proceed /\ UNCHANGED <<stored, part>>
  <2>1. pc' \notin {"persist", "persistParts"}
    BY <1>4 DEF Proceed
  <2>2. ~(faults' = 0 /\ ctx' = "live")
    BY <1>1, <1>4 DEF WriteFails, IInv, TypeOK
  <2>3. QED
    BY <1>1, <1>4, <2>1, <2>2 DEF LogInv, InOrder, AtHand, NoGap, PartCount
<1>5. QED
  BY <1>3, <1>4 DEF AppendMessage

\* One of its parts is written.
LEMMA LogPart == ASSUME IInv, LogInv, AppendPart PROVE LogInv'
<1> DEFINE k == Len(stored)
<1>1. /\ pc = "persistParts" /\ pc' = pc /\ UNCHANGED <<ctx, messages>>
      /\ part' = part + 1 /\ part <= PartCount(Newest)
      /\ Newest \in Message /\ Len(messages) \in Nat
      /\ k \in Nat /\ k >= 1
  <2>1. /\ pc = "persistParts" /\ pc' = pc /\ UNCHANGED <<ctx, messages>>
        /\ part' = part + 1 /\ part <= PartCount(Newest)
    BY DEF AppendPart
  <2>2. /\ messages # <<>> /\ messages \in Seq(Message)
        /\ stored # <<>> /\ stored \in Seq(Entry)
    BY <2>1 DEF IInv, Position, TypeOK
  <2>3. QED
    BY <2>1, <2>2, NewestType, EmptySeq DEF IInv
<1>2. PartCount(Newest) \in Nat /\ part \in 1..PartCount(Newest)
  BY <1>1, PartCountType DEF LogInv, AtHand
<1>3. PartCount(Newest)' = PartCount(Newest) /\ \A i : PartCount(messages[i])' = PartCount(messages[i])
  BY <1>1 DEF PartCount, Newest
<1>4. stored[k].msg = Len(messages) /\ messages[stored[k].msg] = Newest
  BY <1>1 DEF LogInv, AtHand, Newest
<1>5. CASE WriteSucceeds /\ stored' = [stored EXCEPT ![k].parts = @ \cup {part}]
  <2>1. /\ Len(stored') = k
        /\ \A i \in 1..k : i # k => stored'[i] = stored[i]
        /\ stored'[k].msg = stored[k].msg /\ stored'[k].parts = stored[k].parts \cup {part}
    BY <1>1, <1>5 DEF IInv, TypeOK, Entry
  <2>2. \A i \in 1..k : stored'[i].msg = stored[i].msg
    BY <2>1
  <2>3. InOrder'
    <3>1. ASSUME NEW i \in 1..k PROVE stored'[i].parts \subseteq 1..PartCount(messages[stored[i].msg])
      BY <1>1, <1>2, <1>4, <2>1 DEF LogInv, InOrder
    <3>2. QED
      BY <1>1, <1>3, <2>1, <2>2, <3>1 DEF LogInv, InOrder
  <2>4. AtHand'
    BY <1>1, <1>2, <1>3, <2>1 DEF LogInv, AtHand
  <2>5. NoGap'
    <3> SUFFICES ASSUME faults' = 0, ctx' = "live"
                 PROVE  /\ Len(stored') = Len(messages)
                        /\ \A i \in 1..(Len(messages) - 1) : stored'[i].parts = 1..PartCount(messages[i])
                        /\ stored'[Len(stored')].parts = 1..part
      BY <1>1, <1>2, <1>3 DEF NoGap, Whole
    <3>1. /\ k = Len(messages)
          /\ \A i \in 1..(Len(messages) - 1) : stored[i].parts = 1..PartCount(messages[i])
          /\ stored[k].parts = 1..(part - 1)
      BY <1>1, <1>5 DEF LogInv, NoGap, Whole, WriteSucceeds
    <3>2. QED
      BY <1>1, <1>2, <2>1, <3>1
  <2>6. QED
    BY <2>3, <2>4, <2>5 DEF LogInv
<1>6. CASE WriteFails /\ UNCHANGED stored
  <2>1. ~(faults' = 0 /\ ctx' = "live")
    BY <1>1, <1>6 DEF WriteFails, IInv, TypeOK
  <2>2. QED
    BY <1>1, <1>2, <1>3, <1>6, <2>1 DEF LogInv, InOrder, AtHand, NoGap
<1>7. QED
  BY <1>5, <1>6 DEF AppendPart

\* All its parts have been offered.
LEMMA LogPersisted == ASSUME IInv, LogInv, Persisted PROVE LogInv'
<1>1. /\ pc = "persistParts" /\ pc' \notin {"persist", "persistParts"}
      /\ UNCHANGED <<ctx, messages, stored, faults>> /\ part > PartCount(Newest)
      /\ Newest \in Message /\ Len(messages) \in Nat /\ Len(messages) >= 1
      /\ Len(stored) \in Nat /\ Len(stored) >= 1
  <2>1. /\ pc = "persistParts" /\ pc' \notin {"persist", "persistParts"}
        /\ UNCHANGED <<ctx, messages, stored, faults>> /\ part > PartCount(Newest)
    BY DEF Persisted, Proceed, storeVars
  <2>2. /\ messages # <<>> /\ messages \in Seq(Message)
        /\ stored # <<>> /\ stored \in Seq(Entry)
    BY <2>1 DEF IInv, Position, TypeOK
  <2>3. QED
    BY <2>1, <2>2, NewestType, EmptySeq DEF IInv
<1>2. PartCount(Newest) \in Nat /\ part - 1 = PartCount(Newest)
  BY <1>1, PartCountType DEF LogInv, AtHand
<1>3. \A i : PartCount(messages[i])' = PartCount(messages[i])
  BY <1>1 DEF PartCount
<1>4. InOrder' /\ AtHand'
  BY <1>1, <1>3 DEF LogInv, InOrder, AtHand
<1>5. NoGap'
  <2> SUFFICES ASSUME faults = 0, ctx = "live"
               PROVE  /\ Len(stored) = Len(messages)
                      /\ \A i \in 1..Len(messages) : stored[i].parts = 1..PartCount(messages[i])
    BY <1>1, <1>3 DEF NoGap, Whole
  <2>1. /\ Len(stored) = Len(messages)
        /\ \A i \in 1..(Len(messages) - 1) : stored[i].parts = 1..PartCount(messages[i])
        /\ stored[Len(stored)].parts = 1..PartCount(Newest)
    BY <1>1, <1>2 DEF LogInv, NoGap, Whole
  <2>2. QED
    BY <1>1, <2>1 DEF Newest
<1>6. QED
  BY <1>4, <1>5 DEF LogInv

LEMMA StepLogInv == ASSUME IInv, LogInv, [Next]_vars PROVE LogInv'
<1> USE DEF storeVars
<1>1. CASE EnsureSession
  <2>1. messages = <<>> /\ Prompt \in Message
    BY <1>1 DEF EnsureSession, IInv, Position, Prompt, Message
  <2>2. messages' = Append(messages, Prompt)
    BY <1>1, <2>1 DEF EnsureSession
  <2>3. QED
    BY <1>1, <2>1, <2>2, LogAppends DEF EnsureSession
<1>2. CASE AppendMessage \/ AppendPart \/ Persisted
  BY <1>2, LogMessage, LogPart, LogPersisted
<1>3. CASE RecvClose
  <2>1. Assistant(toolCalls) \in Message
    BY DEF Assistant, Message, IInv, TypeOK
  <2>2. QED
    BY <1>3, <2>1, LogAppends DEF RecvClose
<1>4. CASE CallsDone
  <2>1. Results(parts) \in Message
    BY DEF Results, Message, IInv, TypeOK
  <2>2. QED
    BY <1>4, <2>1, LogAppends DEF CallsDone
<1>5. CASE NoSession \/ BeginTurn \/ StreamOpens \/ StreamRefused \/ RecvToolStart \/ RecvToolEnd
             \/ RecvMessageEnd \/ RecvError
  <2>1. UNCHANGED <<messages, stored, part, faults, ctx>>
        /\ pc \notin {"persist", "persistParts"} /\ pc' \notin {"persist", "persistParts"}
    BY <1>5 DEF NoSession, BeginTurn, StreamOpens, StreamRefused, RecvToolStart, RecvToolEnd,
       RecvMessageEnd, RecvError
  <2>2. QED
    BY <2>1, LogStays
<1>6. CASE RejectCall \/ AdmitCall \/ AskPermission \/ AskReplied \/ AskCancelled
             \/ ResolvePermission \/ CallDenied \/ CallReturns \/ Conclude
  <2>1. UNCHANGED <<messages, stored, part, faults, ctx>>
        /\ pc \notin {"persist", "persistParts"} /\ pc' \notin {"persist", "persistParts"}
    BY <1>6 DEF RejectCall, AdmitCall, AskPermission, AskReplied, AskCancelled,
       ResolvePermission, CallDenied, CallReturns, Executing, Answer, Conclude, Finish, Fail, Close
  <2>2. QED
    BY <2>1, LogStays
<1>7. CASE Receive \/ Cancel \/ UNCHANGED vars
  <2>1. UNCHANGED <<messages, stored, part, faults, pc>> /\ (ctx' = "live" => ctx = "live")
    BY <1>7 DEF Receive, Cancel, vars
  <2>2. QED
    BY <2>1 DEF LogInv, InOrder, AtHand, NoGap, Whole, Newest, PartCount
<1>8. QED
  BY <1>1, <1>2, <1>3, <1>4, <1>5, <1>6, <1>7 DEF Next, Persist, Respond, Execute, Terminated

\* Whatever writes fail, the log holds messages of the conversation in its
\* order; and the request in flight is in it whole if none has failed
\* (agent.go:134, 178, 201, 241-318).
THEOREM LogFollows == Spec => []LogFollowsConversation
<1>1. Init => LogInv
  BY DEF Init, LogInv, InOrder, AtHand, NoGap, Whole
<1>2. IInv /\ LogInv /\ [Next]_vars => LogInv'
  BY StepLogInv
<1>3. IInv /\ LogInv => LogFollowsConversation
  <2> SUFFICES ASSUME IInv, LogInv PROVE LogFollowsConversation
    OBVIOUS
  <2>1. Len(stored) \in Nat /\ Len(messages) \in Nat
    BY DEF IInv, TypeOK
  <2>2. \A i \in 1..Len(stored) : i > 1 => i - 1 \in 1..Len(stored) /\ i - 1 < i
    BY <2>1
  <2>3. QED
    BY <2>1, <2>2 DEF LogInv, InOrder, NoGap, Whole, LogFollowsConversation
<1>4. QED
  BY <1>1, <1>2, <1>3, Invariant, PTL DEF Spec

-----------------------------------------------------------------------------
(* What the caller and the model are told.                                  *)

\* What one event tells: its result, if it has one.
Told(e) == IF IsOutcome(e) THEN <<[call |-> e.call, outcome |-> e.type]>> ELSE <<>>

\* It is a sequence of results.
LEMMA ToldType == ASSUME NEW e \in Event PROVE Told(e) \in Seq(Result)
<1>1. CASE IsOutcome(e)
  <2>1. [call |-> e.call, outcome |-> e.type] \in Result
    BY <1>1 DEF Event, IsOutcome, Outcomes, Result
  <2>2. QED
    BY <1>1, <2>1 DEF Told
<1>2. CASE ~IsOutcome(e)
  BY <1>2 DEF Told
<1>3. QED
  BY <1>1, <1>2

\* What the events tell, piece by piece.
LEMMA ToldPieces ==
  ASSUME NEW evs \in Seq(Event)
  PROVE  /\ [i \in DOMAIN evs |-> Told(evs[i])] \in Seq(Seq(Result))
         /\ Len([i \in DOMAIN evs |-> Told(evs[i])]) = Len(evs)
<1> DEFINE f == [i \in DOMAIN evs |-> Told(evs[i])]
<1>1. \A i \in 1..Len(evs) : f[i] \in Seq(Result)
  BY ToldType
<1>2. f = [i \in 1..Len(evs) |-> f[i]] /\ Len(evs) \in Nat
  OBVIOUS
<1> HIDE DEF f
<1>3. f \in Seq(Seq(Result)) /\ Len(f) = Len(evs)
  BY <1>1, <1>2, FunctionIsSequence
<1>4. QED
  BY <1>3 DEF f

\* One more event adds what it tells.
LEMMA ToldAppend ==
  ASSUME NEW evs \in Seq(Event), NEW e \in Event
  PROVE  ResultsTold(Append(evs, e)) = ResultsTold(evs) \o Told(e)
<1> DEFINE pieces(q) == [i \in DOMAIN q |-> Told(q[i])]
<1>1. /\ Append(evs, e) \in Seq(Event) /\ Len(Append(evs, e)) = Len(evs) + 1
      /\ Append(evs, e)[Len(evs) + 1] = e
      /\ \A i \in 1..Len(evs) : Append(evs, e)[i] = evs[i]
  OBVIOUS
<1>2. pieces(evs) \in Seq(Seq(Result)) /\ Len(pieces(evs)) = Len(evs)
  BY ToldPieces
<1>3. pieces(Append(evs, e)) = Append(pieces(evs), Told(e))
  BY <1>1, <1>2, ToldType
<1>4. ResultsTold(evs) = FlattenSeq(pieces(evs))
       /\ ResultsTold(Append(evs, e)) = FlattenSeq(pieces(Append(evs, e)))
  BY DEF ResultsTold, Told
<1>5. QED
  BY <1>2, <1>3, <1>4, ToldType, FlattenAppend

\* What the messages hold, piece by piece.
LEMMA HeldPieces ==
  ASSUME NEW msgs \in Seq(Message)
  PROVE  /\ [i \in DOMAIN msgs |-> msgs[i].results] \in Seq(Seq(Result))
         /\ Len([i \in DOMAIN msgs |-> msgs[i].results]) = Len(msgs)
<1> DEFINE f == [i \in DOMAIN msgs |-> msgs[i].results]
<1>1. ASSUME NEW i \in 1..Len(msgs) PROVE f[i] \in Seq(Result)
  <2>1. msgs[i] \in Message /\ f[i] = msgs[i].results
    OBVIOUS
  <2>2. QED
    BY <2>1 DEF Message
<1>2. f = [i \in 1..Len(msgs) |-> f[i]] /\ Len(msgs) \in Nat
  OBVIOUS
<1> HIDE DEF f
<1>3. f \in Seq(Seq(Result)) /\ Len(f) = Len(msgs)
  BY <1>1, <1>2, FunctionIsSequence
<1>4. QED
  BY <1>3 DEF f

\* One more message holds its own results.
LEMMA HeldAppend ==
  ASSUME NEW msgs \in Seq(Message), NEW msg \in Message
  PROVE  ResultsIn(Append(msgs, msg)) = ResultsIn(msgs) \o msg.results
<1> DEFINE pieces(q) == [i \in DOMAIN q |-> q[i].results]
<1>1. /\ Append(msgs, msg) \in Seq(Message) /\ Len(Append(msgs, msg)) = Len(msgs) + 1
      /\ Append(msgs, msg)[Len(msgs) + 1] = msg
      /\ \A i \in 1..Len(msgs) : Append(msgs, msg)[i] = msgs[i]
  OBVIOUS
<1>2. pieces(msgs) \in Seq(Seq(Result)) /\ Len(pieces(msgs)) = Len(msgs) /\ msg.results \in Seq(Result)
  BY HeldPieces DEF Message
<1>3. pieces(Append(msgs, msg)) = Append(pieces(msgs), msg.results)
  BY <1>1, <1>2
<1>4. ResultsIn(msgs) = FlattenSeq(pieces(msgs))
       /\ ResultsIn(Append(msgs, msg)) = FlattenSeq(pieces(Append(msgs, msg)))
  BY DEF ResultsIn
<1>5. QED
  BY <1>2, <1>3, <1>4, FlattenAppend

\* Both stories are sequences of results.
LEMMA StoryType ==
  ASSUME NEW evs \in Seq(Event), NEW msgs \in Seq(Message)
  PROVE  ResultsTold(evs) \in Seq(Result) /\ ResultsIn(msgs) \in Seq(Result)
<1>1. [i \in DOMAIN evs |-> Told(evs[i])] \in Seq(Seq(Result))
  BY ToldPieces
<1>2. [i \in DOMAIN msgs |-> msgs[i].results] \in Seq(Seq(Result))
  BY HeldPieces
<1>3. ResultsTold(evs) = FlattenSeq([i \in DOMAIN evs |-> Told(evs[i])])
  BY DEF ResultsTold, Told
<1>4. QED
  BY <1>1, <1>2, <1>3, FlattenType DEF ResultsIn

\* Sending an event that is no outcome leaves both stories.
LEMMA StorySilent ==
  ASSUME IInv, SameStory, NEW e \in Event, ~IsOutcome(e), Emit(e), UNCHANGED <<messages, parts>>
  PROVE  SameStory'
<1>1. ResultsTold(events') = ResultsTold(events) \o <<>>
  BY ToldAppend DEF Emit, Told, IInv, TypeOK
<1>2. ResultsTold(events) \in Seq(Result)
  BY StoryType DEF IInv, TypeOK
<1>3. ResultsTold(events') = ResultsTold(events)
  BY <1>1, <1>2
<1>4. QED
  BY <1>3 DEF SameStory

\* A message that is appended takes its results from the parts.
LEMMA StoryMoves ==
  ASSUME IInv, SameStory, NEW msg \in Message, messages' = Append(messages, msg),
         msg.results = parts, parts' = <<>>, events' = events
  PROVE  SameStory'
<1>1. ResultsIn(messages') = ResultsIn(messages) \o msg.results
  BY HeldAppend DEF IInv, TypeOK
<1>2. parts \in Seq(Result) /\ ResultsIn(messages) \in Seq(Result)
  BY StoryType DEF IInv, TypeOK, Message
<1>3. ResultsIn(messages') = ResultsIn(messages) \o parts
  BY <1>1, <1>2
<1>4. ResultsIn(messages') \o parts' = ResultsIn(messages) \o parts
  BY <1>2, <1>3
<1>5. QED
  BY <1>4 DEF SameStory

\* Answering a call adds its result to both stories.
LEMMA StoryAnswer ==
  ASSUME IInv, SameStory, pc \in Executes, Len(parts) < Len(toolCalls),
         NEW outcome \in Outcomes, Answer(outcome), UNCHANGED messages
  PROVE  SameStory'
<1> DEFINE r == [call |-> Pending, outcome |-> outcome]
           e == [type |-> outcome, call |-> Pending]
<1>1. Pending \in Call
  BY PendingType
<1>2. r \in Result /\ e \in Event /\ Told(e) = <<r>>
  BY <1>1 DEF Result, Event, Outcomes, Told, IsOutcome
<1>3. events' = Append(events, e) /\ parts' = Append(parts, r)
  BY DEF Answer, Emit
<1> HIDE DEF r, e
<1>4. ResultsTold(events') = ResultsTold(events) \o <<r>>
  BY <1>2, <1>3, ToldAppend DEF IInv, TypeOK
<1>5. ResultsIn(messages) \in Seq(Result) /\ parts \in Seq(Result)
  BY StoryType DEF IInv, TypeOK
<1>6. (ResultsIn(messages) \o parts) \o <<r>> = ResultsIn(messages) \o Append(parts, r)
  BY <1>2, <1>5, SMTT(30)
<1>7. QED
  BY <1>3, <1>4, <1>6 DEF SameStory

\* Nothing the caller or the model can tell.
LEMMA StoryStays ==
  ASSUME SameStory, UNCHANGED <<events, messages, parts>>
  PROVE  SameStory'
  BY DEF SameStory, ResultsTold, ResultsIn, IsOutcome

\* Every step of a run keeps the two stories the same.
LEMMA StepSameStory == ASSUME IInv, SameStory, [Next]_vars PROVE SameStory'
<1> USE DEF wireVars, chanVars, storeVars
<1>1. CASE EnsureSession
  <2>1. messages = <<>> /\ parts = <<>> /\ Prompt \in Message /\ Prompt.results = <<>>
    BY <1>1 DEF EnsureSession, IInv, Position, Progress, Prompt, Message
  <2>2. messages' = Append(messages, Prompt) /\ parts' = <<>> /\ events' = events
    BY <1>1, <2>1 DEF EnsureSession
  <2>3. QED
    BY <2>1, <2>2, StoryMoves
<1>2. CASE RecvClose
  <2>1. /\ Assistant(toolCalls) \in Message /\ Assistant(toolCalls).results = <<>> /\ parts = <<>>
        /\ messages' = Append(messages, Assistant(toolCalls)) /\ parts' = <<>> /\ events' = events
    BY <1>2 DEF RecvClose, Assistant, Message, IInv, TypeOK, Progress
  <2>2. QED
    BY <2>1, StoryMoves
<1>3. CASE CallsDone
  <2>1. /\ Results(parts) \in Message /\ Results(parts).results = parts
        /\ messages' = Append(messages, Results(parts)) /\ parts' = <<>> /\ events' = events
    BY <1>3 DEF CallsDone, Results, Message, IInv, TypeOK
  <2>2. QED
    BY <2>1, StoryMoves
<1>4. CASE RejectCall \/ CallDenied \/ CallReturns
  <2>1. pc \in Executes /\ Len(parts) < Len(toolCalls) /\ UNCHANGED messages
    BY <1>4 DEF RejectCall, CallDenied, CallReturns, Executing, IInv, Progress
  <2>2. PICK outcome \in Outcomes : Answer(outcome)
    BY <1>4 DEF RejectCall, CallDenied, CallReturns, Outcomes
  <2>3. QED
    BY <2>1, <2>2, StoryAnswer
<1>5. CASE RecvToolStart
  <2>1. PICK r \in Requests : Emit([type |-> "tool.started",
                                   call |-> [id |-> started + 1, tool |-> r[1], input |-> r[2]]])
    BY <1>5 DEF RecvToolStart
  <2> DEFINE e == [type |-> "tool.started",
                   call |-> [id |-> started + 1, tool |-> r[1], input |-> r[2]]]
  <2>2. e \in Event /\ ~IsOutcome(e)
    BY AgentLoopAssumption DEF Event, Call, IsOutcome, Outcomes, IInv, TypeOK
  <2>3. UNCHANGED <<messages, parts>>
    BY <1>5 DEF RecvToolStart
  <2>4. QED
    BY <2>1, <2>2, <2>3, StorySilent
<1>6. CASE AskPermission \/ ResolvePermission
  <2>1. pc \in Executes /\ Len(parts) < Len(toolCalls) /\ UNCHANGED <<messages, parts>>
    BY <1>6 DEF AskPermission, ResolvePermission, Executing, IInv, Progress
  <2>2. Pending \in Call
    BY <2>1, PendingType
  <2>3. PICK e \in Event : Emit(e) /\ ~IsOutcome(e)
    <3> DEFINE asked == [type |-> "permission.asked", call |-> Pending]
               resolved == [type |-> "permission.resolved", call |-> Pending, decision |-> verdict]
    <3>1. /\ asked \in Event /\ ~IsOutcome(asked)
          /\ resolved \in Event /\ ~IsOutcome(resolved)
      BY <2>2 DEF Event, IsOutcome, Outcomes, IInv, TypeOK
    <3>2. Emit(asked) \/ Emit(resolved)
      BY <1>6 DEF AskPermission, ResolvePermission
    <3>3. QED
      BY <3>1, <3>2
  <2>4. QED
    BY <2>1, <2>3, StorySilent
<1>7. CASE Finish \/ Fail
  <2>1. PICK e \in Event : Emit(e) /\ ~IsOutcome(e)
    <3>1. /\ [type |-> "done", reason |-> reason] \in Event
          /\ ~IsOutcome([type |-> "done", reason |-> reason])
          /\ [type |-> "error"] \in Event /\ ~IsOutcome([type |-> "error"])
      BY DEF Event, IsOutcome, Outcomes, IInv, TypeOK
    <3>2. QED
      BY <1>7, <3>1 DEF Finish, Fail
  <2>2. QED
    BY <1>7, <2>1, StorySilent DEF Finish, Fail
<1>8. CASE NoSession \/ Persist \/ BeginTurn \/ StreamOpens \/ StreamRefused \/ RecvToolEnd
             \/ RecvMessageEnd \/ RecvError \/ AdmitCall \/ AskReplied \/ AskCancelled \/ Close
             \/ Receive \/ Cancel \/ UNCHANGED vars
  <2>1. UNCHANGED <<events, messages, parts>>
    BY <1>8 DEF NoSession, Persist, AppendMessage, AppendPart, Persisted, BeginTurn, StreamOpens,
       StreamRefused, RecvToolEnd, RecvMessageEnd, RecvError, AdmitCall, AskReplied, AskCancelled,
       Close, Receive, Cancel, vars
  <2>2. QED
    BY <2>1, StoryStays
<1>9. QED
  BY <1>1, <1>2, <1>3, <1>4, <1>5, <1>6, <1>7, <1>8 DEF Next, Respond, Execute, Conclude, Terminated

\* What the caller is told and what the model is told are the same results in
\* the same order, whatever is refused, denied, cancelled or fails
\* (agent.go:406-490).
THEOREM TheSameStory == Spec => []SameStory
<1>1. Init => SameStory
  <2>1. ASSUME Init PROVE SameStory
    <3>1. ResultsTold(<<>>) = FlattenSeq(<<>>) /\ ResultsIn(<<>>) = FlattenSeq(<<>>)
      BY DEF ResultsTold, ResultsIn
    <3>2. QED
      BY <2>1, <3>1, FlattenEmpty DEF Init, SameStory
  <2>2. QED
    BY <2>1
<1>2. IInv /\ SameStory /\ [Next]_vars => SameStory'
  BY StepSameStory
<1>3. QED
  BY <1>1, <1>2, Invariant, PTL DEF Spec
=============================================================================
