-------------------------- MODULE PromptServerProofs --------------------------
(***************************************************************************)
(* Proofs about PromptServer, for any number of prompt requests.            *)
(***************************************************************************)
EXTENDS PromptServer, SequenceTheorems, TLAPS

Item == [run : Prompts, status : Status]

\* An agent that is inside Ask has opened a prompt, so that it has an identity;
\* there is no agent before its handler starts it.
InAsk == {"announced", "waiting", "returning", "returned"}
Typed ==
  /\ TypeOK
  /\ \A h \in Prompts : agent[h] \in InAsk => asked[h] \in 1..MaxAsks
  /\ \A h \in Prompts : handler[h] \in {"idle", "registered"} => agent[h] = "none"

\* The record of a run stays a record of a run.
LEMMA RunTypes ==
  ASSUME NEW r \in Run
  PROVE  /\ \A from \in {"running", "asking"}, to \in {"running", "asking"} :
              MaySend(r, from) => Sent(r, to) \in Run
         /\ \A how \in Endings : MaySend(r, "running") => Ended(r, how) \in Run
         /\ Closed(r) \in Run
         /\ r.held > 0 => Taken(r) \in Run
  BY AgentRunAssumption DEF Run, MaySend, Sent, Ended, Closed, Taken

\* Recording a run keeps the history a sequence, and within its bound.
LEMMA PrependType ==
  ASSUME history \in Seq(Item), Len(history) <= MaxHistory, NEW item \in Item
  PROVE  Prepend(item) \in Seq(Item) /\ Len(Prepend(item)) <= MaxHistory
<1> DEFINE longer == <<item>> \o history
<1>1. longer \in Seq(Item) /\ Len(longer) = Len(history) + 1
  BY ConcatProperties
<1>2. MaxHistory \in Nat /\ MaxHistory >= 1
  BY PromptServerAssumption
<1>3. CASE Len(longer) > MaxHistory
  <2>1. MaxHistory \in 1..Len(longer) /\ 1 \in 1..Len(longer)
    BY <1>1, <1>2, <1>3
  <2>2. SubSeq(longer, 1, MaxHistory) \in Seq(Item)
        /\ Len(SubSeq(longer, 1, MaxHistory)) = MaxHistory
    BY <1>1, <1>2, <1>3, <2>1, SubSeqProperties
  <2>3. QED
    BY <1>2, <1>3, <2>2 DEF Prepend
<1>4. CASE ~(Len(longer) > MaxHistory)
  BY <1>1, <1>2, <1>4 DEF Prepend
<1>5. QED
  BY <1>3, <1>4

LEMMA StepType == ASSUME Typed, [Next]_vars PROVE Typed'
<1> USE DEF Typed, InAsk, TypeOK, tableVars, promptVars, askVars, AgentUnchanged
<1>1. ASSUME NEW h \in Prompts, Handle(h) PROVE Typed'
  <2>1. CASE Refuse(h) \/ Drained(h)
    BY <2>1, ZenonT(60) DEF Refuse, Drained
  <2>2. CASE StartRun(h)
    BY <2>2 DEF StartRun
  <2>7. CASE Register(h)
    <3>1. ctx' \in [Prompts -> {"live", "cancelled"}]
      BY <2>7 DEF Register
    <3>2. QED
      BY <2>7, <3>1 DEF Register
  <2>8. CASE ClearRun(h)
    BY <2>8 DEF ClearRun
  <2>3. CASE RunRefused(h)
    <3>1. [run |-> h, status |-> "failed"] \in Item
      BY DEF Item, Status
    <3>2. history' \in Seq(Item) /\ Len(history') <= MaxHistory
      BY <2>3, <3>1, PrependType DEF RunRefused, Item
    <3>3. QED
      BY <2>3, <3>2 DEF RunRefused, Item
  <2>4. CASE Pump(h)
    <3>1. Taken(run[h]) \in Run
      BY <2>4, RunTypes DEF Pump
    <3>2. QED
      BY <2>4, <3>1 DEF Pump
  <2>5. CASE Record(h)
    <3>1. [run |-> h, status |-> StatusOf(run[h].outcome)] \in Item
      BY DEF Item, Status, StatusOf
    <3>2. history' \in Seq(Item) /\ Len(history') <= MaxHistory
      BY <2>5, <3>1, PrependType DEF Record, Item
    <3>3. QED
      BY <2>5, <3>2 DEF Record, Item
  <2>6. QED
    BY <1>1, <2>1, <2>2, <2>3, <2>4, <2>5, <2>7, <2>8 DEF Handle
<1>2. ASSUME NEW h \in Prompts, Loop(h) PROVE Typed'
  <2>1. CASE AgentSays(h) \/ AgentAsks(h) \/ AgentResolves(h)
    <3>1. PICK from \in {"running", "asking"}, to \in {"running", "asking"} :
            MaySend(run[h], from) /\ run' = [run EXCEPT ![h] = Sent(@, to)]
      BY <2>1 DEF AgentSays, AgentAsks, AgentResolves
    <3>2. run' \in [Prompts -> Run]
      BY <3>1, RunTypes
    <3>3. CASE AgentSays(h)
      BY <3>2, <3>3 DEF AgentSays
    <3>4. CASE AgentAsks(h)
      <4>1. asked' \in [Prompts -> 0..MaxAsks] /\ asked'[h] \in 1..MaxAsks
        BY <3>4, PromptServerAssumption DEF AgentAsks
      <4>2. agent' = [agent EXCEPT ![h] = "announced"] /\ agent[h] = "loop"
            /\ \A g \in Prompts : g # h => asked'[g] = asked[g]
        BY <3>4 DEF AgentAsks
      <4>3. QED
        BY <3>2, <3>4, <4>1, <4>2 DEF AgentAsks
    <3>5. CASE AgentResolves(h)
      BY <3>2, <3>5 DEF AgentResolves
    <3>6. QED
      BY <2>1, <3>3, <3>4, <3>5
  <2>2. CASE AgentEnds(h)
    <3>1. PICK how \in Endings : run' = [run EXCEPT ![h] = Ended(@, how)]
      BY <2>2 DEF AgentEnds
    <3>2. run' \in [Prompts -> Run]
      BY <2>2, <3>1, RunTypes DEF AgentEnds
    <3>3. QED
      BY <2>2, <3>2 DEF AgentEnds
  <2>3. CASE AgentCloses(h)
    <3>1. run' \in [Prompts -> Run]
      BY <2>3, RunTypes DEF AgentCloses
    <3>2. QED
      BY <2>3, <3>1 DEF AgentCloses
  <2>4. CASE AgentEntersTool(h) \/ AgentLeavesTool(h)
    <3>1. /\ \E place \in {"loop", "tool"} : agent' = [agent EXCEPT ![h] = place]
          /\ agent[h] \in {"loop", "tool"}
          /\ UNCHANGED <<handler, ctx, gone, run, asked, active, cancelling, history>>
          /\ UNCHANGED <<pending, taken, replied, got>>
      BY <2>4 DEF AgentEntersTool, AgentLeavesTool
    <3>2. /\ agent' \in [Prompts -> {"none", "loop", "tool", "announced",
                                     "waiting", "returning", "returned"}]
          /\ \A g \in Prompts : agent'[g] = agent[g] \/ agent'[g] \in {"loop", "tool"}
          /\ \A g \in Prompts : agent[g] = "none" => agent'[g] = "none"
      BY <3>1
    <3>3. QED
      BY <3>1, <3>2
  <2>5. QED
    BY <1>2, <2>1, <2>2, <2>3, <2>4 DEF Loop
<1>3. ASSUME NEW h \in Prompts, Ask(h) PROVE Typed'
  <2>1. Current(h) \in Ids
    BY <1>3 DEF Ask, RegisterPending, AskGetsReply, AskGivesUp, RemovePending, Current, Ids
  <2>2. CASE RegisterPending(h) \/ RemovePending(h)
    BY <2>1, <2>2, ZenonT(60) DEF RegisterPending, RemovePending
  <2>3. CASE AskGetsReply(h) \/ AskGivesUp(h)
    <3>1. taken[Current(h)] \in Replies \cup {"none"}
      BY <2>1
    <3>2. got' \in [Ids -> Replies \cup {"none", "error"}]
      BY <2>1, <2>3, <3>1 DEF AskGetsReply, AskGivesUp
    <3>3. QED
      BY <2>3, <3>2, ZenonT(60) DEF AskGetsReply, AskGivesUp
  <2>4. QED
    BY <1>3, <2>2, <2>3 DEF Ask
<1>4. ASSUME NEW h \in Prompts, ClientGone(h) \/ CancelTaken(h) PROVE Typed'
  BY <1>4, ZenonT(60) DEF ClientGone, CancelTaken
<1>5. CASE TakeActive
  BY <1>5 DEF TakeActive
<1>6. ASSUME NEW id \in Ids, TakePending(id) \/ SendReply(id) PROVE Typed'
  BY <1>6, ZenonT(60) DEF TakePending, SendReply
<1>7. CASE UNCHANGED vars
  BY <1>7 DEF vars
<1>8. QED
  BY <1>1, <1>2, <1>3, <1>4, <1>5, <1>6, <1>7 DEF Next

LEMMA AlwaysTyped == Spec => []Typed
<1>1. Init => Typed
  BY PromptServerAssumption, AgentRunAssumption
  DEF Init, Typed, TypeOK, InAsk, Run, Begun
<1>2. Typed /\ [Next]_vars => Typed'
  BY StepType
<1>3. QED
  BY <1>1, <1>2, PTL DEF Spec

\* The server's state keeps its types, and the history its bound, for any
\* number of requests (server.go:41-61).
THEOREM ServerTypeCorrect == Spec => []TypeOK
<1>1. Typed => TypeOK
  BY DEF Typed
<1>2. QED
  BY <1>1, AlwaysTyped, PTL

-----------------------------------------------------------------------------
(* The table of active runs.                                                *)

LEMMA StepLive ==
  ASSUME Typed, LiveRunIsActive, [Next]_vars
  PROVE  LiveRunIsActive'
<1> USE DEF Typed, TypeOK, LiveRunIsActive, Serving, tableVars, AgentUnchanged
<1>1. ASSUME NEW h \in Prompts, Handle(h) PROVE LiveRunIsActive'
  <2>1. CASE Register(h)
    BY <2>1, NoneAssumption DEF Register
  <2>2. CASE ClearRun(h)
    BY <2>2 DEF ClearRun
  <2>3. CASE Refuse(h) \/ StartRun(h) \/ RunRefused(h) \/ Pump(h) \/ Drained(h) \/ Record(h)
    BY <2>3 DEF Refuse, StartRun, RunRefused, Pump, Drained, Record
  <2>4. QED
    BY <1>1, <2>1, <2>2, <2>3 DEF Handle
<1>2. ASSUME NEW h \in Prompts, Loop(h) \/ Ask(h) PROVE LiveRunIsActive'
  <2>1. UNCHANGED <<handler, ctx, active, cancelling>>
    BY <1>2 DEF Loop, AgentSays, AgentEntersTool, AgentLeavesTool, AgentAsks, AgentResolves, AgentEnds, AgentCloses,
       Ask, RegisterPending, AskGetsReply, AskGivesUp, RemovePending
  <2>2. QED
    BY <2>1
<1>3. ASSUME NEW h \in Prompts, ClientGone(h) \/ CancelTaken(h) PROVE LiveRunIsActive'
  BY <1>3 DEF ClientGone, CancelTaken
<1>4. CASE TakeActive
  BY <1>4 DEF TakeActive
<1>5. ASSUME NEW id \in Ids, TakePending(id) \/ SendReply(id) PROVE LiveRunIsActive'
  BY <1>5 DEF TakePending, SendReply
<1>6. CASE UNCHANGED vars
  BY <1>6 DEF vars
<1>7. QED
  BY <1>1, <1>2, <1>3, <1>4, <1>5, <1>6 DEF Next

\* However many requests come, replace each other and are cancelled, a run that
\* goes on with a live context is the one a cancel request would find, or has
\* just been found (server.go:1090-1130).
THEOREM LiveRunsAreActive == Spec => []LiveRunIsActive
<1>1. Init => LiveRunIsActive
  BY DEF Init, LiveRunIsActive, Serving
<1>2. Typed /\ LiveRunIsActive /\ [Next]_vars => LiveRunIsActive'
  BY StepLive
<1>3. QED
  BY <1>1, <1>2, AlwaysTyped, PTL DEF Spec

-----------------------------------------------------------------------------
(* Permission prompts.                                                      *)

\* A prompt that is yet to be registered has met no client.
Fresh ==
  \A id \in Ids :
    id[2] > asked[id[1]] \/ (id = Current(id[1]) /\ agent[id[1]] = "announced") =>
      taken[id] = "none"

\* A prompt is taken out of the map before it is answered, and Ask fails only
\* for a cancelled run.
OneClient ==
  \A id \in Ids :
    /\ taken[id] # "none" => id \notin pending
    /\ id \in replied => taken[id] # "none"
    /\ got[id] = "error" => ctx[id[1]] = "cancelled"

AskInv == PromptsCanBeAnswered /\ RepliesReachTheAgent /\ Fresh /\ OneClient

\* Two prompts of one run differ in their number, and of two runs in the run.
LEMMA CurrentId ==
  ASSUME NEW h \in Prompts
  PROVE  Current(h)[1] = h /\ Current(h)[2] = asked[h]
  BY DEF Current

LEMMA StepAskInv == ASSUME Typed, AskInv, [Next]_vars PROVE AskInv'
<1> USE DEF Typed, TypeOK, InAsk, AskInv, tableVars, promptVars, askVars, AgentUnchanged
<1> "none" \notin Replies /\ "error" \notin Replies
  BY PromptServerAssumption
<1>1. ASSUME UNCHANGED <<agent, asked, askVars>>,
             \A h \in Prompts : ctx[h] = "cancelled" => ctx'[h] = "cancelled"
      PROVE  AskInv'
  <2>1. PromptsCanBeAnswered'
    BY <1>1 DEF PromptsCanBeAnswered, Current
  <2>2. RepliesReachTheAgent'
    BY <1>1 DEF RepliesReachTheAgent, Ids
  <2>3. Fresh' /\ OneClient'
    BY <1>1 DEF Fresh, OneClient, Current, Ids
  <2>4. QED
    BY <2>1, <2>2, <2>3
<1>2. ASSUME NEW h \in Prompts, Handle(h) PROVE AskInv'
  <2>1. CASE StartRun(h)
    <3>1. /\ agent[h] = "none" /\ agent' = [agent EXCEPT ![h] = "loop"]
          /\ UNCHANGED <<ctx, asked, askVars>>
      BY <2>1 DEF StartRun
    <3>2. PromptsCanBeAnswered' /\ Fresh'
      BY <3>1 DEF PromptsCanBeAnswered, Fresh, Current, Ids
    <3>3. RepliesReachTheAgent' /\ OneClient'
      BY <3>1 DEF RepliesReachTheAgent, OneClient
    <3>4. QED
      BY <3>2, <3>3
  <2>2. CASE ~StartRun(h)
    BY <1>1, <1>2, <2>2 DEF Handle, Refuse, Register, RunRefused, Pump, Drained, Record, ClearRun
  <2>3. QED
    BY <2>1, <2>2
<1>3. ASSUME NEW h \in Prompts, Loop(h) PROVE AskInv'
  <2>1. CASE AgentAsks(h)
    <3>1. /\ agent[h] = "loop" /\ agent' = [agent EXCEPT ![h] = "announced"]
          /\ asked' = [asked EXCEPT ![h] = @ + 1]
          /\ UNCHANGED <<ctx, askVars>>
      BY <2>1 DEF AgentAsks
    <3>2. PromptsCanBeAnswered'
      BY <3>1 DEF PromptsCanBeAnswered, Current, Ids
    <3>3. Fresh'
      BY <3>1 DEF Fresh, Current, Ids
    <3>4. RepliesReachTheAgent' /\ OneClient'
      BY <3>1 DEF RepliesReachTheAgent, OneClient
    <3>5. QED
      BY <3>2, <3>3, <3>4
  <2>2. CASE AgentResolves(h)
    <3>1. /\ agent[h] = "returned" /\ agent' = [agent EXCEPT ![h] = "loop"]
          /\ UNCHANGED <<ctx, asked, askVars>>
      BY <2>2 DEF AgentResolves
    <3>2. PromptsCanBeAnswered' /\ Fresh'
      BY <3>1 DEF PromptsCanBeAnswered, Fresh, Current, Ids
    <3>3. RepliesReachTheAgent' /\ OneClient'
      BY <3>1 DEF RepliesReachTheAgent, OneClient
    <3>4. QED
      BY <3>2, <3>3
  <2>3. CASE AgentSays(h) \/ AgentEnds(h) \/ AgentCloses(h)
    BY <1>1, <2>3 DEF AgentSays, AgentEnds, AgentCloses
  <2>4. CASE AgentEntersTool(h) \/ AgentLeavesTool(h)
    <3>1. /\ \E place \in {"loop", "tool"} : agent' = [agent EXCEPT ![h] = place]
          /\ agent[h] \in {"loop", "tool"} /\ UNCHANGED <<ctx, asked, askVars>>
      BY <2>4 DEF AgentEntersTool, AgentLeavesTool
    <3>2. PromptsCanBeAnswered' /\ Fresh'
      BY <3>1 DEF PromptsCanBeAnswered, Fresh, Current, Ids
    <3>3. RepliesReachTheAgent' /\ OneClient'
      BY <3>1 DEF RepliesReachTheAgent, OneClient
    <3>4. QED
      BY <3>2, <3>3
  <2>5. QED
    BY <1>3, <2>1, <2>2, <2>3, <2>4 DEF Loop
<1>4. ASSUME NEW h \in Prompts, RegisterPending(h) PROVE AskInv'
  <2>1. /\ agent[h] = "announced" /\ agent' = [agent EXCEPT ![h] = "waiting"]
        /\ pending' = pending \cup {Current(h)}
        /\ UNCHANGED <<ctx, asked, taken, replied, got>>
    BY <1>4 DEF RegisterPending
  <2>2. Current(h) \in Ids /\ taken[Current(h)] = "none"
    BY <2>1, CurrentId DEF Fresh, Current, Ids
  <2>3. PromptsCanBeAnswered' /\ Fresh'
    BY <2>1, <2>2 DEF PromptsCanBeAnswered, Fresh, Current, Ids
  <2>4. RepliesReachTheAgent' /\ OneClient'
    BY <2>1, <2>2 DEF RepliesReachTheAgent, OneClient
  <2>5. QED
    BY <2>3, <2>4
<1>5. ASSUME NEW h \in Prompts, AskGetsReply(h) \/ AskGivesUp(h) PROVE AskInv'
  <2>1. /\ agent[h] = "waiting" /\ agent' = [agent EXCEPT ![h] = "returning"]
        /\ UNCHANGED <<ctx, asked, pending, taken, replied>>
        /\ \/ /\ Current(h) \in replied
              /\ got' = [got EXCEPT ![Current(h)] = taken[Current(h)]]
           \/ /\ ctx[h] = "cancelled"
              /\ got' = [got EXCEPT ![Current(h)] = "error"]
    BY <1>5 DEF AskGetsReply, AskGivesUp
  <2>2. Current(h) \in Ids /\ Current(h)[1] = h
    BY <2>1 DEF Current, Ids
  <2>3. PromptsCanBeAnswered' /\ Fresh'
    BY <2>1 DEF PromptsCanBeAnswered, Fresh, Current, Ids
  <2>4. ASSUME NEW id \in Ids, id # Current(h) PROVE got'[id] = got[id]
    BY <2>1, <2>4
  <2>5. /\ got'[Current(h)] \in Replies \cup {"error"}
        /\ got'[Current(h)] = "error" => ctx[h] = "cancelled"
        /\ got'[Current(h)] \in Replies =>
             Current(h) \in replied /\ got'[Current(h)] = taken[Current(h)]
    <3>1. taken[Current(h)] \in Replies \cup {"none"}
      BY <2>2
    <3>2. Current(h) \in replied => taken[Current(h)] # "none"
      BY <2>2 DEF OneClient
    <3>3. QED
      BY <2>1, <2>2, <3>1, <3>2
  <2>6. RepliesReachTheAgent'
    <3>1. SUFFICES ASSUME NEW id \in Ids
                   PROVE /\ id \in replied /\ got'[id] # "none"
                              => got'[id] = taken[id] \/ ctx[id[1]] = "cancelled"
                         /\ got'[id] \in Replies => id \in replied /\ got'[id] = taken[id]
      BY <2>1 DEF RepliesReachTheAgent
    <3>2. CASE id = Current(h)
      <4>1. got'[id] = taken[id] \/ ctx[id[1]] = "cancelled"
        BY <2>1, <2>2, <3>2
      <4>2. QED
        BY <2>5, <3>2, <4>1
    <3>3. CASE id # Current(h)
      BY <2>4, <3>3 DEF RepliesReachTheAgent
    <3>4. QED
      BY <3>2, <3>3
  <2>7. OneClient'
    BY <2>1, <2>2, <2>4, <2>5 DEF OneClient
  <2>8. QED
    BY <2>3, <2>6, <2>7
<1>6. ASSUME NEW h \in Prompts, RemovePending(h) PROVE AskInv'
  <2>1. /\ agent[h] = "returning" /\ agent' = [agent EXCEPT ![h] = "returned"]
        /\ pending' = pending \ {Current(h)}
        /\ UNCHANGED <<ctx, asked, taken, replied, got>>
    BY <1>6 DEF RemovePending
  <2>2. PromptsCanBeAnswered' /\ Fresh'
    BY <2>1 DEF PromptsCanBeAnswered, Fresh, Current, Ids
  <2>3. RepliesReachTheAgent' /\ OneClient'
    BY <2>1 DEF RepliesReachTheAgent, OneClient
  <2>4. QED
    BY <2>2, <2>3
<1>7. ASSUME NEW id \in Ids, TakePending(id) PROVE AskInv'
  <2>1. PICK decision \in Replies :
          /\ id \in pending /\ pending' = pending \ {id}
          /\ taken' = [taken EXCEPT ![id] = decision]
          /\ UNCHANGED <<ctx, agent, asked, replied, got>>
    BY <1>7 DEF TakePending
  <2>2. id[1] \in Prompts /\ agent[id[1]] \in {"waiting", "returning"} /\ id = Current(id[1])
    BY <2>1 DEF PromptsCanBeAnswered, Ids
  <2>3. taken[id] = "none" /\ id \notin replied /\ got[id] \notin Replies
    BY <2>1 DEF OneClient, RepliesReachTheAgent
  <2>4. PromptsCanBeAnswered'
    BY <2>1 DEF PromptsCanBeAnswered, Current, Ids
  <2>5. Fresh'
    BY <2>1, <2>2, CurrentId DEF Fresh, Current, Ids
  <2>6. RepliesReachTheAgent' /\ OneClient'
    BY <2>1, <2>3 DEF RepliesReachTheAgent, OneClient
  <2>7. QED
    BY <2>4, <2>5, <2>6
<1>8. ASSUME NEW id \in Ids, SendReply(id) PROVE AskInv'
  <2>1. /\ taken[id] # "none" /\ id \notin replied /\ replied' = replied \cup {id}
        /\ UNCHANGED <<ctx, agent, asked, pending, taken, got>>
    BY <1>8 DEF SendReply
  <2>2. got[id] = "none" \/ ctx[id[1]] = "cancelled"
    BY <2>1 DEF RepliesReachTheAgent, OneClient
  <2>3. RepliesReachTheAgent' /\ OneClient'
    BY <2>1, <2>2 DEF RepliesReachTheAgent, OneClient
  <2>4. PromptsCanBeAnswered' /\ Fresh'
    BY <2>1 DEF PromptsCanBeAnswered, Fresh, Current
  <2>5. QED
    BY <2>3, <2>4
<1>9. ASSUME NEW h \in Prompts, ClientGone(h) \/ CancelTaken(h) PROVE AskInv'
  BY <1>1, <1>9 DEF ClientGone, CancelTaken
<1>10. CASE TakeActive \/ UNCHANGED vars
  BY <1>1, <1>10 DEF TakeActive, vars
<1>11. QED
  BY <1>2, <1>3, <1>4, <1>5, <1>6, <1>7, <1>8, <1>9, <1>10 DEF Next, Ask

LEMMA AlwaysAskInv == Spec => []AskInv
<1>1. Init => AskInv
  BY PromptServerAssumption
  DEF Init, AskInv, PromptsCanBeAnswered, RepliesReachTheAgent, Fresh, OneClient
<1>2. Typed /\ AskInv /\ [Next]_vars => AskInv'
  BY StepAskInv
<1>3. QED
  BY <1>1, <1>2, AlwaysTyped, PTL DEF Spec

\* No prompt is lost between the two steps of an answer, and none is listed
\* that nobody waits for (server.go:1179-1249).
THEOREM PromptsAnswerable == Spec => []PromptsCanBeAnswered
<1>1. AskInv => PromptsCanBeAnswered
  BY DEF AskInv
<1>2. QED
  BY <1>1, AlwaysAskInv, PTL

\* One client decides each prompt, and the agent acts on that decision unless
\* its run is cancelled (server.go:1193-1198 and 1225-1248).
THEOREM RepliesReach == Spec => []RepliesReachTheAgent
<1>1. AskInv => RepliesReachTheAgent
  BY DEF AskInv
<1>2. QED
  BY <1>1, AlwaysAskInv, PTL

-----------------------------------------------------------------------------
(* The run history.                                                         *)

\* Where each item goes when one is put in front of the history, and that none
\* is lost while there is room.
LEMMA PrependShifts ==
  ASSUME history \in Seq(Item), Len(history) <= MaxHistory, NEW item \in Item
  PROVE  /\ Prepend(item)[1] = item /\ Len(Prepend(item)) >= 1
         /\ \A i \in 2..Len(Prepend(item)) : i - 1 \in 1..Len(history) /\ Prepend(item)[i] = history[i - 1]
         /\ Len(Prepend(item)) = IF Len(history) < MaxHistory THEN Len(history) + 1 ELSE MaxHistory
<1> DEFINE longer == <<item>> \o history
<1>1. /\ longer \in Seq(Item) /\ Len(longer) = Len(history) + 1 /\ longer[1] = item
      /\ \A i \in 2..Len(longer) : i - 1 \in 1..Len(history) /\ longer[i] = history[i - 1]
  BY ConcatProperties
<1>2. MaxHistory \in Nat /\ MaxHistory >= 1 /\ Len(history) \in Nat
  BY PromptServerAssumption
<1> HIDE DEF longer
<1>3. CASE Len(longer) > MaxHistory
  <2>1. Len(history) = MaxHistory
    BY <1>1, <1>2, <1>3
  <2>2. Prepend(item) = SubSeq(longer, 1, MaxHistory)
    BY <1>3 DEF Prepend, longer
  <2>3. /\ Len(SubSeq(longer, 1, MaxHistory)) = MaxHistory
        /\ \A i \in 1..MaxHistory : SubSeq(longer, 1, MaxHistory)[i] = longer[i]
    BY <1>1, <1>2, <2>1, SubSeqProperties
  <2>4. QED
    BY <1>1, <1>2, <2>1, <2>2, <2>3
<1>4. CASE ~(Len(longer) > MaxHistory)
  <2>1. Prepend(item) = longer
    BY <1>4 DEF Prepend, longer
  <2>2. QED
    BY <1>1, <1>2, <1>4, <2>1
<1>5. QED
  BY <1>3, <1>4

\* What a run's caller sees of it agrees with where its agent is; a handler that
\* left its loop at the end of the channel has seen the end of the run; and a
\* run that ended as aborted was cancelled.
RunAndAgent ==
  \A h \in Prompts :
    /\ agent[h] \in InAsk <=> run[h].phase = "asking"
    /\ run[h].phase \in {"ended", "closed"} => agent[h] = "loop"
    /\ run[h].phase \notin {"ended", "closed"} => run[h].outcome = "none"
    /\ handler[h] = "drained" => run[h].phase = "closed" /\ run[h].held = 0
    /\ run[h].outcome = "aborted" => ctx[h] = "cancelled"

\* Every step keeps that.
LEMMA StepRunAndAgent ==
  ASSUME Typed, RunAndAgent, [Next]_vars PROVE RunAndAgent'
<1> USE DEF Typed, TypeOK, RunAndAgent, InAsk, tableVars, promptVars, askVars, AgentUnchanged
<1>1. ASSUME NEW h \in Prompts, Handle(h) PROVE RunAndAgent'
  <2>1. CASE Pump(h)
    <3>1. /\ run[h].held > 0 /\ run' = [run EXCEPT ![h] = Taken(@)] /\ UNCHANGED <<ctx, agent>>
          /\ handler[h] = "pumping" /\ handler'[h] # "drained"
          /\ \A g \in Prompts : g # h => handler'[g] = handler[g]
      BY <2>1 DEF Pump
    <3>2. Taken(run[h]).phase = run[h].phase /\ Taken(run[h]).outcome = run[h].outcome
      BY DEF Taken, Run
    <3>3. QED
      BY <3>1, <3>2
  <2>2. CASE Register(h)
    BY <2>2 DEF Register
  <2>3. CASE StartRun(h)
    BY <2>3 DEF StartRun
  <2>4. CASE Refuse(h) \/ RunRefused(h) \/ Drained(h) \/ Record(h) \/ ClearRun(h)
    BY <2>4 DEF Refuse, RunRefused, Drained, Record, ClearRun
  <2>5. QED
    BY <1>1, <2>1, <2>2, <2>3, <2>4 DEF Handle
<1>2. ASSUME NEW h \in Prompts, Loop(h) PROVE RunAndAgent'
  <2> USE DEF MaySend, Sent, Ended, Closed, Run
  <2>1. CASE AgentSays(h)
    BY <2>1 DEF AgentSays
  <2>2. CASE AgentAsks(h)
    BY <2>2 DEF AgentAsks
  <2>3. CASE AgentResolves(h)
    BY <2>3 DEF AgentResolves
  <2>4. CASE AgentEnds(h)
    BY <2>4 DEF AgentEnds, MayEnd, Endings
  <2>5. CASE AgentCloses(h)
    BY <2>5 DEF AgentCloses
  <2>6. CASE AgentEntersTool(h) \/ AgentLeavesTool(h)
    BY <2>6 DEF AgentEntersTool, AgentLeavesTool
  <2>7. QED
    BY <1>2, <2>1, <2>2, <2>3, <2>4, <2>5, <2>6 DEF Loop
<1>3. ASSUME NEW h \in Prompts, Ask(h) PROVE RunAndAgent'
  <2>1. /\ UNCHANGED <<run, handler, ctx>> /\ agent[h] \in InAsk /\ agent'[h] \in InAsk
        /\ \A g \in Prompts : g # h => agent'[g] = agent[g]
    BY <1>3 DEF Ask, RegisterPending, AskGetsReply, AskGivesUp, RemovePending
  <2>2. QED
    BY <2>1
<1>4. ASSUME NEW h \in Prompts, ClientGone(h) \/ CancelTaken(h) PROVE RunAndAgent'
  BY <1>4 DEF ClientGone, CancelTaken
<1>5. CASE TakeActive
  BY <1>5 DEF TakeActive
<1>6. ASSUME NEW id \in Ids, TakePending(id) \/ SendReply(id) PROVE RunAndAgent'
  BY <1>6 DEF TakePending, SendReply
<1>7. CASE UNCHANGED vars
  BY <1>7 DEF vars
<1>8. QED
  BY <1>1, <1>2, <1>3, <1>4, <1>5, <1>6, <1>7 DEF Next

LEMMA AlwaysRunAndAgent == Spec => []RunAndAgent
<1>1. Init => RunAndAgent
  BY DEF Init, RunAndAgent, InAsk, Begun
<1>2. Typed /\ RunAndAgent /\ [Next]_vars => RunAndAgent'
  BY StepRunAndAgent
<1>3. QED
  BY <1>1, <1>2, AlwaysTyped, PTL DEF Spec

\* What an item of the history says of its run.
Says(h, status) ==
  /\ handler[h] \in {"recorded", "done"}
  /\ status = "failed" <=> agent[h] = "none" \/ run[h].outcome = "error"
  /\ status = "cancelled" => ctx[h] = "cancelled"
  /\ agent[h] # "none" => run[h].phase = "closed" /\ run[h].held = 0

\* What is said of a run stays true.
LEMMA SaidForGood ==
  ASSUME Typed, RunAndAgent, [Next]_vars, NEW h \in Prompts, NEW status \in Status, Says(h, status)
  PROVE  Says(h, status)'
<1> USE DEF Typed, TypeOK, RunAndAgent, InAsk, tableVars, promptVars, askVars, AgentUnchanged, Says
<1>1. ASSUME NEW g \in Prompts, Handle(g) PROVE Says(h, status)'
  <2>1. CASE g = h
    BY <1>1, <2>1 DEF Handle, Refuse, Register, StartRun, RunRefused, Pump, Drained, Record, ClearRun
  <2>2. CASE g # h
    <3>1. /\ handler'[h] = handler[h] /\ run'[h] = run[h] /\ agent'[h] = agent[h]
          /\ ctx[h] = "cancelled" => ctx'[h] = "cancelled"
      BY <1>1, <2>2 DEF Handle, Refuse, Register, StartRun, RunRefused, Pump, Drained, Record, ClearRun
    <3>2. QED
      BY <3>1
  <2>3. QED
    BY <2>1, <2>2
<1>2. ASSUME NEW g \in Prompts, Loop(g) PROVE Says(h, status)'
  <2>1. g # h
    BY <1>2 DEF Loop, AgentSays, AgentEntersTool, AgentLeavesTool, AgentAsks, AgentResolves, AgentEnds, AgentCloses, MaySend
  <2>2. QED
    BY <1>2, <2>1 DEF Loop, AgentSays, AgentEntersTool, AgentLeavesTool, AgentAsks, AgentResolves, AgentEnds, AgentCloses
<1>3. ASSUME NEW g \in Prompts, Ask(g) PROVE Says(h, status)'
  BY <1>3 DEF Ask, RegisterPending, AskGetsReply, AskGivesUp, RemovePending
<1>4. ASSUME NEW g \in Prompts, ClientGone(g) \/ CancelTaken(g) PROVE Says(h, status)'
  BY <1>4 DEF ClientGone, CancelTaken
<1>5. CASE TakeActive
  BY <1>5 DEF TakeActive
<1>6. ASSUME NEW id \in Ids, TakePending(id) \/ SendReply(id) PROVE Says(h, status)'
  BY <1>6 DEF TakePending, SendReply
<1>7. CASE UNCHANGED vars
  BY <1>7 DEF vars
<1>8. QED
  BY <1>1, <1>2, <1>3, <1>4, <1>5, <1>6, <1>7 DEF Next

\* The property, in these terms.
LEMMA Truth ==
  HistoryIsTrue <=>
    /\ \A i, j \in 1..Len(history) : history[i].run = history[j].run => i = j
    /\ \A i \in 1..Len(history) : Says(history[i].run, history[i].status)
BY DEF HistoryIsTrue, Says

\* The steps that leave the history alone, and those that add an item to it.
LEMMA HistorySteps ==
  ASSUME Typed, RunAndAgent, [Next]_vars
  PROVE  \/ history' = history
         \/ \E h \in Prompts, status \in Status :
              /\ history' = Prepend([run |-> h, status |-> status])
              /\ handler[h] \in {"registered", "drained"}
              /\ Says(h, status)'
<1> USE DEF Typed, TypeOK, RunAndAgent, tableVars, promptVars, askVars, AgentUnchanged
<1>1. ASSUME NEW h \in Prompts, RunRefused(h), NEW status \in Status, status = "failed"
      PROVE  /\ history' = Prepend([run |-> h, status |-> status])
             /\ handler[h] = "registered" /\ Says(h, status)'
  BY <1>1 DEF RunRefused, Says
<1>2. ASSUME NEW h \in Prompts, Record(h),
             NEW status \in Status, status = StatusOf(run[h].outcome)
      PROVE  /\ history' = Prepend([run |-> h, status |-> status])
             /\ handler[h] = "drained" /\ Says(h, status)'
  <2>1. /\ history' = Prepend([run |-> h, status |-> status])
        /\ handler[h] = "drained" /\ UNCHANGED <<ctx, run, agent>> /\ handler'[h] = "recorded"
    BY <1>2 DEF Record
  <2>2. run[h].phase = "closed" /\ run[h].held = 0 /\ agent[h] = "loop"
    BY <2>1
  <2>3. /\ status = "failed" <=> run[h].outcome = "error"
        /\ status = "cancelled" => ctx[h] = "cancelled"
    BY <1>2 DEF StatusOf
  <2>4. QED
    BY <2>1, <2>2, <2>3 DEF Says
<1>3. CASE ~\E h \in Prompts : RunRefused(h) \/ Record(h)
  BY <1>3 DEF Next, Handle, Refuse, Register, StartRun, Pump, Drained, ClearRun, ClientGone,
     CancelTaken, TakeActive, TakePending, SendReply, Loop, AgentSays, AgentEntersTool,
     AgentLeavesTool, AgentAsks, AgentResolves, AgentEnds, AgentCloses, Ask, RegisterPending, AskGetsReply, AskGivesUp, RemovePending, vars
<1>4. "failed" \in Status /\ \A h \in Prompts : StatusOf(run[h].outcome) \in Status
  BY DEF StatusOf, Status
<1>5. CASE \E h \in Prompts : RunRefused(h)
  BY <1>1, <1>4, <1>5, Zenon
<1>6. CASE \E h \in Prompts : Record(h)
  <2>1. PICK h \in Prompts : Record(h)
    BY <1>6
  <2>2. PICK status \in Status : status = StatusOf(run[h].outcome)
    BY <1>4
  <2>3. /\ history' = Prepend([run |-> h, status |-> status])
        /\ handler[h] = "drained" /\ Says(h, status)'
    BY <1>2, <2>1, <2>2
  <2>4. QED
    BY <2>3, Zenon
<1>7. QED
  BY <1>3, <1>5, <1>6

\* Every step keeps the history true: a run is written once, when it is over.
LEMMA StepHistory ==
  ASSUME Typed, RunAndAgent, HistoryIsTrue, [Next]_vars
  PROVE  HistoryIsTrue'
<1>1. /\ history \in Seq(Item) /\ Len(history) \in Nat /\ Len(history) <= MaxHistory
      /\ \A i \in 1..Len(history) : history[i].run \in Prompts /\ history[i].status \in Status
      /\ \A i \in 1..Len(history) : Says(history[i].run, history[i].status)
      /\ \A i, j \in 1..Len(history) : history[i].run = history[j].run => i = j
  <2>1. history \in Seq(Item) /\ Len(history) <= MaxHistory
    BY DEF Typed, TypeOK, Item
  <2>2. \A i \in 1..Len(history) : history[i] \in Item
    BY <2>1
  <2>3. QED
    BY <2>1, <2>2, Truth DEF Item
<1>3. ASSUME NEW i \in 1..Len(history)
      PROVE  LET h == history[i].run
             IN  /\ handler'[h] \in {"recorded", "done"}
                 /\ history[i].status = "failed" <=> agent'[h] = "none" \/ run'[h].outcome = "error"
                 /\ history[i].status = "cancelled" => ctx'[h] = "cancelled"
                 /\ agent'[h] # "none" => run'[h].phase = "closed" /\ run'[h].held = 0
  <2>1. PICK h \in Prompts, status \in Status : h = history[i].run /\ status = history[i].status
    BY <1>1
  <2>2. Says(h, status)'
    BY <1>1, <2>1, SaidForGood
  <2>3. QED
    BY <2>1, <2>2 DEF Says
<1>4. CASE history' = history
  BY <1>1, <1>3, <1>4 DEF HistoryIsTrue
<1>5. ASSUME NEW h \in Prompts, NEW status \in Status,
             history' = Prepend([run |-> h, status |-> status]),
             handler[h] \in {"registered", "drained"},
             Says(h, status)'
      PROVE  HistoryIsTrue'
  <2> DEFINE item == [run |-> h, status |-> status]
  <2>1. item \in Item /\ item.run = h /\ item.status = status
    BY DEF Item
  <2> HIDE DEF item
  <2>2. /\ history'[1] = item /\ Len(history') >= 1 /\ Len(history') \in Nat
        /\ \A i \in 2..Len(history') : i - 1 \in 1..Len(history) /\ history'[i] = history[i - 1]
    <3>1. history' = Prepend(item) /\ Prepend(item) \in Seq(Item)
      BY <1>1, <1>5, <2>1, PrependType DEF item
    <3>2. QED
      BY <1>1, <2>1, <3>1, PrependShifts, SMTT(30)
  <2>3. ASSUME NEW i \in 2..Len(history') PROVE history'[i].run # h
    BY <1>1, <1>5, <2>2 DEF Says
  <2>4. ASSUME NEW i \in 1..Len(history')
        PROVE  LET g == history'[i].run
               IN  /\ handler'[g] \in {"recorded", "done"}
                   /\ history'[i].status = "failed" <=> agent'[g] = "none" \/ run'[g].outcome = "error"
                   /\ history'[i].status = "cancelled" => ctx'[g] = "cancelled"
                   /\ agent'[g] # "none" => run'[g].phase = "closed" /\ run'[g].held = 0
    <3>1. CASE i = 1
      BY <1>5, <2>1, <2>2, <3>1 DEF Says
    <3>2. CASE i # 1
      <4>1. i - 1 \in 1..Len(history) /\ history'[i] = history[i - 1]
        BY <2>2, <3>2
      <4>2. QED
        BY <1>3, <4>1
    <3>3. QED
      BY <3>1, <3>2
  <2>5. ASSUME NEW i \in 1..Len(history'), NEW j \in 1..Len(history'),
               history'[i].run = history'[j].run
        PROVE  i = j
    <3>1. CASE i = 1 \/ j = 1
      BY <2>1, <2>2, <2>3, <2>5, <3>1
    <3>2. CASE i # 1 /\ j # 1
      <4>1. /\ i - 1 \in 1..Len(history) /\ history'[i] = history[i - 1]
            /\ j - 1 \in 1..Len(history) /\ history'[j] = history[j - 1]
        BY <2>2, <3>2
      <4>2. i - 1 = j - 1
        BY <1>1, <2>5, <4>1
      <4>3. QED
        BY <4>2
    <3>3. QED
      BY <3>1, <3>2
  <2>6. QED
    BY <2>4, <2>5 DEF HistoryIsTrue
<1>6. QED
  BY <1>4, <1>5, HistorySteps

\* The history holds every run at most once, and tells how it ended
\* (server.go:698-713 and 767-787).
THEOREM HistoryTrue == Spec => []HistoryIsTrue
<1>1. Init => HistoryIsTrue
  BY DEF Init, HistoryIsTrue
<1>2. Typed /\ RunAndAgent /\ HistoryIsTrue /\ [Next]_vars => HistoryIsTrue'
  BY StepHistory
<1>3. QED
  BY <1>1, <1>2, AlwaysTyped, AlwaysRunAndAgent, PTL DEF Spec

\* The run in the table has a handler that has not returned
\* (server.go:695, 1090-1113).
THEOREM ActiveServed == Spec => []ActiveRunIsServed
<1>1. Init => ActiveRunIsServed
  BY DEF Init, ActiveRunIsServed
<1>2. ASSUME Typed, ActiveRunIsServed, [Next]_vars PROVE ActiveRunIsServed'
  <2> USE <1>2 DEF Typed, TypeOK, ActiveRunIsServed, tableVars, AgentUnchanged
  <2>1. ASSUME NEW h \in Prompts, Handle(h) PROVE ActiveRunIsServed'
    <3>1. CASE Register(h)
      BY <3>1 DEF Register
    <3>2. CASE ClearRun(h)
      BY <3>2 DEF ClearRun
    <3>3. CASE Refuse(h) \/ StartRun(h) \/ RunRefused(h) \/ Pump(h) \/ Drained(h) \/ Record(h)
      BY <3>3 DEF Refuse, StartRun, RunRefused, Pump, Drained, Record
    <3>4. QED
      BY <2>1, <3>1, <3>2, <3>3 DEF Handle
  <2>2. ASSUME NEW h \in Prompts, Loop(h) \/ Ask(h) PROVE ActiveRunIsServed'
    BY <2>2 DEF Loop, AgentSays, AgentEntersTool, AgentLeavesTool, AgentAsks, AgentResolves, AgentEnds, AgentCloses,
       Ask, RegisterPending, AskGetsReply, AskGivesUp, RemovePending
  <2>3. ASSUME NEW h \in Prompts, ClientGone(h) \/ CancelTaken(h) PROVE ActiveRunIsServed'
    BY <2>3 DEF ClientGone, CancelTaken
  <2>4. CASE TakeActive \/ UNCHANGED vars
    BY <2>4 DEF TakeActive, vars
  <2>5. ASSUME NEW id \in Ids, TakePending(id) \/ SendReply(id) PROVE ActiveRunIsServed'
    BY <2>5 DEF TakePending, SendReply
  <2>6. QED
    BY <2>1, <2>2, <2>3, <2>4, <2>5 DEF Next
<1>3. QED
  BY <1>1, <1>2, AlwaysTyped, PTL DEF Spec

-----------------------------------------------------------------------------
(* What the listing goes on showing.                                        *)

InHistory(h) == \E i \in 1..Len(history) : history[i].run = h

\* The handler of a recorded run may clear it from the table: it is in the
\* history, unless its client was gone or newer runs have filled the history.
RecordedIsListed ==
  \A h \in Prompts : handler[h] = "recorded" =>
    h \in gone \/ InHistory(h) \/ Len(history) = MaxHistory

\* The history only loses a run when it is full, and it never shrinks.
LEMMA HistoryKeeps ==
  ASSUME Typed, RunAndAgent, [Next]_vars
  PROVE  /\ \A g \in Prompts : InHistory(g) => InHistory(g)' \/ Len(history) = MaxHistory
         /\ Len(history) = MaxHistory => Len(history') = MaxHistory
<1>1. history \in Seq(Item) /\ Len(history) \in Nat /\ Len(history) <= MaxHistory /\ MaxHistory \in Nat
  BY PromptServerAssumption DEF Typed, TypeOK, Item
<1>2. CASE history' = history
  BY <1>2 DEF InHistory
<1>3. CASE \E h \in Prompts, status \in Status : history' = Prepend([run |-> h, status |-> status])
  <2>1. PICK item \in Item : history' = Prepend(item)
    BY <1>3 DEF Item
  <2>2. /\ Prepend(item)[1] = item /\ Len(Prepend(item)) >= 1
        /\ \A i \in 2..Len(Prepend(item)) : i - 1 \in 1..Len(history) /\ Prepend(item)[i] = history[i - 1]
        /\ Len(Prepend(item)) = IF Len(history) < MaxHistory THEN Len(history) + 1 ELSE MaxHistory
    BY <1>1, PrependShifts
  <2>3. ASSUME NEW g \in Prompts, InHistory(g), Len(history) # MaxHistory PROVE InHistory(g)'
    <3>1. PICK i \in 1..Len(history) : history[i].run = g
      BY <2>3 DEF InHistory
    <3>2. Len(Prepend(item)) = Len(history) + 1
      BY <1>1, <2>2, <2>3
    <3>3. i + 1 \in 2..Len(Prepend(item)) /\ (i + 1) - 1 = i
      BY <1>1, <3>2
    <3>4. history'[i + 1] = history[i] /\ i + 1 \in 1..Len(history')
      BY <2>1, <2>2, <3>3
    <3>5. QED
      BY <3>1, <3>4 DEF InHistory
  <2>4. QED
    BY <1>1, <2>1, <2>2, <2>3
<1>4. QED
  BY <1>2, <1>3, HistorySteps

\* A run whose end is recorded heads the history.
LEMMA RecordedHeads ==
  ASSUME Typed, NEW h \in Prompts, RunRefused(h) \/ Record(h)
  PROVE  InHistory(h)'
<1>1. PICK item \in Item : item.run = h /\ history' = Prepend(item)
  <2>1. \E status \in Status : history' = Prepend([run |-> h, status |-> status])
    BY DEF RunRefused, Record, StatusOf, Status
  <2>2. QED
    BY <2>1 DEF Item
<1>2. history \in Seq(Item) /\ Len(history) <= MaxHistory
  BY DEF Typed, TypeOK, Item
<1>3. history'[1] = item /\ Len(history') >= 1 /\ Len(history') \in Nat
  BY <1>1, <1>2, PrependShifts, PrependType
<1>4. QED
  BY <1>1, <1>3 DEF InHistory

\* Every step keeps recorded runs listed.
LEMMA StepRecorded ==
  ASSUME Typed, RunAndAgent, RecordedIsListed, [Next]_vars
  PROVE  RecordedIsListed'
<1> SUFFICES ASSUME NEW h \in Prompts, handler'[h] = "recorded"
             PROVE  h \in gone' \/ InHistory(h)' \/ Len(history') = MaxHistory
  BY DEF RecordedIsListed
<1>1. CASE handler[h] = "recorded"
  <2>1. gone \subseteq gone'
    BY DEF Next, Handle, Refuse, Register, StartRun, RunRefused, Pump, Drained, Record, ClearRun,
       ClientGone, CancelTaken, TakeActive, TakePending, SendReply, Loop, AgentSays, AgentEntersTool, AgentLeavesTool, AgentAsks,
       AgentResolves, AgentEnds, AgentCloses, Ask, RegisterPending, AskGetsReply, AskGivesUp,
       RemovePending, AgentUnchanged, vars
  <2>2. QED
    BY <1>1, <2>1, HistoryKeeps DEF RecordedIsListed
<1>2. CASE handler[h] # "recorded"
  <2>1. handler'[h] # handler[h]
    BY <1>2
  <2>2. \E g \in Prompts : Handle(g)
    BY <2>1 DEF Next, ClientGone, CancelTaken, TakeActive, TakePending, SendReply, Loop, AgentSays, AgentEntersTool,
       AgentLeavesTool, AgentAsks, AgentResolves, AgentEnds, AgentCloses, Ask, RegisterPending, AskGetsReply,
       AskGivesUp, RemovePending, AgentUnchanged, vars
  <2>3. ASSUME NEW g \in Prompts, Handle(g) PROVE g = h
    BY <2>1, <2>3 DEF Typed, TypeOK, Handle, Refuse, Register, StartRun, RunRefused, Pump, Drained,
       Record, ClearRun
  <2>4. RunRefused(h) \/ Record(h) \/ (Pump(h) /\ h \in gone /\ gone' = gone)
    BY <1>2, <2>2, <2>3 DEF Typed, TypeOK, Handle, Refuse, Register, StartRun, RunRefused, Pump,
       Drained, Record, ClearRun
  <2>5. QED
    BY <2>4, RecordedHeads
<1>3. QED
  BY <1>1, <1>2

\* A run that the listing has shown leaves it only for the reasons the code
\* has: it was cancelled, replaced or abandoned, or newer runs fill the history
\* (server.go:775-787 before 695).
THEOREM RunsStayListed == Spec => StaysListed
<1>1. Init => RecordedIsListed
  BY DEF Init, RecordedIsListed
<1>2. Typed /\ RunAndAgent /\ RecordedIsListed /\ [Next]_vars => RecordedIsListed'
  BY StepRecorded
<1>3. ASSUME Typed, RunAndAgent, RecordedIsListed, [Next]_vars,
             NEW h \in Prompts, Listed(h), ~Listed(h)'
      PROVE  \/ h \in cancelling' \/ active' \notin {h, None} \/ h \in gone
             \/ Len(history) = MaxHistory
  <2>1. CASE InHistory(h)
    BY <1>3, <2>1, HistoryKeeps DEF Listed, InHistory
  <2>2. CASE ~InHistory(h)
    <3>1. h = active /\ active' # h
      BY <1>3, <2>2 DEF Listed, InHistory
    <3>2. CASE \E g \in Prompts : Register(g)
      BY <3>1, <3>2, NoneAssumption DEF Register
    <3>3. CASE TakeActive
      BY <3>1, <3>3 DEF TakeActive
    <3>4. CASE ClearRun(h)
      <4>1. handler[h] = "recorded"
        BY <3>4 DEF ClearRun
      <4>2. QED
        BY <1>3, <2>2, <4>1 DEF RecordedIsListed
    <3>5. CASE ~(\E g \in Prompts : Register(g)) /\ ~TakeActive /\ ~ClearRun(h)
      <4>1. ASSUME NEW g \in Prompts, Handle(g) PROVE active' = active
        <5>1. CASE ClearRun(g)
          BY <3>1, <3>5, <5>1 DEF ClearRun
        <5>2. CASE Refuse(g) \/ StartRun(g) \/ RunRefused(g) \/ Pump(g) \/ Drained(g) \/ Record(g)
          BY <5>2 DEF Refuse, StartRun, RunRefused, Pump, Drained, Record, tableVars
        <5>3. QED
          BY <3>5, <4>1, <5>1, <5>2 DEF Handle
      <4>2. ASSUME NEW g \in Prompts, Loop(g) PROVE active' = active
        BY <4>2 DEF Loop, AgentSays, AgentEntersTool, AgentLeavesTool, AgentAsks, AgentResolves, AgentEnds, AgentCloses,
           AgentUnchanged, tableVars
      <4>3. ASSUME NEW g \in Prompts, Ask(g) PROVE active' = active
        BY <4>3 DEF Ask, RegisterPending, AskGetsReply, AskGivesUp, RemovePending, AgentUnchanged,
           tableVars
      <4>4. ASSUME NEW g \in Prompts, ClientGone(g) \/ CancelTaken(g) PROVE active' = active
        BY <4>4 DEF ClientGone, CancelTaken, tableVars
      <4>5. ASSUME NEW id \in Ids, TakePending(id) \/ SendReply(id) PROVE active' = active
        BY <4>5 DEF TakePending, SendReply, AgentUnchanged, tableVars
      <4>6. ASSUME UNCHANGED vars PROVE active' = active
        BY <4>6 DEF vars
      <4>7. active' = active
        BY <1>3, <3>5, <4>1, <4>2, <4>3, <4>4, <4>5, <4>6 DEF Next
      <4>8. QED
        BY <3>1, <4>7
    <3>6. QED
      BY <3>2, <3>3, <3>4, <3>5
  <2>3. QED
    BY <2>1, <2>2
<1>4. Typed /\ RunAndAgent /\ RecordedIsListed /\ [Next]_vars =>
        [\A h \in Prompts : Listed(h) /\ ~Listed(h)' =>
           \/ h \in cancelling' \/ active' \notin {h, None} \/ h \in gone
           \/ Len(history) = MaxHistory]_vars
  BY <1>3
<1>5. QED
  BY <1>1, <1>2, <1>4, AlwaysTyped, AlwaysRunAndAgent, PTL DEF Spec, StaysListed
=============================================================================
