--------------------------- MODULE DelegationProofs ---------------------------
(***************************************************************************)
(* Proofs about Delegation, for any finite tree of tasks and any capacity   *)
(* of the event channels.                                                   *)
(***************************************************************************)
EXTENDS MCScheduling, TLAPS

Over == {"decided", "stated", "stored", "returned"}

\* What a verdict says of the way a child ended.
Tells(state, outcome) ==
  /\ state = "failed" <=> outcome = "error"
  /\ state = "timeout" <=> outcome = "max_turns"
  /\ state = "completed" => outcome = "completed"

\* A child that has not been started has done nothing, and who has made a call
\* has been started.
Unstarted ==
  \A t \in Tasks :
    /\ call[t] \in {"none", "registered"} => agent[t] = "none" /\ run[t] = Begun
    /\ call[t] # "none" /\ Parent[t] \in Tasks => call[Parent[t]] \notin {"none", "registered"}

\* The verdict follows the receipt of the terminal event, the last to come.
Verdicts ==
  \A t \in Tasks :
    /\ run[t].phase # "asking" /\ verdict[t] # "running"
    /\ run[t].phase \in {"ended", "closed"} => run[t].outcome \in Endings
    /\ call[t] \notin Over /\ (run[t].phase = "running" \/ run[t].held > 0) => verdict[t] = "completed"
    /\ run[t].phase \in {"ended", "closed"} /\ run[t].held = 0 => Tells(verdict[t], run[t].outcome)
    /\ call[t] \in Over => run[t].phase = "closed" /\ run[t].held = 0

\* A result is a verdict that was final.
Stored ==
  \A t \in Tasks : results[t] # "none" => call[t] \in {"stored", "returned"} /\ results[t] = verdict[t]

\* From setState on, the state is the verdict unless Cancel has come for the
\* task, which takes its cancel function with it.
Agreed ==
  \A t \in Tasks : call[t] \in {"stated", "stored", "returned"} /\ states[t] # verdict[t] =>
    states[t] = "cancelled" /\ t \notin cancels

IInv == TypeOK /\ Unstarted /\ Verdicts /\ Stored /\ Agreed /\ NothingLeftRunning

-----------------------------------------------------------------------------

\* The record of a run stays a record of a run.
LEMMA RunTypes ==
  ASSUME NEW r \in Run
  PROVE  /\ MaySend(r, "running") => Sent(r, "running") \in Run
         /\ \A how \in Endings : MaySend(r, "running") => Ended(r, how) \in Run
         /\ Closed(r) \in Run
         /\ r.held > 0 => Taken(r) \in Run
  BY AgentRunAssumption DEF Run, MaySend, Sent, Ended, Closed, Taken

\* What the terminal event makes of the verdict tells the end.
LEMMA AfterTells ==
  ASSUME NEW outcome \in Endings
  PROVE  /\ Tells(After(outcome, "completed"), outcome)
         /\ After(outcome, "completed") \in States \ {"running"}
  BY DEF After, Tells, Endings, States

LEMMA InitInv == Init => IInv
<1> SUFFICES ASSUME Init PROVE IInv
  OBVIOUS
<1>1. Begun \in Run
  BY AgentRunAssumption DEF Begun, Run
<1>2. TypeOK
  BY <1>1 DEF Init, TypeOK, States
<1>3. Unstarted /\ Verdicts /\ Stored /\ Agreed /\ NothingLeftRunning
  BY DelegationAssumption
  DEF Init, Agents, Begun, Unstarted, Verdicts, Over, Stored, Agreed, NothingLeftRunning
<1>4. QED
  BY <1>2, <1>3 DEF IInv

\* The steps of a call of the runner.
LEMMA GoInv == ASSUME IInv, NEW t \in Tasks, Go(t) PROVE IInv'
<1> USE DEF IInv
<1>0. t \in Agents /\ Parent[t] \in Agents /\ Tasks \subseteq Agents
  BY DelegationAssumption DEF Agents
<1>1. CASE RegisterTask(t)
  <2>1. TypeOK'
    BY <1>0, <1>1 DEF RegisterTask, TypeOK, runnerVars
  <2>2. Unstarted'
    BY <1>0, <1>1, DelegationAssumption DEF RegisterTask, Unstarted, TypeOK
  <2>3. Verdicts' /\ Stored' /\ Agreed' /\ NothingLeftRunning'
    BY <1>1 DEF RegisterTask, Verdicts, Over, Stored, Agreed, NothingLeftRunning, InProgress, TypeOK
  <2>4. QED
    BY <2>1, <2>2, <2>3
<1>2. CASE StartChild(t)
  <2>1. TypeOK'
    BY <1>0, <1>2 DEF StartChild, TypeOK, States
  <2>2. Unstarted'
    BY <1>0, <1>2, DelegationAssumption DEF StartChild, Unstarted, TypeOK
  <2>3. Verdicts' /\ Stored' /\ Agreed' /\ NothingLeftRunning'
    BY <1>2 DEF StartChild, Verdicts, Over, Stored, Agreed, NothingLeftRunning, InProgress, TypeOK
  <2>4. QED
    BY <2>1, <2>2, <2>3
<1>3. CASE ReadEvent(t)
  <2>1. /\ call[t] = "reading" /\ run[t].held > 0
        /\ run' = [run EXCEPT ![t] = Taken(run[t])]
        /\ verdict' = [verdict EXCEPT ![t] = IF AtEnd(t) THEN After(run[t].outcome, verdict[t]) ELSE verdict[t]]
        /\ UNCHANGED <<call, agent, cancelled, runnerVars>>
    BY <1>3 DEF ReadEvent
  <2>2. run[t] \in Run /\ Taken(run[t]) \in Run
    BY <1>0, <2>1, RunTypes DEF TypeOK
  <2>3. /\ Taken(run[t]).phase = run[t].phase /\ Taken(run[t]).outcome = run[t].outcome
        /\ Taken(run[t]).held = run[t].held - 1
    BY <2>2 DEF Taken, Run
  <2>4. verdict[t] = "completed"
    BY <2>1 DEF Verdicts, Over
  <2>5. ASSUME AtEnd(t)
        PROVE  /\ Tells(After(run[t].outcome, verdict[t]), run[t].outcome)
               /\ After(run[t].outcome, verdict[t]) \in States \ {"running"}
    BY <2>4, <2>5, AfterTells DEF AtEnd, Verdicts
  <2>6. TypeOK'
    BY <1>0, <2>1, <2>2, <2>5 DEF TypeOK, runnerVars
  <2>7. Unstarted'
    BY <2>1, DelegationAssumption DEF Unstarted, TypeOK, Agents
  <2>8. Verdicts'
    <3>1. \A u \in Tasks \ {t} : run'[u] = run[u] /\ verdict'[u] = verdict[u] /\ call'[u] = call[u]
      BY <1>0, <2>1 DEF TypeOK
    <3>2. run'[t] = Taken(run[t]) /\ call'[t] = "reading"
          /\ verdict'[t] = IF AtEnd(t) THEN After(run[t].outcome, verdict[t]) ELSE verdict[t]
      BY <1>0, <2>1 DEF TypeOK
    <3>3. run[t].held \in Nat
      BY <2>2, AgentRunAssumption DEF Run
    <3>4. CASE AtEnd(t)
      BY <2>1, <2>3, <2>5, <3>1, <3>2, <3>3, <3>4 DEF Verdicts, AtEnd, Over
    <3>5. CASE ~AtEnd(t)
      BY <2>1, <2>3, <2>4, <3>1, <3>2, <3>3, <3>5 DEF Verdicts, AtEnd, Over
    <3>6. QED
      BY <3>4, <3>5
  <2>9. Stored' /\ Agreed' /\ NothingLeftRunning'
    BY <2>1 DEF Stored, Agreed, NothingLeftRunning, InProgress, runnerVars, TypeOK
  <2>10. QED
    BY <2>6, <2>7, <2>8, <2>9
<1>4. CASE EventsEnd(t)
  <2>1. TypeOK'
    BY <1>4 DEF EventsEnd, TypeOK, States, runnerVars
  <2>2. Unstarted'
    BY <1>4 DEF EventsEnd, Unstarted, TypeOK
  <2>3. Verdicts'
    BY <1>4 DEF EventsEnd, Verdicts, Over, Tells, TypeOK, Endings
  <2>4. Stored' /\ Agreed' /\ NothingLeftRunning'
    BY <1>4 DEF EventsEnd, Stored, Agreed, NothingLeftRunning, InProgress, runnerVars, TypeOK
  <2>5. QED
    BY <2>1, <2>2, <2>3, <2>4
<1>5. CASE SetFinalState(t) \/ StoreResult(t)
  <2>1. TypeOK'
    BY <1>5 DEF SetFinalState, StoreResult, TypeOK
  <2>2. Unstarted'
    BY <1>5 DEF SetFinalState, StoreResult, Unstarted, TypeOK
  <2>3. Verdicts'
    BY <1>5 DEF SetFinalState, StoreResult, Verdicts, Over, TypeOK
  <2>4. Stored' /\ Agreed' /\ NothingLeftRunning'
    BY <1>5 DEF SetFinalState, StoreResult, Verdicts, Stored, Agreed, NothingLeftRunning, InProgress, TypeOK
  <2>5. QED
    BY <2>1, <2>2, <2>3, <2>4
<1>6. CASE ReturnTask(t)
  <2>1. TypeOK'
    BY <1>0, <1>6 DEF ReturnTask, TypeOK
  <2>2. Unstarted'
    BY <1>0, <1>6, DelegationAssumption DEF ReturnTask, Unstarted, TypeOK
  <2>3. Verdicts'
    BY <1>6 DEF ReturnTask, Verdicts, Over, TypeOK
  <2>4. Stored' /\ Agreed' /\ NothingLeftRunning'
    BY <1>6 DEF ReturnTask, Stored, Agreed, NothingLeftRunning, InProgress, TypeOK
  <2>5. QED
    BY <2>1, <2>2, <2>3, <2>4
<1>7. QED
  BY <1>1, <1>2, <1>3, <1>4, <1>5, <1>6 DEF Go

\* The agents' loops: an agent that is in its loop has been started.
LEMMA LoopInv == ASSUME IInv, NEW self \in Agents, Loop(self) PROVE IInv'
<1> USE DEF IInv
<1>1. run[self] \in Run
  BY DEF TypeOK
<1>2. self \in Tasks => call[self] \notin {"none", "registered"}
  BY DEF Loop, AgentSays, EnterTool, LeaveTool, AgentEnds, AgentCloses, Unstarted
<1>3. PICK next \in Run :
        /\ run' = [run EXCEPT ![self] = next]
        /\ \/ next = run[self]
           \/ MaySend(run[self], "running") /\ next = Sent(run[self], "running")
           \/ /\ MaySend(run[self], "running")
              /\ \E how \in Endings : next = Ended(run[self], how)
           \/ run[self].phase = "ended" /\ next = Closed(run[self])
  <2>1. CASE EnterTool(self) \/ LeaveTool(self)
    BY <1>1, <2>1 DEF EnterTool, LeaveTool, TypeOK
  <2>2. CASE AgentSays(self) \/ AgentEnds(self) \/ AgentCloses(self)
    BY <1>1, <2>2, RunTypes DEF AgentSays, AgentEnds, AgentCloses
  <2>3. QED
    BY <2>1, <2>2 DEF Loop
<1>4. /\ UNCHANGED <<call, cancelled, verdict, runnerVars>>
      /\ agent' \in [Agents -> {"none", "loop", "task", "tool", "gone"}]
      /\ \A other \in Agents : agent[other] = "none" => agent'[other] = "none"
  BY DEF Loop, AgentSays, EnterTool, LeaveTool, AgentEnds, AgentCloses, AgentUnchanged, TypeOK
<1>5. \A other \in Agents \ {self} : run'[other] = run[other]
  BY <1>3 DEF TypeOK
<1>6. run'[self] = next
  BY <1>3 DEF TypeOK
<1>7. TypeOK'
  BY <1>3, <1>4 DEF TypeOK, runnerVars
<1>8. Unstarted'
  BY <1>2, <1>4, <1>5 DEF Unstarted, Agents
<1>9. Verdicts'
  <2>1. \A t \in Tasks : t # self => run'[t] = run[t]
    BY <1>5 DEF Agents
  <2>2. next.held \in Nat /\ run[self].held \in Nat
    BY <1>1, AgentRunAssumption DEF Run
  <2>3. self \in Tasks =>
          /\ next.phase # "asking"
          /\ next.phase \in {"ended", "closed"} => next.outcome \in Endings
          /\ call[self] \notin Over /\ (next.phase = "running" \/ next.held > 0) => verdict[self] = "completed"
          /\ next.phase \in {"ended", "closed"} /\ next.held = 0 => Tells(verdict[self], next.outcome)
          /\ call[self] \notin Over \/ next = run[self]
    <3> SUFFICES ASSUME self \in Tasks
                 PROVE  /\ next.phase # "asking"
                        /\ next.phase \in {"ended", "closed"} => next.outcome \in Endings
                        /\ call[self] \notin Over /\ (next.phase = "running" \/ next.held > 0) => verdict[self] = "completed"
                        /\ next.phase \in {"ended", "closed"} /\ next.held = 0 => Tells(verdict[self], next.outcome)
                        /\ call[self] \notin Over \/ next = run[self]
      OBVIOUS
    <3>1. CASE MaySend(run[self], "running") /\ next = Sent(run[self], "running")
      BY <2>2, <3>1 DEF Verdicts, MaySend, Sent, Over
    <3>2. CASE MaySend(run[self], "running") /\ \E how \in Endings : next = Ended(run[self], how)
      BY <2>2, <3>2 DEF Verdicts, MaySend, Ended, Over
    <3>3. CASE run[self].phase = "ended" /\ next = Closed(run[self])
      <4>1. next.phase = "closed" /\ next.held = run[self].held /\ next.outcome = run[self].outcome
        BY <1>1, <3>3 DEF Closed, Run
      <4>2. QED
        BY <3>3, <4>1 DEF Verdicts
    <3>4. CASE next = run[self]
      BY <3>4 DEF Verdicts
    <3>5. QED
      BY <1>3, <3>1, <3>2, <3>3, <3>4
  <2>4. QED
    BY <1>4, <1>6, <2>1, <2>3 DEF Verdicts
<1>10. Stored' /\ Agreed' /\ NothingLeftRunning'
  BY <1>4 DEF Stored, Agreed, NothingLeftRunning, InProgress, runnerVars
<1>11. QED
  BY <1>7, <1>8, <1>9, <1>10

\* Cancellation, and the receiver of the root's events.
LEMMA OtherInv ==
  ASSUME IInv, (\E t \in Tasks : CancelTask(t)) \/ RootReceives \/ CancelRoot
  PROVE  IInv'
<1> USE DEF IInv
<1>1. ASSUME NEW t \in Tasks, CancelTask(t) PROVE IInv'
  <2>1. TypeOK'
    BY <1>1 DEF CancelTask, TypeOK, States, Agents
  <2>2. Unstarted' /\ Verdicts' /\ Stored'
    BY <1>1 DEF CancelTask, Unstarted, Verdicts, Stored
  <2>3. NothingLeftRunning'
    BY <1>1 DEF CancelTask, NothingLeftRunning, InProgress, TypeOK
  <2>4. Agreed'
    BY <1>1 DEF CancelTask, Agreed, TypeOK
  <2>5. QED
    BY <2>1, <2>2, <2>3, <2>4
<1>2. CASE CancelRoot
  BY <1>2 DEF CancelRoot, TypeOK, Agents, Unstarted, Verdicts, Stored, Agreed, NothingLeftRunning, InProgress, runnerVars
<1>3. CASE RootReceives
  <2>1. Root \in Agents /\ Root \notin Tasks /\ Tasks \subseteq Agents
    BY DelegationAssumption DEF Agents
  <2>2. run' \in [Agents -> Run] /\ \A t \in Tasks : run'[t] = run[t]
    BY <1>3, <2>1, RunTypes DEF RootReceives, TypeOK
  <2>3. UNCHANGED <<call, agent, cancelled, verdict, runnerVars>>
    BY <1>3 DEF RootReceives, AgentUnchanged
  <2>4. QED
    BY <2>2, <2>3 DEF TypeOK, Unstarted, Verdicts, Stored, Agreed, NothingLeftRunning, InProgress, runnerVars
<1>4. QED
  BY <1>1, <1>2, <1>3

LEMMA StepInv == ASSUME IInv, [Next]_vars PROVE IInv'
<1>1. CASE Next
  BY <1>1, GoInv, LoopInv, OtherInv DEF Next
<1>2. CASE UNCHANGED vars
  BY <1>2 DEF vars, runnerVars, IInv, TypeOK, Unstarted, Verdicts, Stored, Agreed, NothingLeftRunning, InProgress
<1>3. QED
  BY <1>1, <1>2

\* However deep agents delegate, and whatever cancels them.
THEOREM Invariant == Spec => []IInv
<1>1. IInv /\ [Next]_vars => IInv'
  BY StepInv
<1>2. QED
  BY <1>1, InitInv, PTL DEF Spec

\* The types of the runner's maps and of the agents (subagent_runner.go:15-22).
THEOREM DelegationTypeCorrect == Spec => []TypeOK
<1>1. IInv => TypeOK
  BY DEF IInv
<1>2. QED
  BY <1>1, Invariant, PTL

\* No task that is over is reported as running, and no cancel function outlives
\* its call (subagent_runner.go:51-61, 134-152).
THEOREM NothingRemains == Spec => []NothingLeftRunning
<1>1. IInv => NothingLeftRunning
  BY DEF IInv
<1>2. QED
  BY <1>1, Invariant, PTL

\* A stored result says how the child ended (subagent_runner.go:80-134).
THEOREM ResultsTellTheEnd == Spec => []ResultTellsTheEnd
<1>1. IInv => ResultTellsTheEnd
  BY DEF IInv, Stored, Verdicts, Tells, Over, ResultTellsTheEnd
<1>2. QED
  BY <1>1, Invariant, PTL

\* Status and result of a task that is over agree, unless Cancel was called for
\* it (subagent_runner.go:126-152 and 173-182).
THEOREM StatusAgrees == Spec => []StatusAgreesWithResult
<1>1. IInv => StatusAgreesWithResult
  BY DEF IInv, Agreed, Stored, StatusAgreesWithResult
<1>2. QED
  BY <1>1, Invariant, PTL

-----------------------------------------------------------------------------
(* The provider that fails over, and the two side by side.                  *)

\* The types of what requests share and where each is: the cooldown never
\* exceeds what it is set to (failover.go:38-60).
THEOREM FailoverTypeCorrect ==
  FailoverInit /\ [][FailoverNext]_failoverVars => []FailoverTypeOK
<1>1. FailoverInit => FailoverTypeOK
  <2> SUFFICES ASSUME FailoverInit PROVE FailoverTypeOK
    OBVIOUS
  <2>1. rest \in 0..Cooldown
    BY FailoverAssumption DEF FailoverInit
  <2>2. request \in [Requests -> {"idle", "primary", "failed", "failover"}] /\ trouble \in BOOLEAN
    BY DEF FailoverInit
  <2>3. QED
    BY <2>1, <2>2 DEF FailoverTypeOK
<1>2. FailoverTypeOK /\ [FailoverNext]_failoverVars => FailoverTypeOK'
  <2> SUFFICES ASSUME FailoverTypeOK, [FailoverNext]_failoverVars PROVE FailoverTypeOK'
    OBVIOUS
  <2>1. ASSUME NEW r \in Requests, Decide(r) \/ Stream(r) PROVE FailoverTypeOK'
    <3>1. PICK place \in {"idle", "primary", "failed", "failover"} :
            request' = [request EXCEPT ![r] = place]
      BY <2>1 DEF Decide, Stream, PrimarySucceeds, PrimaryFails, RecordFailure, FailoverReturns
    <3>2. trouble' = trouble /\ rest' \in {rest, Cooldown}
      BY <2>1 DEF Decide, Stream, PrimarySucceeds, PrimaryFails, RecordFailure, FailoverReturns
    <3>3. QED
      BY <3>1, <3>2, FailoverAssumption DEF FailoverTypeOK
  <2>2. CASE ResetFailure \/ Tick
    BY <2>2, FailoverAssumption DEF ResetFailure, Tick, FailoverTypeOK
  <2>3. CASE TroubleChanges
    BY <2>3 DEF TroubleChanges, FailoverTypeOK
  <2>4. CASE UNCHANGED failoverVars
    BY <2>4 DEF failoverVars, FailoverTypeOK
  <2>5. QED
    BY <2>1, <2>2, <2>3, <2>4 DEF FailoverNext
<1>3. QED
  BY <1>1, <1>2, PTL

\* Type correctness of the runner and the failover, whichever of them takes
\* steps, for any tree of agents, number of requests and cooldown.
THEOREM SchedulingTypeCorrect == SchedSpec => []TypesOK
<1>1. SchedInit => Init /\ FailoverInit
  BY DEF SchedInit
<1>2. [SchedNext]_allVars => [Next]_vars /\ [FailoverNext]_failoverVars
  BY DEF SchedNext, allVars
<1>3. SchedSpec => Spec /\ FailoverInit /\ [][FailoverNext]_failoverVars
  BY <1>1, <1>2, PTL DEF SchedSpec, Spec
<1>4. QED
  BY <1>3, DelegationTypeCorrect, FailoverTypeCorrect, PTL DEF TypesOK
=============================================================================
