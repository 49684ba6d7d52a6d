------------------------------ MODULE TuiProofs -------------------------------
(***************************************************************************)
(* Proofs about Tui, for any number of submitted prompts and permission     *)
(* prompts, and any capacity of the queue and of the event channels.        *)
(***************************************************************************)
EXTENDS Tui, SequenceTheorems, TLAPS

InAsk == {"asking", "waiting", "returned"}

\* Runs are submitted in order; an agent inside Ask has opened a prompt.
Typed ==
  /\ TypeOK
  /\ \A r \in Runs : r > submitted => stage[r] = "idle"
  /\ \A r \in Runs : stage[r] \in {"idle", "starting"} => agent[r] = "none"
  /\ \A r \in Runs : agent[r] \in InAsk => asked[r] \in 1..MaxAsks

\* A prompt in the queue, or on the screen.
Queued(p) == \E i \in 1..Len(requests) : requests[i] = p
Out(p) == p = pendingPrompt \/ Queued(p)

\* Its agent waits for it, unless the program is quitting.
Awaited(p) == quit \/ (agent[p[1]] = "waiting" /\ Current(p[1]) = p)

\* It has been opened and put into the queue.
Put(p) == p[2] <= asked[p[1]] /\ (p = Current(p[1]) => agent[p[1]] # "asking")

\* No prompt is out twice; who is out is awaited and unanswered; and what has
\* not been put has not been answered.
Outstanding ==
  /\ \A p \in Prompts : Out(p) => Awaited(p) /\ Put(p) /\ response[p] = "none"
  /\ \A p \in Prompts : ~Put(p) => response[p] = "none"
  /\ \A i, j \in 1..Len(requests) : requests[i] = requests[j] => i = j
  /\ pendingPrompt # None => ~Queued(pendingPrompt)

\* A reply is the decision that was taken, and what Ask returned is the reply.
Answers ==
  \A p \in Prompts : /\ response[p] = decided[p]
                     /\ got[p] \in Decisions => response[p] = got[p]
                     /\ got[p] = "error" => quit

IInv == Typed /\ Outstanding /\ Answers /\ BusyMeansUnfinished

-----------------------------------------------------------------------------

\* The record of a run stays a record of a run.
LEMMA RunTypes ==
  ASSUME NEW r \in Run
  PROVE  /\ \A from \in {"running", "asking"}, to \in {"running", "asking"} :
              MaySend(r, from) => Sent(r, to) \in Run
         /\ \A how \in Endings : MaySend(r, "running") => Ended(r, how) \in Run
         /\ Closed(r) \in Run
         /\ r.held > 0 => Taken(r) \in Run
  BY AgentRunAssumption DEF Run, MaySend, Sent, Ended, Closed, Taken

\* A prompt is a run and a number.
LEMMA PromptParts ==
  ASSUME NEW p \in Prompts
  PROVE  p[1] \in Runs /\ p[2] \in 1..MaxAsks /\ p = <<p[1], p[2]>>
  BY DEF Prompts

LEMMA InitInv == Init => IInv
<1> SUFFICES ASSUME Init PROVE IInv
  OBVIOUS
<1>1. Begun \in Run
  BY AgentRunAssumption DEF Begun, Run
<1>2. Typed
  <2>1. requests \in Seq(Prompts) /\ Len(requests) = 0
    BY DEF Init
  <2>2. /\ submitted \in 0..MaxRuns /\ asked \in [Runs -> 0..MaxAsks] /\ Len(requests) <= QueueCap
    BY <2>1, TuiAssumption DEF Init
  <2>3. TypeOK
    BY <1>1, <2>1, <2>2 DEF Init, TypeOK
  <2>4. QED
    BY <2>3 DEF Init, Typed, InAsk
<1>3. Outstanding
  BY TuiAssumption DEF Init, Outstanding, Out, Queued
<1>4. Answers /\ BusyMeansUnfinished
  BY DEF Init, Answers, Decisions, BusyMeansUnfinished
<1>5. QED
  BY <1>2, <1>3, <1>4 DEF IInv

-----------------------------------------------------------------------------
(* Types.                                                                   *)

LEMMA StepTyped == ASSUME Typed, [Next]_vars PROVE Typed'
<1> USE DEF Typed, TypeOK, InAsk, uiVars, askVars
<1>1. CASE Submit
  <2>1. submitted \in Nat /\ submitted + 1 \in Runs
    BY <1>1, TuiAssumption DEF Submit, Runs
  <2>2. QED
    BY <1>1, <2>1 DEF Submit, Runs
<1>2. CASE Decide \/ Quit
  <2>1. response' \in [Prompts -> Decisions \cup {"none"}]
        /\ decided' \in [Prompts -> Decisions \cup {"none"}]
        /\ pendingPrompt' \in Prompts \cup {None}
    <3>1. CASE pendingPrompt = None
      BY <1>2, <3>1 DEF Decide, Quit
    <3>2. CASE pendingPrompt # None
      <4>1. PICK decision \in Decisions : ResolvePermissionPrompt(decision)
        BY <1>2, <3>2 DEF Decide, Quit, Decisions
      <4>2. QED
        BY <3>2, <4>1 DEF ResolvePermissionPrompt, SendResponse
    <3>3. QED
      BY <3>1, <3>2
  <2>2. UNCHANGED <<running, submitted, stage, run, agent, asked, requests, got>>
        /\ quit' \in BOOLEAN
    BY <1>2 DEF Decide, Quit, ResolvePermissionPrompt
  <2>3. QED
    BY <2>1, <2>2
<1>3. CASE ShowPrompt
  <2>1. Head(requests) \in Prompts /\ Tail(requests) \in Seq(Prompts)
        /\ Len(Tail(requests)) = Len(requests) - 1
    BY <1>3, HeadTailProperties DEF ShowPrompt
  <2>2. Len(requests) - 1 <= QueueCap
    BY TuiAssumption, LenProperties
  <2>3. QED
    BY <1>3, <2>1, <2>2 DEF ShowPrompt
<1>4. ASSUME NEW r \in Runs, Follow(r) PROVE Typed'
  <2>1. CASE StartRun(r)
    BY <2>1 DEF StartRun
  <2>2. CASE RunStarted(r)
    BY <2>2 DEF RunStarted
  <2>3. CASE AgentEvent(r)
    <3>1. run' \in [Runs -> Run]
      BY <2>3, RunTypes DEF AgentEvent
    <3>2. running' \in BOOLEAN
      BY <2>3 DEF AgentEvent
    <3>3. UNCHANGED <<pendingPrompt, quit, submitted, stage, agent, asked, askVars>>
      BY <2>3 DEF AgentEvent
    <3>4. QED
      BY <3>1, <3>2, <3>3
  <2>4. CASE EventsClosed(r)
    BY <2>4 DEF EventsClosed
  <2>5. QED
    BY <1>4, <2>1, <2>2, <2>3, <2>4 DEF Follow
<1>5. ASSUME NEW r \in Runs, Loop(r) PROVE Typed'
  <2>1. run' \in [Runs -> Run]
    BY <1>5, RunTypes DEF Loop, AgentSays, AgentAsks, AgentResolves, AgentEnds, AgentCloses
  <2>2. CASE AgentAsks(r)
    <3>1. asked[r] + 1 \in 1..MaxAsks
      BY <2>2, TuiAssumption DEF AgentAsks
    <3>2. QED
      BY <2>1, <2>2, <3>1 DEF AgentAsks
  <2>3. CASE AgentResolves(r)
    BY <2>1, <2>3 DEF AgentResolves
  <2>4. CASE AgentSays(r) \/ AgentEnds(r) \/ AgentCloses(r)
    BY <2>1, <2>4 DEF AgentSays, AgentEnds, AgentCloses
  <2>5. QED
    BY <1>5, <2>2, <2>3, <2>4 DEF Loop
<1>6. ASSUME NEW r \in Runs, Ask(r) PROVE Typed'
  <2>1. Current(r) \in Prompts
    BY <1>6 DEF Ask, PutRequest, AskGetsReply, AskGivesUp, Current, Prompts
  <2>2. CASE PutRequest(r)
    <3>1. requests' \in Seq(Prompts) /\ Len(requests') = Len(requests) + 1
      BY <2>1, <2>2, AppendProperties DEF PutRequest
    <3>2. Len(requests') <= QueueCap
      BY <2>2, <3>1, TuiAssumption, LenProperties DEF PutRequest
    <3>3. QED
      BY <2>2, <3>1, <3>2 DEF PutRequest
  <2>3. CASE AskGetsReply(r) \/ AskGivesUp(r)
    <3>1. got' \in [Prompts -> Decisions \cup {"none", "error"}]
      BY <2>1, <2>3, ZenonT(60) DEF AskGetsReply, AskGivesUp
    <3>2. agent' = [agent EXCEPT ![r] = "returned"] /\ agent[r] \in InAsk
          /\ UNCHANGED <<uiVars, run, asked, requests, response, decided>>
      BY <2>3 DEF AskGetsReply, AskGivesUp
    <3>3. QED
      BY <3>1, <3>2
  <2>4. QED
    BY <1>6, <2>2, <2>3 DEF Ask
<1>7. CASE UNCHANGED vars
  BY <1>7 DEF vars
<1>8. QED
  BY <1>1, <1>2, <1>3, <1>4, <1>5, <1>6, <1>7 DEF Next, Key, Exited

-----------------------------------------------------------------------------
(* Prompts and answers.                                                     *)

\* A step that leaves the screen, the queue and the replies alone.
LEMMA Aside ==
  ASSUME IInv,
         UNCHANGED <<pendingPrompt, requests, response, quit>>,
         \A p \in Prompts : Out(p) /\ Awaited(p) /\ Put(p) => Awaited(p)' /\ Put(p)',
         \A p \in Prompts : ~Put(p)' => ~Put(p)
  PROVE  Outstanding'
<1>1. \A p : Out(p)' <=> Out(p)
  BY DEF Out, Queued
<1>2. \A p : Queued(p)' <=> Queued(p)
  BY DEF Queued
<1>3. QED
  BY <1>1, <1>2 DEF IInv, Outstanding

\* The keys.
LEMMA KeyOut == ASSUME IInv, Key PROVE Outstanding' /\ Answers'
<1> USE DEF IInv
<1>1. CASE Submit \/ (Quit /\ pendingPrompt = None)
  <2>1. UNCHANGED <<pendingPrompt, requests, response, decided, got, agent, asked>>
        /\ (quit => quit')
    BY <1>1 DEF Submit, Quit, askVars
  <2>2. \A p : (Out(p)' <=> Out(p)) /\ (Queued(p)' <=> Queued(p)) /\ (Put(p)' <=> Put(p))
               /\ (Awaited(p) => Awaited(p)')
    BY <2>1 DEF Out, Queued, Put, Awaited, Current
  <2>3. Outstanding'
    BY <2>1, <2>2 DEF Outstanding
  <2>4. Answers'
    BY <2>1 DEF Answers
  <2>5. QED
    BY <2>3, <2>4
<1>2. CASE Decide \/ (Quit /\ pendingPrompt # None)
  <2>1. PICK decision \in Decisions :
          /\ decided' = [decided EXCEPT ![pendingPrompt] = decision]
          /\ response' = [response EXCEPT ![pendingPrompt] = IF @ = "none" THEN decision ELSE @]
          /\ pendingPrompt' = None
          /\ UNCHANGED <<requests, got, agent, asked>>
          /\ pendingPrompt # None /\ (quit => quit')
    BY <1>2 DEF Decide, Quit, ResolvePermissionPrompt, SendResponse, Decisions
  <2>2. pendingPrompt \in Prompts
    BY <2>1 DEF Typed, TypeOK
  <2>3. Out(pendingPrompt) /\ response[pendingPrompt] = "none" /\ Put(pendingPrompt)
    BY <2>2 DEF Outstanding, Out
  <2>4. /\ response'[pendingPrompt] = decision /\ decided'[pendingPrompt] = decision
        /\ \A p \in Prompts : p # pendingPrompt => response'[p] = response[p] /\ decided'[p] = decided[p]
    BY <2>1, <2>2, <2>3 DEF Typed, TypeOK
  <2>5. \A p : /\ Queued(p)' <=> Queued(p)
               /\ Put(p)' <=> Put(p)
               /\ Awaited(p) => Awaited(p)'
    BY <2>1 DEF Queued, Put, Awaited, Current
  <2>6. \A p \in Prompts : Out(p)' => Out(p) /\ p # pendingPrompt
    BY <2>1, <2>5, TuiAssumption DEF Out, Outstanding
  <2>7. Outstanding'
    BY <2>1, <2>3, <2>4, <2>5, <2>6 DEF Outstanding
  <2>8. Answers'
    <3>1. got[pendingPrompt] \notin Decisions
      BY <2>2, <2>3 DEF Answers, Decisions
    <3>2. QED
      BY <2>1, <2>4, <3>1 DEF Answers
  <2>9. QED
    BY <2>7, <2>8
<1>3. QED
  BY <1>1, <1>2 DEF Key

\* The head of the queue is shown.
LEMMA ShowOut == ASSUME IInv, ShowPrompt PROVE Outstanding' /\ Answers'
<1> USE DEF IInv
<1>1. /\ requests # <<>> /\ pendingPrompt' = Head(requests) /\ requests' = Tail(requests)
      /\ UNCHANGED <<quit, agent, asked, response, decided, got>>
  BY DEF ShowPrompt
<1>2. requests \in Seq(Prompts)
  BY DEF Typed, TypeOK
<1>3. /\ Len(requests) \in Nat \ {0} /\ Head(requests) = requests[1]
      /\ Len(Tail(requests)) = Len(requests) - 1
      /\ \A i \in 1..Len(Tail(requests)) : Tail(requests)[i] = requests[i + 1]
  BY <1>1, <1>2, HeadTailProperties, LenProperties, EmptySeq
<1>4. \A i \in 1..Len(Tail(requests)) : i + 1 \in 1..Len(requests) /\ i + 1 # 1
  BY <1>3
<1>5. \A p : Queued(p)' => Queued(p) /\ p # Head(requests)
  <2>1. ASSUME NEW i \in 1..Len(requests') PROVE requests'[i] = requests[i + 1]
    BY <1>1, <1>3
  <2>2. \A i \in 1..Len(requests') : requests[i + 1] # requests[1]
    BY <1>1, <1>3, <1>4 DEF Outstanding
  <2>3. QED
    BY <1>1, <1>3, <1>4, <2>1, <2>2 DEF Queued
<1>6. Queued(Head(requests))
  BY <1>3 DEF Queued
<1>7. \A p : Out(p)' => Out(p)
  BY <1>1, <1>5, <1>6 DEF Out
<1>8. \A p : (Put(p)' <=> Put(p)) /\ (Awaited(p)' <=> Awaited(p))
  BY <1>1 DEF Put, Awaited, Current
<1>9. \A i, j \in 1..Len(requests') : requests'[i] = requests'[j] => i = j
  <2> SUFFICES ASSUME NEW i \in 1..Len(Tail(requests)), NEW j \in 1..Len(Tail(requests)),
                      Tail(requests)[i] = Tail(requests)[j]
               PROVE  i = j
    BY <1>1
  <2>1. requests[i + 1] = requests[j + 1]
    BY <1>3
  <2>2. i + 1 = j + 1
    BY <1>4, <2>1 DEF Outstanding
  <2>3. QED
    BY <1>3, <2>2
<1>10. ~Queued(pendingPrompt)'
  BY <1>1, <1>5 DEF Queued
<1>11. Outstanding'
  BY <1>1, <1>7, <1>8, <1>9, <1>10 DEF Outstanding
<1>12. Answers'
  BY <1>1 DEF Answers
<1>13. QED
  BY <1>11, <1>12

\* The goroutines that start and follow a run, and the agent in its loop.
LEMMA RunOut ==
  ASSUME IInv, NEW r \in Runs, Follow(r) \/ Loop(r)
  PROVE  Outstanding' /\ Answers'
<1> USE DEF IInv
<1>1. UNCHANGED <<pendingPrompt, quit, requests, response, decided, got>>
  BY DEF Follow, StartRun, RunStarted, AgentEvent, EventsClosed, askVars, uiVars,
         Loop, AgentSays, AgentAsks, AgentResolves, AgentEnds, AgentCloses
<1>2. /\ \A p \in Prompts : Out(p) /\ Awaited(p) /\ Put(p) => Awaited(p)' /\ Put(p)'
      /\ \A p \in Prompts : ~Put(p)' => ~Put(p)
  <2>1. CASE UNCHANGED <<agent, asked>>
    BY <1>1, <2>1 DEF Awaited, Put, Current
  <2>2. CASE StartRun(r) \/ AgentResolves(r)
    <3>1. agent[r] \notin {"asking", "waiting"} /\ UNCHANGED asked
          /\ \E a \in {"loop"} : agent' = [agent EXCEPT ![r] = a]
      BY <2>2 DEF StartRun, AgentResolves, Typed
    <3>2. \A s \in Runs : /\ agent[s] = "waiting" => agent'[s] = "waiting"
                          /\ agent'[s] = "asking" <=> agent[s] = "asking"
      BY <3>1 DEF Typed, TypeOK
    <3>3. QED
      BY <1>1, <3>1, <3>2, PromptParts DEF Awaited, Put, Current
  <2>3. CASE AgentAsks(r)
    <3>1. /\ agent[r] = "loop" /\ agent'[r] = "asking"
          /\ asked[r] \in Nat /\ asked'[r] = asked[r] + 1
          /\ \A s \in Runs : s # r => agent'[s] = agent[s] /\ asked'[s] = asked[s]
      BY <2>3, TuiAssumption DEF AgentAsks, Typed, TypeOK
    <3>2. ASSUME NEW p \in Prompts, Awaited(p), Put(p) PROVE Awaited(p)' /\ Put(p)'
      <4>1. p[1] \in Runs /\ p[2] \in Nat
        BY PromptParts, TuiAssumption
      <4>2. CASE p[1] = r
        BY <1>1, <3>1, <3>2, <4>1, <4>2 DEF Awaited, Put, Current
      <4>3. CASE p[1] # r
        BY <1>1, <3>1, <3>2, <4>1, <4>3 DEF Awaited, Put, Current
      <4>4. QED
        BY <4>2, <4>3
    <3>3. ASSUME NEW p \in Prompts, Put(p) PROVE Put(p)'
      <4>1. p[1] \in Runs /\ p[2] \in Nat
        BY PromptParts, TuiAssumption
      <4>2. CASE p[1] = r
        <5>1. p[2] <= asked'[r] /\ p # <<r, asked'[r]>>
          BY <3>1, <3>3, <4>1, <4>2 DEF Put
        <5>2. QED
          BY <4>2, <5>1 DEF Put, Current
      <4>3. CASE p[1] # r
        BY <3>1, <3>3, <4>1, <4>3 DEF Put, Current
      <4>4. QED
        BY <4>2, <4>3
    <3>4. QED
      BY <3>2, <3>3
  <2>4. QED
    BY <2>1, <2>2, <2>3 DEF Follow, StartRun, RunStarted, AgentEvent, EventsClosed,
       Loop, AgentSays, AgentAsks, AgentResolves, AgentEnds, AgentCloses
<1>3. Outstanding'
  BY <1>1, <1>2, Aside
<1>4. Answers'
  BY <1>1 DEF Answers
<1>5. QED
  BY <1>3, <1>4

\* Ask.
LEMMA AskOut == ASSUME IInv, NEW r \in Runs, Ask(r) PROVE Outstanding' /\ Answers'
<1> USE DEF IInv
<1>1. UNCHANGED <<pendingPrompt, quit, asked, response, decided>>
  BY DEF Ask, PutRequest, AskGetsReply, AskGivesUp, uiVars
<1>2. agent[r] \in {"asking", "waiting"} /\ Current(r) \in Prompts
  BY DEF Ask, PutRequest, AskGetsReply, AskGivesUp, Typed, InAsk, Current, Prompts
<1>3. ASSUME NEW s \in Runs PROVE Current(s)' = Current(s)
  BY <1>1 DEF Current
<1>4. CASE PutRequest(r)
  <2> DEFINE c == Current(r)
             n == Len(requests)
  <2>1. /\ agent[r] = "asking" /\ agent'[r] = "waiting" /\ UNCHANGED got
        /\ \A s \in Runs : s # r => agent'[s] = agent[s]
    BY <1>4 DEF PutRequest, Typed, TypeOK
  <2>2. /\ n \in Nat /\ Len(requests') = n + 1 /\ requests'[n + 1] = c
        /\ \A i \in 1..n : requests'[i] = requests[i]
    BY <1>2, <1>4, AppendProperties, LenProperties DEF PutRequest, Typed, TypeOK
  <2>3. c[1] = r /\ c[2] = asked[r] /\ asked[r] \in Nat
    BY TuiAssumption DEF Current, Typed, TypeOK
  <2>4. ~Put(c)
    BY <2>1, <2>3 DEF Put
  <2>5. response[c] = "none" /\ ~Out(c)
    BY <1>2, <2>4 DEF Outstanding
  <2>6. \A p : Queued(p)' <=> Queued(p) \/ p = c
    BY <2>2 DEF Queued
  <2>7. \A p : Out(p)' <=> Out(p) \/ p = c
    BY <1>1, <2>6 DEF Out
  <2>8. ASSUME NEW p \in Prompts, p = c PROVE Awaited(p)' /\ Put(p)'
    <3>1. p[1] = r /\ p[2] = asked[r] /\ Current(r)' = p
      BY <1>3, <2>3, <2>8
    <3>2. QED
      BY <1>1, <2>1, <2>3, <3>1 DEF Awaited, Put
  <2>9. ASSUME NEW p \in Prompts, p # c
        PROVE  (Put(p)' <=> Put(p)) /\ (Awaited(p) => Awaited(p)')
    <3>1. p[1] \in Runs
      BY PromptParts
    <3>2. CASE p[1] = r
      BY <1>1, <1>3, <2>1, <2>9, <3>1, <3>2 DEF Put, Awaited
    <3>3. CASE p[1] # r
      BY <1>1, <1>3, <2>1, <3>1, <3>3 DEF Put, Awaited
    <3>4. QED
      BY <3>2, <3>3
  <2>10. ASSUME NEW p \in Prompts, Out(p)'
         PROVE  Awaited(p)' /\ Put(p)' /\ response'[p] = "none"
    <3>1. CASE p = c
      BY <1>1, <2>5, <2>8, <3>1
    <3>2. CASE p # c
      <4>1. Awaited(p) /\ Put(p) /\ response[p] = "none"
        BY <2>7, <2>10, <3>2 DEF Outstanding
      <4>2. QED
        BY <1>1, <2>9, <3>2, <4>1
    <3>3. QED
      BY <3>1, <3>2
  <2>11. ASSUME NEW p \in Prompts, ~Put(p)' PROVE response'[p] = "none"
    <3>1. p # c
      BY <2>8, <2>11
    <3>2. ~Put(p)
      BY <2>9, <2>11, <3>1
    <3>3. QED
      BY <1>1, <3>2 DEF Outstanding
  <2>12. ASSUME NEW i \in 1..Len(requests'), NEW j \in 1..Len(requests'),
                requests'[i] = requests'[j]
         PROVE  i = j
    <3>1. \A k \in 1..n : requests[k] # c
      BY <2>5 DEF Out, Queued
    <3>2. i \in 1..n \/ i = n + 1
      BY <2>2
    <3>3. j \in 1..n \/ j = n + 1
      BY <2>2
    <3>4. QED
      BY <2>2, <2>12, <3>1, <3>2, <3>3 DEF Outstanding
  <2>13. pendingPrompt' # None => ~Queued(pendingPrompt)'
    <3>1. pendingPrompt # c
      BY <2>5 DEF Out
    <3>2. pendingPrompt # None => ~Queued(pendingPrompt)
      BY DEF Outstanding
    <3>3. QED
      BY <1>1, <2>6, <3>1, <3>2
  <2>14. Outstanding'
    BY <2>10, <2>11, <2>12, <2>13 DEF Outstanding
  <2>15. Answers'
    BY <1>1, <2>1 DEF Answers
  <2>16. QED
    BY <2>14, <2>15
<1>5. CASE AskGetsReply(r) \/ AskGivesUp(r)
  <2>1. /\ agent' = [agent EXCEPT ![r] = "returned"] /\ UNCHANGED requests
        /\ quit \/ (agent[r] = "waiting" /\ response[Current(r)] # "none")
    BY <1>5 DEF AskGetsReply, AskGivesUp, Ctx
  <2>2. agent'[r] = "returned" /\ \A s \in Runs : s # r => agent'[s] = agent[s]
    BY <2>1 DEF Typed, TypeOK
  <2>3. ASSUME NEW p \in Prompts, Out(p), Awaited(p) PROVE Awaited(p)'
    <3>1. p[1] \in Runs
      BY PromptParts
    <3>2. response[p] = "none"
      BY <2>3 DEF Outstanding
    <3>3. quit \/ p[1] # r
      BY <2>1, <2>3, <3>2 DEF Awaited
    <3>4. QED
      BY <1>1, <1>3, <2>2, <2>3, <3>1, <3>3 DEF Awaited
  <2>4. ASSUME NEW p \in Prompts, Put(p) PROVE Put(p)'
    BY <1>1, <1>3, <2>2, <2>4, PromptParts DEF Put
  <2>5. Outstanding'
    <3>1. \A p : (Out(p)' <=> Out(p)) /\ (Queued(p)' <=> Queued(p))
      BY <1>1, <2>1 DEF Out, Queued
    <3>2. QED
      BY <1>1, <2>1, <2>3, <2>4, <3>1 DEF Outstanding
  <2>6. \A p \in Prompts : p # Current(r) => got'[p] = got[p]
    BY <1>2, <1>5 DEF AskGetsReply, AskGivesUp, Typed, TypeOK
  <2>7. CASE AskGetsReply(r)
    <3>1. got'[Current(r)] = response[Current(r)] /\ response[Current(r)] \in Decisions
      BY <1>2, <2>7 DEF AskGetsReply, Typed, TypeOK
    <3>2. Answers'
      BY <1>1, <2>6, <3>1 DEF Answers, Decisions
    <3>3. QED
      BY <2>5, <3>2
  <2>8. CASE AskGivesUp(r)
    <3>1. got'[Current(r)] = "error" /\ quit'
      BY <1>1, <1>2, <2>8 DEF AskGivesUp, Ctx, Typed, TypeOK
    <3>2. Answers'
      BY <1>1, <2>6, <3>1 DEF Answers, Decisions
    <3>3. QED
      BY <2>5, <3>2
  <2>9. QED
    BY <1>5, <2>7, <2>8
<1>6. QED
  BY <1>4, <1>5 DEF Ask

-----------------------------------------------------------------------------
(* The UI is busy only while a run is unfinished.                           *)

LEMMA StepBusy == ASSUME IInv, [Next]_vars PROVE BusyMeansUnfinished'
<1> USE DEF IInv
<1>1. CASE Submit
  <2>1. submitted + 1 \in Runs
    BY <1>1, TuiAssumption DEF Submit, Runs, Typed, TypeOK
  <2>2. stage'[submitted + 1] = "starting"
    BY <1>1, <2>1 DEF Submit, Typed, TypeOK
  <2>3. QED
    BY <2>1, <2>2 DEF BusyMeansUnfinished, Unfinished
<1>2. ASSUME NEW r \in Runs, StartRun(r) \/ RunStarted(r) PROVE BusyMeansUnfinished'
  <2>1. running' = running
        /\ \E to \in {"started", "following"} : stage' = [stage EXCEPT ![r] = to]
    BY <1>2 DEF StartRun, RunStarted
  <2>2. \A s \in Runs : Unfinished(s) => Unfinished(s)'
    BY <2>1 DEF Unfinished, Typed, TypeOK
  <2>3. QED
    BY <2>1, <2>2 DEF BusyMeansUnfinished
<1>3. ASSUME NEW r \in Runs, EventsClosed(r) PROVE BusyMeansUnfinished'
  BY <1>3 DEF EventsClosed, BusyMeansUnfinished
<1>4. CASE stage' = stage /\ (running' => running)
  BY <1>4 DEF BusyMeansUnfinished, Unfinished
<1>5. ASSUME NEW r \in Runs, AgentEvent(r) \/ Loop(r) \/ Ask(r) PROVE BusyMeansUnfinished'
  BY <1>4, <1>5 DEF AgentEvent, Loop, AgentSays, AgentAsks, AgentResolves, AgentEnds,
     AgentCloses, Ask, PutRequest, AskGetsReply, AskGivesUp, uiVars
<1>6. CASE Decide \/ Quit \/ ShowPrompt \/ UNCHANGED vars
  BY <1>4, <1>6 DEF Decide, Quit, ShowPrompt, vars, uiVars
<1>7. QED
  BY <1>1, <1>2, <1>3, <1>5, <1>6 DEF Next, Key, Follow, Exited

-----------------------------------------------------------------------------

LEMMA StepInv == ASSUME IInv, [Next]_vars PROVE IInv'
<1>1. Typed' /\ BusyMeansUnfinished'
  BY StepTyped, StepBusy DEF IInv
<1>2. CASE Key
  BY <1>1, <1>2, KeyOut DEF IInv
<1>3. CASE ShowPrompt
  BY <1>1, <1>3, ShowOut DEF IInv
<1>4. ASSUME NEW r \in Runs, Follow(r) \/ Loop(r) \/ Ask(r) PROVE IInv'
  BY <1>1, <1>4, RunOut, AskOut DEF IInv
<1>5. CASE UNCHANGED vars
  <2>1. Outstanding'
    <3>1. \A p : /\ Out(p)' <=> Out(p)
                 /\ Queued(p)' <=> Queued(p)
                 /\ Put(p)' <=> Put(p)
                 /\ Awaited(p)' <=> Awaited(p)
      BY <1>5 DEF vars, uiVars, askVars, Out, Queued, Put, Awaited, Current
    <3>2. QED
      BY <1>5, <3>1 DEF IInv, Outstanding, vars, uiVars, askVars
  <2>2. Answers'
    BY <1>5 DEF IInv, Answers, vars, uiVars, askVars
  <2>3. QED
    BY <1>1, <2>1, <2>2 DEF IInv
<1>6. QED
  BY <1>2, <1>3, <1>4, <1>5 DEF Next, Exited

\* The invariant holds of every behaviour of the terminal UI.
THEOREM Invariant == Spec => []IInv
<1>1. Init => IInv
  BY InitInv
<1>2. IInv /\ [Next]_vars => IInv'
  BY StepInv
<1>3. QED
  BY <1>1, <1>2, PTL DEF Spec

\* Every variable of the UI and of its asker keeps its type, and the queue of
\* prompts its capacity (tui.go:52-72, permission_asker.go:20-22).
THEOREM TuiTypeCorrect == Spec => []TypeOK
<1>1. IInv => TypeOK
  BY DEF IInv, Typed
<1>2. QED
  BY <1>1, Invariant, PTL

\* The prompt on the screen is one its agent waits for and nobody has answered,
\* whatever the number of runs and prompts: the send of a reply never falls into
\* its default branch (tui.go:169-173, 283-299).
THEOREM ShownIsAwaited == Spec => []ShownPromptIsAwaited
<1>1. IInv => ShownPromptIsAwaited
  BY DEF IInv, Typed, TypeOK, Outstanding, Out, Awaited, ShownPromptIsAwaited
<1>2. QED
  BY <1>1, Invariant, PTL

\* What Ask returns is the decision the user took on that very prompt, or an
\* error once the program quits (tui.go:283-299, permission_asker.go:24-40).
THEOREM RepliesReachRuns == Spec => []RepliesReachTheirRun
<1>1. IInv => RepliesReachTheirRun
  BY DEF IInv, Answers, RepliesReachTheirRun
<1>2. QED
  BY <1>1, Invariant, PTL

\* The UI refuses a submission only while some run is unfinished
\* (tui.go:151-153, 184-191).
THEOREM BusyUnfinished == Spec => []BusyMeansUnfinished
<1>1. IInv => BusyMeansUnfinished
  BY DEF IInv
<1>2. QED
  BY <1>1, Invariant, PTL
=============================================================================
