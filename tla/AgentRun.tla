------------------------------- MODULE AgentRun -------------------------------
(***************************************************************************)
(* What the caller of Agent.Run sees of a run: events arrive on a bounded   *)
(* channel, a permission prompt is announced and later resolved, one        *)
(* terminal event comes last, and then the channel is closed.               *)
(*                                                                          *)
(* AgentLoop is shown to keep to this; what calls Run is modelled over it.  *)
(* A run is a record; the operators say what each step makes of it.         *)
(***************************************************************************)
EXTENDS Naturals

CONSTANT EventCap     \* capacity of the event channel (64 in the code)

ASSUME AgentRunAssumption == EventCap \in Nat \ {0}

Endings == {"completed", "aborted", "max_turns", "error"}

Run == [phase : {"running", "asking", "ended", "closed"},
        held : 0..EventCap,                       \* events in the channel
        outcome : Endings \cup {"none"}]

Begun == [phase |-> "running", held |-> 0, outcome |-> "none"]

\* A send waits for room in the channel.
MaySend(run, phase) == run.phase = phase /\ run.held < EventCap

Sent(run, phase) == [phase |-> phase, held |-> run.held + 1, outcome |-> run.outcome]

Ended(run, how) == [phase |-> "ended", held |-> run.held + 1, outcome |-> how]

Closed(run) == [run EXCEPT !.phase = "closed"]

Taken(run) == [run EXCEPT !.held = @ - 1]

\* Only a cancelled context aborts a run, but it need not: a run that was
\* cancelled may still end in any other way.
MayEnd(how, ctx) == how = "aborted" => ctx = "cancelled"

\* Whether a run may go from one record to the next in a step: an event, a
\* prompt, its resolution, the terminal event, the closing of the channel, or
\* an event received.
Step(run, next, ctx) ==
  \/ MaySend(run, "running") /\ next \in {Sent(run, "running"), Sent(run, "asking")}
  \/ MaySend(run, "asking") /\ next = Sent(run, "running")
  \/ MaySend(run, "running") /\ \E how \in Endings : MayEnd(how, ctx) /\ next = Ended(run, how)
  \/ run.phase = "ended" /\ next = Closed(run)
  \/ run.held > 0 /\ next = Taken(run)
=============================================================================
