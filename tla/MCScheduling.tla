---------------------------- MODULE MCScheduling ------------------------------
(***************************************************************************)
(* Small instances of what must come about when goroutines are scheduled    *)
(* fairly: a prompt request that is cancelled, agents that delegate to one  *)
(* another, and a provider that fails over.  A behaviour takes the steps of *)
(* one of them, "part"; the others rest in their initial states, in which   *)
(* none of the actions that fairness is about is enabled.                   *)
(***************************************************************************)
EXTENDS Delegation, Failover

CONSTANTS
  a, b,                        \* tasks
  p1,                          \* a prompt
  None, Replies, MaxHistory, MaxAsks

VARIABLES
  part,
  handler, ctx, gone, served, serving, asked, active, cancelling,
  history, pending, taken, replied, got

\* The root delegates a task, and the child it is given to delegates further.
Two == {a, b}
Tree == [t \in Two |-> IF t = b THEN a ELSE Root]

\* One prompt request, whose events are streamed.
Server ==
  INSTANCE PromptServer WITH
    Prompts <- {p1}, Streaming <- {p1}, run <- served, agent <- serving

serverVars ==
  <<handler, ctx, gone, served, serving, asked, active, cancelling,
    history, pending, taken, replied, got>>

allVars == <<part, vars, failoverVars, serverVars>>

SchedInit ==
  /\ part \in {"delegation", "failover", "server"}
  /\ Init /\ FailoverInit /\ Server!Init

SchedNext ==
  /\ UNCHANGED part
  /\ \/ part = "delegation" /\ Next /\ UNCHANGED <<failoverVars, serverVars>>
     \/ part = "failover" /\ FailoverNext /\ UNCHANGED <<vars, serverVars>>
     \/ part = "server" /\ Server!Next /\ UNCHANGED <<vars, failoverVars>>

SchedSpec ==
  /\ SchedInit /\ [][SchedNext]_allVars
  /\ Fairness /\ FailoverFairness /\ Server!Fairness

\* Every variable of the subagent runner and of the failover keeps its type.
TypesOK == TypeOK /\ FailoverTypeOK

\* A cancelled prompt request returns: whatever cancelled it, and wherever its
\* agent was, as long as the agent's tools return (server.go:737-765, 1193-1198).
CancelEndsRequest == Server!CancelEndsRequest
=============================================================================
