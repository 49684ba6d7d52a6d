------------------------------- MODULE Failover -------------------------------
(***************************************************************************)
(* FailoverProvider: requests in flight share one time, that of the last    *)
(* failure of the primary.  A request decides by it where to go, calls the  *)
(* provider without the lock, and records a failure when the call returns.  *)
(***************************************************************************)
EXTENDS Naturals

CONSTANTS
  Requests,   \* the requests that may be in flight together
  Cooldown    \* FailbackAfter, in ticks of the clock

ASSUME FailoverAssumption == Cooldown \in Nat \ {0}

VARIABLES
  rest,      \* how long after lastFail the primary is still left alone; 0: it is not
  request,   \* where each request is
  trouble    \* calls of the primary may fail: it is down, or callers cancel theirs

failoverVars == <<rest, request, trouble>>

FailoverInit ==
  /\ rest = 0
  /\ request = [r \in Requests |-> "idle"]
  /\ trouble = FALSE

ShouldUsePrimary == rest = 0

\* Stream decides, under the lock.
Decide(r) ==
  /\ request[r] = "idle"
  /\ request' = [request EXCEPT ![r] = IF ShouldUsePrimary THEN "primary" ELSE "failover"]
  /\ UNCHANGED <<rest, trouble>>

PrimarySucceeds(r) ==
  /\ request[r] = "primary"
  /\ request' = [request EXCEPT ![r] = "idle"]
  /\ UNCHANGED <<rest, trouble>>

\* The primary returns an error, of whatever kind.
PrimaryFails(r) ==
  /\ request[r] = "primary" /\ trouble
  /\ request' = [request EXCEPT ![r] = "failed"]
  /\ UNCHANGED <<rest, trouble>>

RecordFailure(r) ==
  /\ request[r] = "failed"
  /\ rest' = Cooldown
  /\ request' = [request EXCEPT ![r] = "failover"]
  /\ UNCHANGED trouble

\* Mutation: a request served by the failover counts as a failure too.
FailoverReturnsRecording(r) ==
  /\ request[r] = "failover"
  /\ request' = [request EXCEPT ![r] = "idle"]
  /\ rest' = Cooldown
  /\ UNCHANGED trouble

\* The failover's stream, or an error that names both.
FailoverReturns(r) ==
  /\ request[r] = "failover"
  /\ request' = [request EXCEPT ![r] = "idle"]
  /\ UNCHANGED <<rest, trouble>>

ResetFailure ==
  /\ rest' = 0
  /\ UNCHANGED <<request, trouble>>

Tick ==
  /\ rest > 0 /\ rest' = rest - 1
  /\ UNCHANGED <<request, trouble>>

\* The primary goes down and comes back; callers cancel and stop to.
TroubleChanges ==
  /\ trouble' = ~trouble
  /\ UNCHANGED <<rest, request>>

Stream(r) ==
  PrimarySucceeds(r) \/ PrimaryFails(r) \/ RecordFailure(r) \/ FailoverReturns(r)

FailoverNext ==
  \/ \E r \in Requests : Decide(r) \/ Stream(r)
  \/ ResetFailure \/ Tick \/ TroubleChanges

\* Time passes, and calls return: their contexts, or the HTTP clients, see to
\* that.  Nobody owes a request, a reset or trouble.
FailoverFairness == WF_failoverVars(Tick) /\ \A r \in Requests : WF_failoverVars(Stream(r))

-----------------------------------------------------------------------------
(* Properties.                                                              *)

FailoverTypeOK ==
  /\ rest \in 0..Cooldown
  /\ request \in [Requests -> {"idle", "primary", "failed", "failover"}]
  /\ trouble \in BOOLEAN

\* "After FailbackAfter has elapsed since the last failure, the primary is
\* tried again" (failover.go:56): once calls of the primary have stopped
\* failing, every request goes to it in the end, and goes on to, whatever was
\* in flight, and however many requests the failover serves in between.
FailsBack ==
  <>[]~trouble => <>[](ShouldUsePrimary /\ \A r \in Requests : request[r] # "failover")
=============================================================================
