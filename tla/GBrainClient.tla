---------------------------- MODULE GBrainClient ----------------------------
(***************************************************************************)
(* GBrain requests behind a circuit breaker: GBrainClient.run, requestJson *)
(* and the breaker of src/core/gbrain-client.ts, in http mode.             *)
(*                                                                         *)
(* A request suspends while an attempt is on the wire and while it sleeps  *)
(* before a retry, so the breaker is read when a request starts and        *)
(* written when it ends, with other requests in between.  Timers are       *)
(* urgent: the clock does not pass an armed one.                           *)
(***************************************************************************)
EXTENDS Integers, Sequences, FiniteSets

CONSTANTS Requests,      \* concurrent callers of run
          MaxRetries,    \* config.maxRetries
          AttemptTime,   \* config.timeoutMs, the AbortSignal of an attempt
          Backoff,       \* backoffDelay of each attempt: base * 2 ** attempt
          Threshold,     \* config.circuitBreakerFailureThreshold
          ResetTime,     \* config.circuitBreakerResetMs
          MaxTime,       \* bound on the clock
          LastStart,     \* bound on the time at which a request starts
          MaxOutcomes    \* bound on the history

ASSUME GBrainAssumption ==
  /\ MaxRetries \in Nat /\ AttemptTime \in Nat /\ Backoff \in [0 .. MaxRetries -> Nat]
  /\ Threshold \in Nat \ {0} /\ ResetTime \in Nat \ {0}
  /\ MaxTime \in Nat /\ LastStart \in Nat /\ MaxOutcomes \in Nat

VARIABLES clock,     \* Date.now()
          circuit,   \* circuitState, failureCount, circuitOpenedAt
          request,   \* the control state of each request
          outcomes   \* history: the requests that ended, with time and success

vars == <<clock, circuit, request, outcomes>>

States == {"closed", "open", "half_open"}

Request == [pc : {"idle", "sending", "backoff", "ok", "failed", "refused"},
            attempt : Nat, timer : Nat]

TypeOK ==
  /\ clock \in 0 .. MaxTime
  /\ circuit \in [state : States, failures : Nat, openedAt : 0 .. MaxTime]
  /\ request \in [Requests -> Request]
  /\ \A r \in Requests : request[r].attempt <= MaxRetries
  /\ outcomes \in Seq([ok : BOOLEAN, time : 0 .. MaxTime])

Init ==
  /\ clock = 0
  /\ circuit = [state |-> "closed", failures |-> 0, openedAt |-> 0]
  /\ request = [r \in Requests |-> [pc |-> "idle", attempt |-> 0, timer |-> 0]]
  /\ outcomes = <<>>

-----------------------------------------------------------------------------
(* The breaker *)

\* Faulty variant: the operands are swapped.
SwappedElapsed(openedAt) == openedAt - clock >= ResetTime

Elapsed(openedAt) == clock - openedAt >= ResetTime

\* refreshCircuitState
Refresh(c) == IF c.state = "open" /\ Elapsed(c.openedAt)
                THEN [c EXCEPT !.state = "half_open"] ELSE c

\* Faulty variant: a success in the half-open state keeps the failures.
CloseKeepingCount(c) == [c EXCEPT !.state = "closed", !.openedAt = 0]

\* recordSuccess, in whatever state the circuit is by now
RecordSuccess(c) == [c EXCEPT !.state = "closed", !.failures = 0, !.openedAt = 0]

\* Faulty variant: the time of the first failure is kept.
KeepFirstTime(c) ==
  IF c.failures + 1 < Threshold THEN [c EXCEPT !.failures = @ + 1]
  ELSE [c EXCEPT !.failures = @ + 1, !.state = "open",
                 !.openedAt = IF c.state = "open" THEN @ ELSE clock]

\* recordFailure: it also prolongs an open circuit, and reopens a half-open one
RecordFailure(c) ==
  IF c.failures + 1 < Threshold THEN [c EXCEPT !.failures = @ + 1]
  ELSE [state |-> "open", failures |-> c.failures + 1, openedAt |-> clock]

Ended(r) == request[r].pc \notin {"sending", "backoff"}

Goto(r, pc) == request' = [request EXCEPT ![r].pc = pc]

\* run records how it ended
Record(ok) == outcomes' = Append(outcomes, [ok |-> ok, time |-> clock])

-----------------------------------------------------------------------------
(* run, up to the first attempt *)

\* the bounds of the instance
MayStart == /\ clock <= LastStart
            /\ Len(outcomes) + Cardinality({r \in Requests : ~ Ended(r)}) < MaxOutcomes

Admit(r) ==
  /\ Ended(r) /\ MayStart
  /\ circuit' = Refresh(circuit)
  /\ circuit'.state # "open"
  /\ request' = [request EXCEPT ![r] = [pc |-> "sending", attempt |-> 0,
                                        timer |-> clock + AttemptTime]]
  /\ UNCHANGED <<clock, outcomes>>

\* allowRequest says no: the fallback value is returned, marked degraded
Refuse(r) ==
  /\ Ended(r) /\ MayStart
  /\ circuit' = Refresh(circuit)
  /\ circuit'.state = "open"
  /\ Goto(r, "refused")
  /\ UNCHANGED <<clock, outcomes>>

-----------------------------------------------------------------------------
(* requestJson *)

Succeed(r) ==
  /\ request[r].pc = "sending"
  /\ circuit' = RecordSuccess(circuit)
  /\ Goto(r, "ok")
  /\ Record(TRUE)
  /\ UNCHANGED clock

\* recordFailure, and degraded looks at the circuit once more
GiveUp(r) ==
  /\ circuit' = Refresh(RecordFailure(circuit))
  /\ Goto(r, "failed")
  /\ Record(FALSE)
  /\ UNCHANGED clock

\* a 4xx answer that is not transient, or an answer that the schema rejects
FailForGood(r) == request[r].pc = "sending" /\ GiveUp(r)

RetriesLeft(r) == request[r].attempt < MaxRetries

\* a network error, a timeout or a transient status
Fail(r) ==
  /\ request[r].pc = "sending"
  /\ IF RetriesLeft(r)
       THEN /\ request' = [request EXCEPT ![r] = [pc |-> "backoff",
                 attempt |-> @.attempt, timer |-> clock + Backoff[@.attempt]]]
            /\ UNCHANGED <<clock, circuit, outcomes>>
       ELSE GiveUp(r)

\* Faulty variant: the loop counter is not advanced.
SameAttempt(r) == request[r].attempt

NextAttempt(r) == request[r].attempt + 1

\* The retry does not ask the breaker again.
Retry(r) ==
  /\ request[r].pc = "backoff" /\ clock = request[r].timer
  /\ request' = [request EXCEPT ![r] = [pc |-> "sending", attempt |-> NextAttempt(r),
                                        timer |-> clock + AttemptTime]]
  /\ UNCHANGED <<clock, circuit, outcomes>>

-----------------------------------------------------------------------------

\* getCircuitState, which health checks and metrics call
GetCircuitState == circuit' = Refresh(circuit) /\ UNCHANGED <<clock, request, outcomes>>

Tick == /\ clock < MaxTime
        /\ \A r \in Requests : Ended(r) \/ clock < request[r].timer
        /\ clock' = clock + 1
        /\ UNCHANGED <<circuit, request, outcomes>>

Next == \/ \E r \in Requests : \/ Admit(r) \/ Refuse(r) \/ Succeed(r)
                               \/ FailForGood(r) \/ Fail(r) \/ Retry(r)
        \/ GetCircuitState
        \/ Tick

Spec == Init /\ [][Next]_vars

\* Time passes, the timeout ends an attempt, a sleep ends.
FairSpec == Spec /\ WF_vars(Tick)
                 /\ \A r \in Requests : WF_vars(Fail(r)) /\ WF_vars(Retry(r))

-----------------------------------------------------------------------------
(* Properties *)

\* The circuit is a function of how the requests ended, in whatever order they
\* were started: it is closed exactly while fewer than Threshold of the last
\* ended requests failed in a row, and failureCount is the length of that run.
TripsOnRun ==
  LET f == circuit.failures
      n == Len(outcomes)
  IN  /\ f <= n
      /\ \A i \in n - f + 1 .. n : ~ outcomes[i].ok
      /\ f < n => outcomes[n - f].ok
      /\ circuit.state = "closed" <=> f < Threshold

\* An open circuit counts its time from the last failure, also when that
\* failure is of a request admitted before the circuit opened.
OpenSinceLastFailure ==
  circuit.state = "open" => circuit.openedAt = outcomes[Len(outcomes)].time

\* A caller is turned away only if some request failed less than ResetTime ago.
RefusalIsRecent ==
  (\E r \in Requests : request'[r].pc = "refused" /\ request[r] # request'[r]) =>
    \E i \in DOMAIN outcomes : ~ outcomes[i].ok /\ clock - outcomes[i].time < ResetTime

RefusalsAreRecent == [][RefusalIsRecent]_vars

\* Every request ends, and GBrain is tried again after every outage: an open
\* circuit lets the next caller through within bounded time.
RequestsEnd == \A r \in Requests : ~ Ended(r) ~> Ended(r)

TriedAgain == (circuit.state = "open") ~> (Refresh(circuit).state # "open")
=============================================================================
