------------------------- MODULE GBrainClientProofs -------------------------
(***************************************************************************)
(* The circuit breaker of GBrainClient follows the outcomes of the         *)
(* requests, for any number of concurrent requests, retries and bounds.    *)
(***************************************************************************)
EXTENDS GBrainClient, TLAPS

\* A request that sleeps has an attempt left.
BackoffHasNext ==
  \A r \in Requests : request[r].pc = "backoff" => request[r].attempt < MaxRetries

IInv == TypeOK /\ TripsOnRun /\ OpenSinceLastFailure /\ BackoffHasNext

LEMMA InitIInv == Init => IInv
<1> SUFFICES ASSUME Init PROVE IInv
  OBVIOUS
<1>. QED
  BY GBrainAssumption
  DEF Init, IInv, TypeOK, TripsOnRun, OpenSinceLastFailure, BackoffHasNext, States, Request

\* Looking at the circuit changes nothing but open to half-open.
LEMMA RefreshStep ==
  ASSUME IInv, clock' = clock, outcomes' = outcomes, circuit' = Refresh(circuit)
  PROVE  /\ TripsOnRun' /\ OpenSinceLastFailure'
         /\ circuit' \in [state : States, failures : Nat, openedAt : 0 .. MaxTime]
<1>1. CASE circuit' = circuit
  BY <1>1 DEF IInv, TypeOK, TripsOnRun, OpenSinceLastFailure
<1>2. CASE circuit' # circuit
  <2>1. circuit.state = "open" /\ circuit' = [circuit EXCEPT !.state = "half_open"]
    BY <1>2 DEF Refresh
  <2>2. /\ circuit' \in [state : States, failures : Nat, openedAt : 0 .. MaxTime]
        /\ circuit'.state = "half_open" /\ circuit'.failures = circuit.failures
    BY <2>1 DEF IInv, TypeOK, States
  <2>3. TripsOnRun'
    BY <2>1, <2>2 DEF IInv, TripsOnRun
  <2>. QED
    BY <2>2, <2>3 DEF OpenSinceLastFailure
<1>. QED
  BY <1>1, <1>2

LEMMA AppendFacts ==
  ASSUME IInv, NEW ok \in BOOLEAN, Record(ok)
  PROVE  /\ outcomes' \in Seq([ok : BOOLEAN, time : 0 .. MaxTime])
         /\ Len(outcomes') = Len(outcomes) + 1 /\ Len(outcomes) \in Nat
         /\ \A i \in 1 .. Len(outcomes) : outcomes'[i] = outcomes[i]
         /\ outcomes'[Len(outcomes) + 1] = [ok |-> ok, time |-> clock]
  BY DEF IInv, TypeOK, Record

\* A success ends the run of failures and closes the circuit.
LEMMA SuccessStep ==
  ASSUME IInv, clock' = clock, Record(TRUE), circuit' = RecordSuccess(circuit)
  PROVE  /\ TripsOnRun' /\ OpenSinceLastFailure'
         /\ circuit' \in [state : States, failures : Nat, openedAt : 0 .. MaxTime]
<1>1. /\ circuit' \in [state : States, failures : Nat, openedAt : 0 .. MaxTime]
      /\ circuit'.state = "closed" /\ circuit'.failures = 0
  <2>1. circuit' = [circuit EXCEPT !.state = "closed", !.failures = 0, !.openedAt = 0]
    BY DEF RecordSuccess
  <2>2. circuit' = [state |-> "closed", failures |-> 0, openedAt |-> 0]
    BY <2>1 DEF IInv, TypeOK
  <2>3. 0 \in 0 .. MaxTime
    BY GBrainAssumption
  <2>. QED
    BY <2>2, <2>3 DEF States
<1>2. TripsOnRun'
  <2> DEFINE n == Len(outcomes)
  <2>1. /\ Len(outcomes') = n + 1 /\ n \in Nat
        /\ outcomes'[n + 1] = [ok |-> TRUE, time |-> clock]
    BY AppendFacts
  <2>2. (n + 1) - 0 + 1 .. n + 1 = {} /\ (n + 1) - 0 = n + 1
    BY <2>1
  <2>. QED
    BY <1>1, <2>1, <2>2, GBrainAssumption DEF TripsOnRun
<1>. QED
  BY <1>1, <1>2 DEF OpenSinceLastFailure

\* A failure makes the run longer by one, and opens the circuit at Threshold.
LEMMA FailureStep ==
  ASSUME IInv, clock' = clock, Record(FALSE), circuit' = Refresh(RecordFailure(circuit))
  PROVE  /\ TripsOnRun' /\ OpenSinceLastFailure'
         /\ circuit' \in [state : States, failures : Nat, openedAt : 0 .. MaxTime]
<1> DEFINE f == circuit.failures
           n == Len(outcomes)
<1>1. f \in Nat /\ n \in Nat /\ clock \in 0 .. MaxTime /\ clock \in Int
  BY DEF IInv, TypeOK
<1>2. /\ circuit' \in [state : States, failures : Nat, openedAt : 0 .. MaxTime]
      /\ circuit'.failures = f + 1
      /\ circuit'.state = "closed" <=> f + 1 < Threshold
      /\ circuit'.state = "open" => circuit'.openedAt = clock
  <2>1. CASE f + 1 < Threshold
    <3>1. circuit.state = "closed"
      BY <1>1, <2>1, GBrainAssumption DEF IInv, TripsOnRun
    <3>2. RecordFailure(circuit) = [circuit EXCEPT !.failures = @ + 1]
      BY <2>1 DEF RecordFailure
    <3>3. circuit' = [circuit EXCEPT !.failures = @ + 1]
      BY <3>1, <3>2 DEF Refresh, IInv, TypeOK
    <3>. QED
      BY <1>1, <2>1, <3>1, <3>3 DEF IInv, TypeOK
  <2>2. CASE ~ (f + 1 < Threshold)
    <3>1. RecordFailure(circuit) =
            [state |-> "open", failures |-> f + 1, openedAt |-> clock]
      BY <2>2 DEF RecordFailure
    <3>2. /\ circuit' \in [state : States, failures : Nat, openedAt : 0 .. MaxTime]
          /\ circuit'.failures = f + 1 /\ circuit'.openedAt = clock
          /\ circuit'.state \in {"open", "half_open"}
      BY <1>1, <3>1 DEF Refresh, States
    <3>. QED
      BY <2>2, <3>2
  <2>. QED
    BY <2>1, <2>2
<1>3. TripsOnRun'
  <2>1. /\ f <= n /\ \A i \in n - f + 1 .. n : ~ outcomes[i].ok
        /\ f < n => outcomes[n - f].ok
    BY DEF IInv, TripsOnRun
  <2>2. /\ Len(outcomes') = n + 1
        /\ \A i \in 1 .. n : outcomes'[i] = outcomes[i]
        /\ outcomes'[n + 1] = [ok |-> FALSE, time |-> clock]
    BY AppendFacts
  <2>3. ASSUME NEW i \in (n + 1) - (f + 1) + 1 .. n + 1
        PROVE  ~ outcomes'[i].ok
    <3>1. CASE i = n + 1
      BY <2>2, <3>1
    <3>2. CASE i # n + 1
      <4>1. i \in n - f + 1 .. n /\ i \in 1 .. n
        BY <1>1, <2>1, <2>3, <3>2
      <4>. QED
        BY <2>1, <2>2, <4>1
    <3>. QED
      BY <3>1, <3>2
  <2>4. f + 1 < n + 1 => outcomes'[(n + 1) - (f + 1)].ok
    <3>1. (n + 1) - (f + 1) = n - f
      BY <1>1
    <3>2. f < n => n - f \in 1 .. n
      BY <1>1
    <3>. QED
      BY <1>1, <2>1, <2>2, <3>1, <3>2
  <2>. QED
    BY <1>1, <1>2, <2>1, <2>2, <2>3, <2>4 DEF TripsOnRun
<1>4. OpenSinceLastFailure'
  <2>1. /\ Len(outcomes') = n + 1
        /\ outcomes'[n + 1] = [ok |-> FALSE, time |-> clock]
    BY AppendFacts
  <2>. QED
    BY <1>2, <2>1 DEF OpenSinceLastFailure
<1>. QED
  BY <1>2, <1>3, <1>4

-----------------------------------------------------------------------------
(* Steps *)

FitsBounds(v) == /\ v.attempt <= MaxRetries
                 /\ v.pc = "backoff" => v.attempt < MaxRetries

RequestOK(rs) == /\ rs \in [Requests -> Request]
                 /\ \A r \in Requests : FitsBounds(rs[r])

\* One request gets a new control state.
LEMMA UpdateStep ==
  ASSUME IInv, NEW r \in Requests, NEW v \in Request, FitsBounds(v),
         request' = [request EXCEPT ![r] = v]
  PROVE  RequestOK(request')
<1>1. request' \in [Requests -> Request]
  BY DEF IInv, TypeOK
<1>2. \A q \in Requests : request'[q] = IF q = r THEN v ELSE request[q]
  BY DEF IInv, TypeOK
<1>3. ASSUME NEW q \in Requests PROVE FitsBounds(request'[q])
  <2>1. CASE q = r
    BY <1>2, <2>1
  <2>2. CASE q # r
    BY <1>2, <2>2 DEF IInv, TypeOK, BackoffHasNext, FitsBounds
  <2>. QED
    BY <2>1, <2>2
<1>. QED
  BY <1>1, <1>3 DEF RequestOK

LEMMA GotoStep ==
  ASSUME IInv, NEW r \in Requests, NEW pc \in {"ok", "failed", "refused"}, Goto(r, pc)
  PROVE  RequestOK(request')
<1> DEFINE v == [request[r] EXCEPT !.pc = pc]
<1>1. request[r] \in Request /\ request[r].attempt <= MaxRetries
  BY DEF IInv, TypeOK
<1>2. v = [pc |-> pc, attempt |-> request[r].attempt, timer |-> request[r].timer]
  BY <1>1 DEF Request
<1>3. v \in Request /\ FitsBounds(v)
  BY <1>1, <1>2 DEF Request, FitsBounds
<1>4. request' = [request EXCEPT ![r] = v]
  BY Zenon DEF Goto
<1> HIDE DEF v
<1>. QED
  BY <1>3, <1>4, UpdateStep

LEMMA StartStep ==
  ASSUME IInv, NEW r \in Requests, Admit(r) \/ Refuse(r)
  PROVE  IInv'
<1>1. clock' = clock /\ outcomes' = outcomes /\ circuit' = Refresh(circuit)
  BY DEF Admit, Refuse
<1>2. RequestOK(request')
  <2>1. CASE Admit(r)
    <3> DEFINE v == [pc |-> "sending", attempt |-> 0, timer |-> clock + AttemptTime]
    <3>1. v \in Request /\ FitsBounds(v)
      BY GBrainAssumption DEF IInv, TypeOK, Request, FitsBounds
    <3>2. request' = [request EXCEPT ![r] = v]
      BY <2>1, Zenon DEF Admit
    <3> HIDE DEF v
    <3>. QED
      BY <3>1, <3>2, UpdateStep
  <2>2. CASE Refuse(r)
    BY <2>2, GotoStep DEF Refuse
  <2>. QED
    BY <2>1, <2>2
<1>. QED
  BY <1>1, <1>2, RefreshStep DEF IInv, TypeOK, RequestOK, FitsBounds, BackoffHasNext

LEMMA GiveUpStep ==
  ASSUME IInv, NEW r \in Requests, GiveUp(r)
  PROVE  IInv'
<1>1. /\ clock' = clock /\ Record(FALSE) /\ Goto(r, "failed")
      /\ circuit' = Refresh(RecordFailure(circuit))
  BY DEF GiveUp
<1>2. RequestOK(request')
  BY <1>1, GotoStep
<1>3. outcomes' \in Seq([ok : BOOLEAN, time : 0 .. MaxTime])
  BY <1>1, AppendFacts
<1>. QED
  BY <1>1, <1>2, <1>3, FailureStep DEF IInv, TypeOK, RequestOK, FitsBounds, BackoffHasNext

LEMMA SucceedStep ==
  ASSUME IInv, NEW r \in Requests, Succeed(r)
  PROVE  IInv'
<1>1. /\ clock' = clock /\ Record(TRUE) /\ Goto(r, "ok")
      /\ circuit' = RecordSuccess(circuit)
  BY DEF Succeed
<1>2. RequestOK(request')
  BY <1>1, GotoStep
<1>3. outcomes' \in Seq([ok : BOOLEAN, time : 0 .. MaxTime])
  BY <1>1, AppendFacts
<1>. QED
  BY <1>1, <1>2, <1>3, SuccessStep DEF IInv, TypeOK, RequestOK, FitsBounds, BackoffHasNext

\* An attempt that is retried changes nothing but its request.
LEMMA RetryStep ==
  ASSUME IInv, NEW r \in Requests,
         (Fail(r) /\ RetriesLeft(r)) \/ Retry(r)
  PROVE  IInv'
<1>0. /\ request[r] \in Request /\ request[r].attempt <= MaxRetries
      /\ request[r].attempt \in Nat /\ clock \in Nat
  BY DEF IInv, TypeOK, Request
<1>1. UNCHANGED <<clock, circuit, outcomes>>
  BY DEF Fail, Retry
<1>2. RequestOK(request')
  <2>1. CASE Fail(r) /\ RetriesLeft(r)
    <3> DEFINE v == [pc |-> "backoff", attempt |-> request[r].attempt,
                     timer |-> clock + Backoff[request[r].attempt]]
    <3>1. Backoff[request[r].attempt] \in Nat
      BY <1>0, GBrainAssumption
    <3>2. v \in Request /\ FitsBounds(v)
      BY <1>0, <2>1, <3>1 DEF Request, FitsBounds, RetriesLeft
    <3>3. request' = [request EXCEPT ![r] = v]
      BY <2>1, Zenon DEF Fail
    <3> HIDE DEF v
    <3>. QED
      BY <3>2, <3>3, UpdateStep
  <2>2. CASE Retry(r)
    <3> DEFINE v == [pc |-> "sending", attempt |-> NextAttempt(r),
                     timer |-> clock + AttemptTime]
    <3>1. v \in Request /\ FitsBounds(v)
      BY <1>0, <2>2, GBrainAssumption DEF Retry, NextAttempt, Request, FitsBounds, IInv, BackoffHasNext
    <3>2. request' = [request EXCEPT ![r] = v]
      BY <2>2, Zenon DEF Retry
    <3> HIDE DEF v
    <3>. QED
      BY <3>1, <3>2, UpdateStep
  <2>. QED
    BY <2>1, <2>2
<1>3. TripsOnRun' /\ OpenSinceLastFailure'
  BY <1>1 DEF IInv, TripsOnRun, OpenSinceLastFailure
<1>. QED
  BY <1>1, <1>2, <1>3 DEF IInv, TypeOK, RequestOK, FitsBounds, BackoffHasNext

\* Time passes.
LEMMA TickStep ==
  ASSUME IInv, Tick
  PROVE  IInv'
<1>1. clock' \in 0 .. MaxTime /\ UNCHANGED <<circuit, request, outcomes>>
  BY GBrainAssumption DEF Tick, IInv, TypeOK
<1>. QED
  BY <1>1 DEF IInv, TypeOK, TripsOnRun, OpenSinceLastFailure, BackoffHasNext

LEMMA NextStep ==
  ASSUME IInv, [Next]_vars
  PROVE  IInv'
<1>1. ASSUME NEW r \in Requests, Fail(r) PROVE IInv'
  <2>1. CASE RetriesLeft(r)
    BY <1>1, <2>1, RetryStep
  <2>2. CASE ~ RetriesLeft(r)
    BY <1>1, <2>2, GiveUpStep DEF Fail
  <2>. QED
    BY <2>1, <2>2
<1>2. ASSUME NEW r \in Requests, FailForGood(r) PROVE IInv'
  BY <1>2, GiveUpStep DEF FailForGood
<1>3. CASE GetCircuitState
  <2>1. circuit' = Refresh(circuit) /\ UNCHANGED <<clock, request, outcomes>>
    BY <1>3 DEF GetCircuitState
  <2>. QED
    BY <2>1, RefreshStep DEF IInv, TypeOK, BackoffHasNext
<1>4. CASE UNCHANGED vars
  BY <1>4 DEF vars, IInv, TypeOK, TripsOnRun, OpenSinceLastFailure, BackoffHasNext
<1>. QED
  BY <1>1, <1>2, <1>3, <1>4, StartStep, SucceedStep, RetryStep, TickStep DEF Next

LEMMA Invariance == Spec => []IInv
<1>1. IInv /\ [Next]_vars => IInv'
  BY NextStep
<1>. QED
  BY InitIInv, <1>1, PTL DEF Spec

-----------------------------------------------------------------------------
(* Theorems *)

\* The breaker and the requests keep their types, and no request makes more
\* than MaxRetries + 1 attempts (requestJson).
THEOREM TypeCorrect == Spec => []TypeOK
<1>1. IInv => TypeOK
  BY DEF IInv
<1>. QED
  BY <1>1, Invariance, PTL

\* The circuit is closed exactly while fewer than Threshold requests in a row
\* have failed (recordSuccess and recordFailure), in any order of arrival.
THEOREM FollowsOutcomes == Spec => []TripsOnRun
<1>1. IInv => TripsOnRun
  BY DEF IInv
<1>. QED
  BY <1>1, Invariance, PTL

\* An open circuit waits from the failure that ended last, also when its
\* request was admitted before the circuit opened (recordFailure prolongs it).
THEOREM WaitsFromLastFailure == Spec => []OpenSinceLastFailure
<1>1. IInv => OpenSinceLastFailure
  BY DEF IInv
<1>. QED
  BY <1>1, Invariance, PTL

\* allowRequest turns a caller away only shortly after a failure: the outage
\* it reports is never older than ResetTime.
THEOREM RefusesOnlyRecently == Spec => RefusalsAreRecent
<1>1. IInv /\ [Next]_vars => [RefusalIsRecent]_vars
  <2> SUFFICES ASSUME IInv, Next, NEW r \in Requests,
                      request'[r].pc = "refused", request[r] # request'[r]
               PROVE  \E i \in DOMAIN outcomes :
                        ~ outcomes[i].ok /\ clock - outcomes[i].time < ResetTime
    BY DEF RefusalIsRecent
  <2>1. PICK q \in Requests : Refuse(q)
    <3>1. ASSUME NEW q \in Requests, NEW v, v.pc # "refused",
                 request' = [request EXCEPT ![q] = v]
          PROVE  FALSE
      BY <3>1 DEF IInv, TypeOK
    <3>2. ASSUME NEW q \in Requests, NEW pc \in {"ok", "failed"}, Goto(q, pc)
          PROVE  FALSE
      <4> DEFINE v == [request[q] EXCEPT !.pc = pc]
      <4>1. v.pc # "refused"
        BY DEF IInv, TypeOK, Request
      <4>2. request' = [request EXCEPT ![q] = v]
        BY <3>2, Zenon DEF Goto
      <4> HIDE DEF v
      <4>. QED
        BY <3>1, <4>1, <4>2
    <3>3. ASSUME NEW q \in Requests, Succeed(q) \/ GiveUp(q)
          PROVE  FALSE
      BY <3>2, <3>3 DEF Succeed, GiveUp
    <3>4. ASSUME NEW q \in Requests, Admit(q) \/ Retry(q) \/ (Fail(q) /\ RetriesLeft(q))
          PROVE  FALSE
      BY <3>1, <3>4 DEF Admit, Retry, Fail
    <3>5. ~ GetCircuitState /\ ~ Tick
      BY DEF GetCircuitState, Tick
    <3>. QED
      BY <3>3, <3>4, <3>5 DEF Next, Fail, FailForGood
  <2>2. circuit.state = "open" /\ ~ Elapsed(circuit.openedAt)
    BY <2>1 DEF Refuse, Refresh, IInv, TypeOK
  <2> DEFINE n == Len(outcomes)
  <2>3. circuit.failures >= Threshold /\ circuit.failures <= n /\ n \in Nat
    BY <2>2, GBrainAssumption DEF IInv, TypeOK, TripsOnRun
  <2>4. n \in n - circuit.failures + 1 .. n /\ n \in DOMAIN outcomes
    BY <2>3, GBrainAssumption DEF IInv, TypeOK
  <2>5. ~ outcomes[n].ok /\ outcomes[n].time = circuit.openedAt
    BY <2>2, <2>4 DEF IInv, TripsOnRun, OpenSinceLastFailure
  <2>6. clock - circuit.openedAt < ResetTime
    BY <2>2, GBrainAssumption DEF Elapsed, IInv, TypeOK
  <2>. QED
    BY <2>4, <2>5, <2>6
<1>. QED
  BY <1>1, Invariance, PTL DEF Spec, RefusalsAreRecent
=============================================================================
