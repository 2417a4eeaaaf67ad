----------------------------- MODULE LLMClient -----------------------------
(***************************************************************************)
(* LLM calls paid from the budget ledger: LLMClient.call, callWithTier and *)
(* retryWithBackoff of src/core/llm-client.ts over BudgetLedger.           *)
(*                                                                         *)
(* A task is one callWithTier.  It suspends only while an attempt is with  *)
(* the provider and while it sleeps between attempts, so each action below *)
(* is the code between two such awaits.  Many tasks share one ledger.      *)
(* Timers are urgent: the clock does not pass an armed one.                *)
(***************************************************************************)
EXTENDS BudgetLedger

CONSTANTS Tasks,        \* concurrent callWithTier invocations
          LabelOf,      \* the resolver and scope of the client of a task
          LastTier,     \* tierOrder has tiers 1 .. LastTier (3 in the code)
          MaxRetries,   \* config.maxRetries
          AttemptTime,  \* config.timeoutMs, the longest a request of the SDK takes
          CallTtl,      \* config.timeoutMs + 60_000
          Delays,       \* backoff and Retry-After delays
          LastStart     \* bound on the time at which a call starts

ASSUME ClientAssumption ==
  /\ LabelOf \in [Tasks -> Labels]
  /\ {LastTier, MaxRetries, AttemptTime, CallTtl, LastStart} \subseteq Nat
  /\ LastTier # 0
  /\ Delays \subseteq Nat
  /\ CallTtl \in Ttls

VARIABLES task,       \* the control state of each task
          totalCost,  \* totalCostUsd of the client with a given label
          paid        \* history: the cost of the answers that arrived

lvars == <<vars, task, totalCost, paid>>

Ended == {"done", "failed", "lost"}

Task == [pc : {"idle", "sending", "backoff"} \cup Ended,
         tier : 1 .. LastTier, id : Ids \cup {NoId},
         attempt : 0 .. MaxRetries, timer : Nat]

LTypeOK == /\ TypeOK
           /\ task \in [Tasks -> Task]
           /\ totalCost \in [Labels -> Nat]
           /\ paid \in Nat

LInit == /\ Init
         /\ task = [t \in Tasks |-> [pc |-> "idle", tier |-> 1, id |-> NoId,
                                     attempt |-> 0, timer |-> 0]]
         /\ totalCost = [l \in Labels |-> TotalSpend]
         /\ paid = 0

Goto(t, pc) == task' = [task EXCEPT ![t].pc = pc]

\* callWithTier: an error of any kind escalates to the next tier
Fail(t) ==
  task' = [task EXCEPT ![t] =
    IF @.tier < LastTier
      THEN [pc |-> "idle", tier |-> @.tier + 1, id |-> NoId, attempt |-> 0, timer |-> 0]
      ELSE [@ EXCEPT !.pc = "failed"]]

-----------------------------------------------------------------------------
(* call, up to the first request *)

HasRemaining == TotalSpend + ReservedIn(AfterCleanup) < MaxBudget

Unused == {id \in Ids : reservations[id].status = "none"}

StartCall(t, estimate) ==
  /\ task[t].pc = "idle" /\ clock <= LastStart
  /\ HasRemaining
  /\ LET id == CHOOSE i \in Unused : TRUE
     IN  /\ Unused # {}
         /\ Reserve(id, estimate, LabelOf[t], CallTtl)
         /\ task' = [task EXCEPT ![t].pc = "sending", ![t].id = id,
                                 ![t].attempt = 0, ![t].timer = clock + AttemptTime]
  /\ UNCHANGED <<totalCost, paid>>

\* BudgetExceededError, or reserve throws
StartRefused(t, estimate) ==
  /\ task[t].pc = "idle" /\ clock <= LastStart
  /\ ~ (HasRemaining /\ Admits(estimate, LabelOf[t]))
  /\ CleanupExpired
  /\ Fail(t)
  /\ UNCHANGED <<totalCost, paid>>

-----------------------------------------------------------------------------
(* The provider answers: commit, then the client's own counters.           *)

\* Faulty variant: the counters are updated before the commit.
CountFirst(t, cost, ok) == [totalCost EXCEPT ![LabelOf[t]] = @ + cost]

Counted(t, cost, ok) ==
  IF ok THEN [totalCost EXCEPT ![LabelOf[t]] = @ + cost] ELSE totalCost

\* Faulty variant: an error of the audit append is swallowed.
FinishAnyway(t, threw) == Goto(t, "done")

\* commit returns or throws
Finish(t, threw) == IF threw THEN Fail(t) ELSE Goto(t, "done")

\* `threw' is an audit append that failed: the daily one when the charge is
\* not on disk, otherwise the weekly one.  call commits under the client's own
\* resolver and scope.
Answer(t, cost, work, onDisk, threw) ==
  /\ task[t].pc = "sending"
  /\ ~ onDisk => threw
  /\ Commit(task[t].id, cost, work, LabelOf[t], onDisk)
  /\ Finish(t, threw)
  /\ totalCost' = Counted(t, cost, ~ threw)
  /\ paid' = paid + cost

\* commit throws: the reservation expired meanwhile or a cap is exhausted
AnswerRefused(t, cost) ==
  /\ task[t].pc = "sending"
  /\ CommitRefused(task[t].id, cost)
  /\ Fail(t)
  /\ totalCost' = Counted(t, cost, FALSE)
  /\ paid' = paid + cost

-----------------------------------------------------------------------------
(* An attempt fails. *)

\* retryWithBackoff gives up on its last attempt
GivesUp(t) == task[t].attempt = MaxRetries

\* the catch block of call; release itself throws on a dead reservation
CatchAndRelease(t) ==
  /\ IF reservations[task[t].id].status = "reserved"
       THEN Release(task[t].id)
       ELSE UNCHANGED vars
  /\ Fail(t)

Sleep(t) == \E delay \in Delays :
  task' = [task EXCEPT ![t].pc = "backoff", ![t].timer = clock + delay]

\* Faulty variant: the catch of the retry loop releases the reservation.
ReleaseAndBackOff(t) ==
  /\ IF reservations[task[t].id].status = "reserved"
       THEN Release(task[t].id)
       ELSE UNCHANGED vars
  /\ Sleep(t)

BackOff(t) == Sleep(t) /\ UNCHANGED vars

\* An authentication or request error, or no provider for the model.
AttemptFailsForGood(t) ==
  /\ task[t].pc = "sending"
  /\ CatchAndRelease(t)
  /\ UNCHANGED <<totalCost, paid>>

\* Any other error, the attempt's timeout included.
AttemptFails(t) ==
  /\ task[t].pc = "sending"
  /\ IF GivesUp(t)
       THEN CatchAndRelease(t)
       ELSE BackOff(t)
  /\ UNCHANGED <<totalCost, paid>>

\* Faulty variant: the loop counter is not advanced.
SameAttempt(t) == task[t].attempt

NextAttempt(t) == task[t].attempt + 1

Retry(t) ==
  /\ task[t].pc = "backoff"
  /\ clock = task[t].timer
  /\ task' = [task EXCEPT ![t].pc = "sending", ![t].attempt = NextAttempt(t),
                          ![t].timer = clock + AttemptTime]
  /\ UNCHANGED <<vars, totalCost, paid>>

-----------------------------------------------------------------------------

\* Status pollers: health checks, getSummary, the other readers.
PollStatus == CleanupExpired /\ UNCHANGED <<task, totalCost, paid>>

LTick == /\ \A t \in Tasks : task[t].pc \in {"sending", "backoff"} => clock < task[t].timer
         /\ Tick
         /\ UNCHANGED <<task, totalCost, paid>>

\* A crash takes the tasks along; a new client starts from the loaded spend.
LRestart == /\ Restart
            /\ task' = [t \in Tasks |-> IF task[t].pc \in Ended THEN task[t]
                                        ELSE [task[t] EXCEPT !.pc = "lost"]]
            /\ totalCost' = [l \in Labels |-> SpendOf(LoadSpend)]
            /\ UNCHANGED paid

Step(t) ==
  \/ \E estimate \in Costs : StartCall(t, estimate) \/ StartRefused(t, estimate)
  \/ \E cost \in Costs, work \in Works, onDisk, threw \in BOOLEAN :
       Answer(t, cost, work, onDisk, threw)
  \/ \E cost \in Costs : AnswerRefused(t, cost)
  \/ AttemptFailsForGood(t)
  \/ AttemptFails(t)
  \/ Retry(t)

LNext == \/ \E t \in Tasks : Step(t)
         \/ PollStatus
         \/ LTick
         \/ LRestart

LSpec == LInit /\ [][LNext]_lvars

\* Time passes, the SDK's timeout ends an attempt (AttemptFails), a sleep ends.
LFairness == /\ WF_lvars(LTick)
             /\ \A t \in Tasks : WF_lvars(AttemptFails(t)) /\ WF_lvars(Retry(t))

LFairSpec == LSpec /\ LFairness

-----------------------------------------------------------------------------
(* Properties *)

\* An answer handed to a caller has been charged, under the caller's
\* reservation, and is in the daily file: a restart cannot un-spend it.
AnsweredIsCharged ==
  \A t \in Tasks : task[t].pc = "done" =>
    \E i \in daily : charges[i].id = task[t].id /\ charges[i].label = LabelOf[t]

\* While a call is with the provider or sleeps before a retry, its money stays
\* reserved, unless its time to live ran out.
InFlightIsHeld ==
  \A t \in Tasks : task[t].pc \in {"sending", "backoff"} =>
    /\ reservations[task[t].id].status \in {"reserved", "expired"}
    /\ \A u \in Tasks \ {t} : task[u].id # task[t].id

\* A client never reports more cost than the ledger has recorded.
NeverOverReports == \A l \in Labels : totalCost[l] <= TotalSpend

\* The cost of every answer the provider gave is tracked by the ledger.
AnswersAreTracked == paid <= TotalSpend

\* Every call that is on its way ends: with an answer, an error or the process.
CallsEnd ==
  \A t \in Tasks : task[t].pc \in {"sending", "backoff"} ~>
                     task[t].pc \in Ended \cup {"idle"}

\* No reservation holds money for ever, also when a cap refused the commit of
\* its call and nobody released it: whoever asks the ledger finds it expired.
HoldsEnd ==
  \A id \in Ids : id \in Live(AfterCleanup) ~> id \notin Live(AfterCleanup)
=============================================================================
