-------------------------- MODULE LLMClientProofs --------------------------
(***************************************************************************)
(* Theorems about the LLM client over its budget ledger, for every set of  *)
(* tasks, reservations, tiers, retries, delays, caps and budget: the       *)
(* client only takes steps of the ledger, money of a call in flight stays  *)
(* reserved for this call, and an answer that reached its caller is on     *)
(* disk.                                                                   *)
(***************************************************************************)
EXTENDS LLMClient, BudgetLedgerProofs

USE ClientAssumption

InFlight(t) == task[t].pc \in {"sending", "backoff"}

TaskState == [pc : {"idle", "sending", "backoff"} \cup Ended,
              tier : Nat, id : Ids \cup {NoId}, attempt : Nat, timer : Nat]

\* Of the ledger's entries only a lapse may touch what is not one's own.
Kept(id) ==
  \/ reservations'[id] = reservations[id]
  \/ /\ reservations[id].status = "reserved"
     /\ reservations'[id] = [reservations[id] EXCEPT !.status = "expired"]

\* The audit file only grows.
FileKept == \A i \in daily : i \in daily' /\ charges'[i] = charges[i]

Charged(t) ==
  \E i \in daily : charges[i].id = task[t].id /\ charges[i].label = LabelOf[t]

\* Every reservation has at most one task, which keeps it until it ends.
Owned ==
  /\ task \in [Tasks -> TaskState]
  /\ \A t \in Tasks :
       /\ task[t].pc = "idle" => task[t].id = NoId
       /\ InFlight(t) => /\ task[t].id \in Ids
                         /\ reservations[task[t].id].status \in {"reserved", "expired"}
                         /\ reservations[task[t].id].label = LabelOf[t]
       /\ task[t].id \in Ids => reservations[task[t].id].status # "none"
       /\ task[t].pc = "done" => Charged(t)
  /\ \A t, u \in Tasks : task[t].id = task[u].id /\ task[t].id # NoId => t = u

LInv == TypeOK /\ Owned

-----------------------------------------------------------------------------
(* The client takes steps of the ledger only. *)

\* What each operation of the ledger leaves of the other entries.
LEMMA CleanupKeeps ==
  ASSUME TypeOK, CleanupExpired
  PROVE  (\A id \in Ids : Kept(id)) /\ FileKept
BY AfterCleanupType DEF CleanupExpired, AfterCleanup, Kept, FileKept, TypeOK, Lapsed

LEMMA FailTask ==
  ASSUME Owned, NEW t \in Tasks, Fail(t)
  PROVE  \E new \in TaskState :
           /\ task' = [task EXCEPT ![t] = new]
           /\ \/ new.pc = "idle" /\ new.id = NoId
              \/ new.pc = "failed" /\ new.id = task[t].id
<1> DEFINE next == [pc |-> "idle", tier |-> task[t].tier + 1, id |-> NoId,
                    attempt |-> 0, timer |-> 0]
           last == [task[t] EXCEPT !.pc = "failed"]
<1>1. task[t] \in TaskState
  BY DEF Owned
<1>2. next \in TaskState /\ last \in TaskState /\ last.pc = "failed" /\ last.id = task[t].id
  BY <1>1 DEF TaskState, Ended
<1>3. \/ task' = [task EXCEPT ![t] = next]
      \/ task' = [task EXCEPT ![t] = last]
  BY DEF Fail
<1>. QED
  BY <1>2, <1>3

\* One task moves, and no reservation of another one does more than lapse.
LEMMA OneMoves ==
  ASSUME TypeOK, Owned, NEW t \in Tasks, NEW new \in TaskState,
         task' = [task EXCEPT ![t] = new],
         \A u \in Tasks \ {t} : task[u].id \in Ids => Kept(task[u].id),
         FileKept,
         new.pc = "idle" => new.id = NoId,
         new.pc \in {"sending", "backoff"} =>
           /\ new.id \in Ids
           /\ reservations'[new.id].status \in {"reserved", "expired"}
           /\ reservations'[new.id].label = LabelOf[t],
         new.id \in Ids => reservations'[new.id].status # "none",
         new.id # NoId => \A u \in Tasks \ {t} : task[u].id # new.id,
         new.pc = "done" =>
           \E i \in daily' : charges'[i].id = new.id /\ charges'[i].label = LabelOf[t]
  PROVE  Owned'
<1>1. task' \in [Tasks -> TaskState] /\ task'[t] = new
  BY DEF Owned
<1>2. \A u \in Tasks \ {t} : task'[u] = task[u]
  BY DEF Owned
<1>3. ASSUME NEW u \in Tasks \ {t}
      PROVE  /\ task[u].pc = "idle" => task[u].id = NoId
             /\ task[u].pc \in {"sending", "backoff"} =>
                  /\ task[u].id \in Ids
                  /\ reservations'[task[u].id].status \in {"reserved", "expired"}
                  /\ reservations'[task[u].id].label = LabelOf[u]
             /\ task[u].id \in Ids => reservations'[task[u].id].status # "none"
             /\ task[u].pc = "done" =>
                  \E i \in daily' : /\ charges'[i].id = task[u].id
                                    /\ charges'[i].label = LabelOf[u]
  <2>1. task[u].id \in Ids =>
          /\ reservations[task[u].id] \in Reservation
          /\ Kept(task[u].id)
    BY DEF TypeOK
  <2>2. task[u].id \in Ids =>
          /\ reservations'[task[u].id].label = reservations[task[u].id].label
          /\ \/ reservations'[task[u].id].status = reservations[task[u].id].status
             \/ reservations'[task[u].id].status = "expired"
    BY <2>1 DEF Kept, Reservation
  <2>3. task[u].pc = "done" =>
          \E i \in daily' : charges'[i].id = task[u].id /\ charges'[i].label = LabelOf[u]
    BY DEF Owned, Charged, FileKept
  <2>. QED
    BY <2>2, <2>3 DEF Owned, InFlight
<1>4. \A u, v \in Tasks : task'[u].id = task'[v].id /\ task'[u].id # NoId => u = v
  BY <1>1, <1>2 DEF Owned
<1>. QED
  BY <1>1, <1>2, <1>3, <1>4 DEF Owned, InFlight, Charged

-----------------------------------------------------------------------------
(* One lemma per action. *)

LEMMA StartCallOwned ==
  ASSUME LInv, NEW t \in Tasks, NEW estimate \in Costs, StartCall(t, estimate)
  PROVE  Owned' /\ Next
<1> DEFINE id == CHOOSE i \in Unused : TRUE
           new == [task[t] EXCEPT !.pc = "sending", !.id = id,
                                  !.attempt = 0, !.timer = clock + AttemptTime]
<1>1. /\ id \in Ids /\ reservations[id].status = "none"
      /\ Reserve(id, estimate, LabelOf[t], CallTtl)
      /\ task' = [task EXCEPT ![t].pc = "sending", ![t].id = id,
                              ![t].attempt = 0, ![t].timer = clock + AttemptTime]
  BY DEF StartCall, Unused
<1>2. task[t] \in TaskState /\ clock + AttemptTime \in Nat
  BY LedgerAssumption DEF LInv, Owned, TypeOK
<1>. HIDE DEF id
<1>3. new \in TaskState /\ new.pc = "sending" /\ new.id = id
  BY <1>1, <1>2 DEF TaskState
<1>4. task' = [task EXCEPT ![t] = new]
  BY <1>1, <1>2 DEF LInv, Owned
<1>5. /\ reservations'[id].status = "reserved"
      /\ reservations'[id].label = LabelOf[t]
      /\ \A other \in Ids \ {id} : Kept(other)
      /\ FileKept
  BY <1>1, AfterCleanupType DEF LInv, Reserve, AfterCleanup, Kept, FileKept, TypeOK, Lapsed
<1>6. \A u \in Tasks : task[u].id # id /\ (task[u].id \in Ids => Kept(task[u].id))
  BY <1>1, <1>5 DEF LInv, Owned
<1>. HIDE DEF new
<1>7. /\ new \in TaskState /\ new.pc = "sending" /\ new.id \in Ids
      /\ reservations'[new.id].status = "reserved"
      /\ reservations'[new.id].label = LabelOf[t]
      /\ \A u \in Tasks \ {t} : task[u].id # new.id
  BY <1>1, <1>3, <1>5, <1>6
<1>8. Owned'
  BY <1>4, <1>5, <1>6, <1>7, OneMoves DEF LInv
<1>. QED
  BY <1>1, <1>8 DEF Next

\* A call of the client ends without an answer, and the ledger has done no
\* more than end this call's reservation.
LEMMA FailOwned ==
  ASSUME LInv, NEW t \in Tasks, Fail(t), FileKept,
         \A u \in Tasks \ {t} : task[u].id \in Ids => Kept(task[u].id),
         task[t].id \in Ids => reservations'[task[t].id].status # "none"
  PROVE  Owned'
<1>1. PICK new \in TaskState :
        /\ task' = [task EXCEPT ![t] = new]
        /\ \/ new.pc = "idle" /\ new.id = NoId
           \/ new.pc = "failed" /\ new.id = task[t].id
  BY FailTask DEF LInv
<1>2. new.id # NoId => \A u \in Tasks \ {t} : task[u].id # new.id
  BY <1>1 DEF LInv, Owned
<1>3. new.id \in Ids => reservations'[new.id].status # "none"
  BY <1>1, LedgerAssumption
<1>. QED
  BY <1>1, <1>2, <1>3, OneMoves DEF LInv

LEMMA StartRefusedOwned ==
  ASSUME LInv, NEW t \in Tasks, NEW estimate \in Costs, StartRefused(t, estimate)
  PROVE  Owned' /\ Next
<1>1. Fail(t) /\ CleanupExpired /\ task[t].id = NoId
  BY DEF StartRefused, LInv, Owned
<1>. QED
  BY <1>1, FailOwned, CleanupKeeps, LedgerAssumption DEF LInv, Next

LEMMA AnswerRefusedOwned ==
  ASSUME LInv, NEW t \in Tasks, NEW cost \in Costs, AnswerRefused(t, cost)
  PROVE  Owned' /\ Next
<1>1. /\ Fail(t) /\ CommitRefused(task[t].id, cost) /\ CleanupExpired
      /\ task[t].id \in Ids
      /\ reservations[task[t].id].status \in {"reserved", "expired"}
  BY DEF AnswerRefused, CommitRefused, LInv, Owned, InFlight
<1>2. reservations'[task[t].id].status # "none"
  BY <1>1, CleanupKeeps DEF LInv, Kept, TypeOK, Reservation
<1>3. Owned'
  BY <1>1, <1>2, FailOwned, CleanupKeeps, LedgerAssumption DEF LInv, Owned
<1>. QED
  BY <1>1, <1>3 DEF Next

LEMMA AnswerOwned ==
  ASSUME LInv, NEW t \in Tasks, NEW cost \in Costs, NEW work \in Works,
         NEW onDisk \in BOOLEAN, NEW threw \in BOOLEAN,
         Answer(t, cost, work, onDisk, threw)
  PROVE  Owned' /\ Next
<1> DEFINE id == task[t].id
           n == Len(charges) + 1
<1>1. /\ InFlight(t) /\ (~ onDisk => threw)
      /\ Commit(id, cost, work, LabelOf[t], onDisk) /\ Finish(t, threw)
  BY DEF Answer, InFlight
<1>2. /\ id \in Ids /\ reservations[id].label = LabelOf[t]
      /\ task[t] \in TaskState
      /\ \A u \in Tasks \ {t} : task[u].id # id
  BY <1>1, LedgerAssumption DEF LInv, Owned
<1>. HIDE DEF id
<1>3. /\ AfterCleanup[id].label = LabelOf[t]
      /\ RecordSpend(work, cost, LabelOf[t], LabelOf[t], id, onDisk)
      /\ reservations'[id].status = "committed"
      /\ \A other \in Ids \ {id} : Kept(other)
  BY <1>1, <1>2, AfterCleanupType
     DEF LInv, Commit, AfterCleanup, Kept, TypeOK, Lapsed, Reservation
<1>4. \A i \in daily : i \in 1 .. Len(charges)
  BY DEF LInv, TypeOK
<1>5. FileKept /\ charges'[n].id = id /\ charges'[n].label = LabelOf[t]
  BY <1>2, <1>3, <1>4, RecordSpendType, LedgerAssumption
     DEF LInv, FileKept, RecordSpend
<1>6. FileKept /\ (onDisk => \E i \in daily' : /\ charges'[i].id = id
                                             /\ charges'[i].label = LabelOf[t])
  BY <1>3, <1>5 DEF RecordSpend
<1>7. \A u \in Tasks \ {t} : task[u].id \in Ids => Kept(task[u].id)
  BY <1>2, <1>3
<1>8. Next
  BY <1>1, <1>2 DEF Next
<1>9. CASE threw
  <2>1. Fail(t) /\ reservations'[id].status # "none"
    BY <1>1, <1>3, <1>9 DEF Finish
  <2>. QED
    BY <1>6, <1>8, <1>7, <2>1, FailOwned DEF id
<1>10. CASE ~ threw
  <2> DEFINE new == [task[t] EXCEPT !.pc = "done"]
  <2>1. new \in TaskState /\ new.pc = "done" /\ new.id = id
    BY <1>2 DEF TaskState, Ended, id
  <2>2. task' = [task EXCEPT ![t] = new]
    BY <1>1, <1>2, <1>10 DEF Finish, Goto, LInv, Owned
  <2>. HIDE DEF new
  <2>3. /\ reservations'[new.id].status # "none"
        /\ \A u \in Tasks \ {t} : task[u].id # new.id
        /\ \E i \in daily' : charges'[i].id = new.id /\ charges'[i].label = LabelOf[t]
    BY <1>1, <1>2, <1>3, <1>6, <1>10, <2>1
  <2>. QED
    BY <1>6, <1>7, <1>8, <2>1, <2>2, <2>3, OneMoves DEF LInv
<1>. QED
  BY <1>9, <1>10

\* The catch block of call gives back the money of its own call only.
LEMMA CatchOwned ==
  ASSUME LInv, NEW t \in Tasks, InFlight(t), CatchAndRelease(t)
  PROVE  Owned' /\ [Next]_vars
<1> DEFINE id == task[t].id
<1>1. /\ id \in Ids /\ Fail(t)
      /\ reservations[id].status \in {"reserved", "expired"}
      /\ \A u \in Tasks \ {t} : task[u].id # id
      /\ Release(id) \/ UNCHANGED vars
  BY LedgerAssumption DEF LInv, Owned, CatchAndRelease
<1>. HIDE DEF id
<1>2. /\ FileKept
      /\ \A other \in Ids \ {id} : Kept(other)
      /\ reservations'[id].status # "none"
  <2>1. CASE Release(id)
    BY <1>1, <2>1 DEF Release, LInv, TypeOK, Reservation, FileKept, Kept
  <2>2. CASE UNCHANGED vars
    BY <1>1, <2>2 DEF vars, ledger, FileKept, Kept
  <2>. QED
    BY <1>1, <2>1, <2>2
<1>3. Owned'
  BY <1>1, <1>2, FailOwned DEF id
<1>. QED
  BY <1>1, <1>3 DEF Next

\* A task that stays in flight keeps its reservation.
LEMMA StaysInFlight ==
  ASSUME LInv, NEW t \in Tasks, InFlight(t), UNCHANGED vars,
         NEW new \in TaskState, task' = [task EXCEPT ![t] = new],
         new.id = task[t].id, new.pc \in {"sending", "backoff"}
  PROVE  Owned'
<1>1. /\ FileKept
      /\ \A other \in Ids : Kept(other)
      /\ reservations' = reservations
  BY DEF vars, ledger, FileKept, Kept
<1>2. /\ new.id \in Ids
      /\ reservations'[new.id].status \in {"reserved", "expired"}
      /\ reservations'[new.id].label = LabelOf[t]
      /\ \A u \in Tasks \ {t} : task[u].id # new.id
  BY <1>1, LedgerAssumption DEF LInv, Owned
<1>. QED
  BY <1>1, <1>2, OneMoves DEF LInv

LEMMA AttemptFailsOwned ==
  ASSUME LInv, NEW t \in Tasks, AttemptFails(t) \/ AttemptFailsForGood(t)
  PROVE  Owned' /\ [Next]_vars
<1>1. InFlight(t) /\ (CatchAndRelease(t) \/ BackOff(t))
  BY DEF AttemptFails, AttemptFailsForGood, InFlight
<1>2. CASE BackOff(t)
  <2>1. PICK delay \in Delays :
          task' = [task EXCEPT ![t].pc = "backoff", ![t].timer = clock + delay]
    BY <1>2 DEF BackOff, Sleep
  <2> DEFINE new == [task[t] EXCEPT !.pc = "backoff", !.timer = clock + delay]
  <2>2. task[t] \in TaskState /\ clock + delay \in Nat
    BY LedgerAssumption DEF LInv, Owned, TypeOK
  <2>3. new \in TaskState /\ new.pc = "backoff" /\ new.id = task[t].id
    BY <2>2 DEF TaskState
  <2>4. task' = [task EXCEPT ![t] = new]
    BY <2>1, <2>2 DEF LInv, Owned
  <2>. HIDE DEF new
  <2>. QED
    BY <1>1, <1>2, <2>3, <2>4, StaysInFlight DEF BackOff
<1>. QED
  BY <1>1, <1>2, CatchOwned

LEMMA RetryOwned ==
  ASSUME LInv, NEW t \in Tasks, Retry(t)
  PROVE  Owned' /\ UNCHANGED vars
<1> DEFINE new == [task[t] EXCEPT !.pc = "sending", !.attempt = @ + 1,
                                  !.timer = clock + AttemptTime]
<1>1. /\ InFlight(t) /\ UNCHANGED vars
      /\ task' = [task EXCEPT ![t].pc = "sending", ![t].attempt = task[t].attempt + 1,
                              ![t].timer = clock + AttemptTime]
  BY DEF Retry, InFlight, NextAttempt
<1>2. /\ task[t] \in TaskState /\ task[t].attempt + 1 \in Nat
      /\ clock + AttemptTime \in Nat
  BY LedgerAssumption DEF LInv, Owned, TypeOK, TaskState
<1>3. new \in TaskState /\ new.pc = "sending" /\ new.id = task[t].id
  BY <1>2 DEF TaskState
<1>4. task' = [task EXCEPT ![t] = new]
  BY <1>1, <1>2 DEF LInv, Owned
<1>. HIDE DEF new
<1>. QED
  BY <1>1, <1>3, <1>4, StaysInFlight

LEMMA RestartOwned ==
  ASSUME LInv, LRestart
  PROVE  Owned'
<1>1. /\ task' = [t \in Tasks |-> IF task[t].pc \in Ended THEN task[t]
                                  ELSE [task[t] EXCEPT !.pc = "lost"]]
      /\ \A id \in Ids : reservations[id].status # "none" =>
                          reservations'[id].status = "forgotten"
      /\ charges' = charges /\ daily' = daily
  BY NoReservationType DEF LRestart, Restart, Reservation
<1>2. ASSUME NEW t \in Tasks
      PROVE  /\ task'[t] \in TaskState /\ task'[t].id = task[t].id
             /\ task'[t].pc \in Ended
             /\ task'[t].pc = "done" => task[t].pc = "done"
  <2>1. task[t] \in TaskState
    BY DEF LInv, Owned
  <2>. QED
    BY <1>1, <2>1 DEF TaskState, Ended
<1>3. task' \in [Tasks -> TaskState]
  BY <1>1, <1>2
<1>. QED
  BY <1>1, <1>2, <1>3 DEF LInv, Owned, InFlight, Charged, Ended

-----------------------------------------------------------------------------

LEMMA InitOwned == LInit => LInv /\ Init
<1> SUFFICES ASSUME LInit PROVE Owned
  BY InitTypeOK DEF LInit, LInv
<1>. QED
  BY LedgerAssumption DEF LInit, Owned, TaskState, InFlight

\* Every step keeps the owners, and is one of the ledger or leaves it alone.
LEMMA NextOwned == LInv /\ [LNext]_lvars => Owned' /\ [Next]_vars
<1> SUFFICES ASSUME LInv, [LNext]_lvars PROVE Owned' /\ [Next]_vars
  OBVIOUS
<1>1. ASSUME NEW t \in Tasks, Step(t) PROVE Owned' /\ [Next]_vars
  BY <1>1, StartCallOwned, StartRefusedOwned, AnswerOwned, AnswerRefusedOwned,
     AttemptFailsOwned, RetryOwned DEF Step
<1>2. ASSUME UNCHANGED task, \A id \in Ids : Kept(id), FileKept PROVE Owned'
  <2>1. \A t \in Tasks : Charged(t) => Charged(t)'
    BY <1>2 DEF FileKept, Charged
  <2>2. ASSUME NEW id \in Ids
        PROVE  /\ reservations'[id].label = reservations[id].label
               /\ \/ reservations'[id].status = reservations[id].status
                  \/ reservations'[id].status = "expired"
    <3>1. reservations[id] \in Reservation
      BY DEF LInv, TypeOK
    <3>. QED
      BY <1>2, <3>1 DEF Kept, Reservation
  <2>. QED
    BY <1>2, <2>1, <2>2 DEF LInv, Owned, InFlight
<1>3. CASE PollStatus
  BY <1>2, <1>3, CleanupKeeps DEF PollStatus, LInv, Next
<1>4. CASE LTick
  BY <1>2, <1>4 DEF LTick, Tick, ledger, Kept, FileKept, Next
<1>5. CASE LRestart
  BY <1>5, RestartOwned DEF LRestart, Next
<1>6. CASE UNCHANGED lvars
  BY <1>2, <1>6 DEF lvars, vars, ledger, Kept, FileKept
<1>. QED
  BY <1>1, <1>3, <1>4, <1>5, <1>6 DEF LNext

LEMMA Ownership == LSpec => []LInv
<1>1. LInv /\ [LNext]_lvars => LInv'
  BY NextOwned, NextTypeOK DEF LInv
<1>. QED
  BY <1>1, InitOwned, PTL DEF LSpec

\* Whatever the client does, with any number of calls at once, its ledger
\* behaves as the ledger alone may: what is proved of the ledger (exact
\* accounting, ends that are final) holds for calls that retry and escalate.
THEOREM UsesTheLedger == LSpec => Spec
BY InitOwned, NextOwned, Ownership, PTL DEF LSpec, Spec

\* The money of a call that is with the provider or waits for a retry stays
\* reserved for this call alone, until it lapses (call and retryWithBackoff).
THEOREM HeldWhileInFlight == LSpec => []InFlightIsHeld
<1>1. LInv => InFlightIsHeld
  BY LedgerAssumption DEF LInv, Owned, InFlight, InFlightIsHeld
<1>. QED
  BY <1>1, Ownership, PTL

\* A caller that got its answer got it after the charge was on disk, under
\* the reservation and the label of this call (the commit before the return).
THEOREM ChargedBeforeReturn == LSpec => []AnsweredIsCharged
<1>1. LInv => AnsweredIsCharged
  BY DEF LInv, Owned, Charged, AnsweredIsCharged
<1>. QED
  BY <1>1, Ownership, PTL

\* Also with many calls that retry, escalate and outlive their reservation,
\* no reservation is charged twice and every commit has its charge.
THEOREM CallsAreAccounted == LSpec => []ChargedOnce
BY UsesTheLedger, Accounting

\* The client commits under the label it reserved with, so the caps that were
\* asserted for a charge are those of the label it counts for.
Unmoved == \A i \in DOMAIN charges : charges[i].asserted = charges[i].label

LEMMA AnswerUnmoved ==
  ASSUME LInv, Unmoved, NEW t \in Tasks, NEW cost \in Costs, NEW work \in Works,
         NEW onDisk \in BOOLEAN, NEW threw \in BOOLEAN,
         Answer(t, cost, work, onDisk, threw)
  PROVE  Unmoved'
<1>1. /\ task[t].id \in Ids /\ reservations[task[t].id].label = LabelOf[t]
      /\ Commit(task[t].id, cost, work, LabelOf[t], onDisk)
  BY DEF Answer, LInv, Owned, InFlight
<1>2. AfterCleanup[task[t].id].label = LabelOf[t]
  BY <1>1, AfterCleanupType DEF LInv, Commit, Lapsed
<1>3. RecordSpend(work, cost, LabelOf[t], LabelOf[t], task[t].id, onDisk)
  BY <1>1, <1>2 DEF Commit
<1>4. LabelOf[t] \in Labels /\ cost \in Nat /\ Len(charges) \in Nat
  BY LedgerAssumption DEF LInv, TypeOK
<1>5. /\ DOMAIN charges = 1 .. Len(charges)
      /\ DOMAIN charges' = 1 .. (Len(charges) + 1)
      /\ \A i \in 1 .. Len(charges) : charges'[i] = charges[i]
      /\ charges'[Len(charges) + 1] =
           [time |-> clock, work |-> work, cost |-> cost, label |-> LabelOf[t],
            asserted |-> LabelOf[t], id |-> task[t].id]
  BY <1>1, <1>3, <1>4, RecordSpendType DEF LInv
<1>. QED
  BY <1>4, <1>5 DEF Unmoved

LEMMA NextUnmoved == LInv /\ Unmoved /\ [LNext]_lvars => Unmoved'
<1> SUFFICES ASSUME LInv, Unmoved, [LNext]_lvars PROVE Unmoved'
  OBVIOUS
<1>1. CASE charges' = charges
  BY <1>1 DEF Unmoved
<1>2. ASSUME NEW t \in Tasks, Step(t)
      PROVE  Unmoved'
  BY <1>1, <1>2, AnswerUnmoved
     DEF Step, StartCall, StartRefused, Reserve, AnswerRefused, CommitRefused,
         CleanupExpired, AttemptFails, AttemptFailsForGood, CatchAndRelease,
         Release, BackOff, Retry, vars, ledger
<1>. QED
  BY <1>1, <1>2 DEF LNext, PollStatus, CleanupExpired, LTick, Tick, LRestart,
                    Restart, lvars, vars, ledger

\* All that a resolver or a scope has spent is within its cap.
AllCapsHold ==
  \A k \in Kinds, l \in Labels : ~ Exceeds(Caps[k], l[k], SpendBy(k, l[k]))

LEMMA UnmovedIsAsserted == TypeOK /\ Unmoved /\ CapsHold => AllCapsHold
<1> SUFFICES ASSUME TypeOK, Unmoved, CapsHold, NEW k \in Kinds, NEW l \in Labels
             PROVE  ~ Exceeds(Caps[k], l[k], SpendBy(k, l[k]))
  BY DEF AllCapsHold
<1>1. Asserted(charges, memory, k, l[k]) = By(charges, memory, k, l[k])
  BY DEF TypeOK, Unmoved, Asserted, By
<1>. QED
  BY <1>1, SpendIsSum DEF CapsHold

\* Nor do they break the caps, which bound all the spend of the client's label
\* because it commits under the label of its reservation, or, beyond what an
\* answer cost more than its estimate, the budget.
THEOREM CallsAreWithinBudget ==
  LSpec => [](CapsHold /\ AllCapsHold /\ BudgetRespected)
<1>1. LInit => Unmoved
  BY DEF LInit, Init, Unmoved
<1>2. LSpec => []Unmoved
  BY <1>1, NextUnmoved, Ownership, PTL DEF LSpec
<1>3. LInv /\ Unmoved /\ CapsHold => AllCapsHold
  BY UnmovedIsAsserted DEF LInv
<1>. QED
  BY <1>2, <1>3, Ownership, UsesTheLedger, Capped, WithinBudget, PTL

-----------------------------------------------------------------------------
(* The client's own counters. *)

Reports == totalCost \in [Labels -> Nat] /\ NeverOverReports

\* The ledger's total and the counters stay, or the counters fall behind.
LEMMA SameReports ==
  ASSUME Reports, UNCHANGED <<charges, memory, totalCost>>
  PROVE  Reports'
<1>1. TotalSpend' = TotalSpend
  BY DEF TotalSpend, SpendOf
<1>. QED
  BY <1>1 DEF Reports, NeverOverReports

LEMMA AnswerReports ==
  ASSUME LInv, Reports, NEW t \in Tasks, NEW cost \in Costs, NEW work \in Works,
         NEW onDisk \in BOOLEAN, NEW threw \in BOOLEAN,
         Answer(t, cost, work, onDisk, threw)
  PROVE  Reports'
<1>1. /\ task[t].id \in Ids
      /\ RecordSpend(work, cost, LabelOf[t], AfterCleanup[task[t].id].label,
                     task[t].id, onDisk)
      /\ totalCost' = Counted(t, cost, ~ threw)
  BY DEF Answer, Commit, LInv, Owned, InFlight
<1>2. TypeOK /\ cost \in Nat /\ LabelOf[t] \in Labels
  BY LedgerAssumption DEF LInv
<1>3. AfterCleanup[task[t].id].label \in Labels
  BY <1>1, <1>2, AfterCleanupType DEF Reservation
<1>4. TotalSpend' = TotalSpend + cost /\ TotalSpend \in Nat
  BY <1>1, <1>2, <1>3, SpendByType, SpendGrows
<1>5. \/ totalCost' = totalCost
      \/ totalCost' = [totalCost EXCEPT ![LabelOf[t]] = @ + cost]
  BY <1>1 DEF Counted
<1>. QED
  BY <1>2, <1>4, <1>5 DEF Reports, NeverOverReports

\* A new client starts from what the new ledger has loaded.
LEMMA RestartReports ==
  ASSUME TypeOK, LoadedIsCounted, LRestart
  PROVE  Reports'
<1>1. TotalSpend' = SpendOf(LoadSpend)
  BY DEF LRestart, Restart, TotalSpend, SpendOf
<1>2. TotalSpend' \in Nat
  BY SpendShrinks DEF LRestart, Restart, LoadedIsCounted
<1>3. totalCost' = [l \in Labels |-> SpendOf(LoadSpend)]
  BY DEF LRestart
<1>. QED
  BY <1>1, <1>2, <1>3 DEF Reports, NeverOverReports

LEMMA NextReports == LInv /\ LoadedIsCounted /\ Reports /\ [LNext]_lvars => Reports'
<1> SUFFICES ASSUME LInv, LoadedIsCounted, Reports, [LNext]_lvars PROVE Reports'
  OBVIOUS
<1>1. ASSUME NEW t \in Tasks, CatchAndRelease(t), UNCHANGED totalCost
      PROVE  Reports'
  BY <1>1, SameReports DEF CatchAndRelease, Release, vars, ledger
<1>2. ASSUME NEW t \in Tasks, Step(t)
      PROVE  Reports'
  <2>1. ASSUME NEW estimate \in Costs, StartCall(t, estimate) \/ StartRefused(t, estimate)
        PROVE  Reports'
    BY <2>1, SameReports DEF StartCall, StartRefused, Reserve, CleanupExpired
  <2>2. ASSUME NEW cost \in Costs, AnswerRefused(t, cost)
        PROVE  Reports'
    BY <2>2, SameReports DEF AnswerRefused, CommitRefused, CleanupExpired, Counted
  <2>3. ASSUME AttemptFails(t) \/ AttemptFailsForGood(t)
        PROVE  Reports'
    BY <1>1, <2>3, SameReports
       DEF AttemptFails, AttemptFailsForGood, BackOff, vars, ledger
  <2>4. CASE Retry(t)
    BY <2>4, SameReports DEF Retry, vars, ledger
  <2>. QED
    BY <1>2, <2>1, <2>2, <2>3, <2>4, AnswerReports DEF Step
<1>3. CASE PollStatus
  BY <1>3, SameReports DEF PollStatus, CleanupExpired
<1>4. CASE LTick
  BY <1>4, SameReports DEF LTick, Tick, ledger
<1>5. CASE LRestart
  BY <1>5, RestartReports DEF LInv
<1>6. CASE UNCHANGED lvars
  BY <1>6, SameReports DEF lvars, vars, ledger
<1>. QED
  BY <1>2, <1>3, <1>4, <1>5, <1>6 DEF LNext

LEMMA AlwaysReports == LSpec => []Reports
<1>1. LInit => Reports
  <2> SUFFICES ASSUME LInit PROVE Reports
    OBVIOUS
  <2>1. TotalSpend \in Nat
    BY InitTypeOK, SpendByType DEF LInit
  <2>. QED
    BY <2>1 DEF LInit, Reports, NeverOverReports
<1>2. LSpec => []LoadedIsCounted
  BY UsesTheLedger, AlwaysLoaded
<1>. QED
  BY <1>1, <1>2, NextReports, Ownership, PTL DEF LSpec

\* The cost a client reports is never more than its ledger recorded, whatever
\* commits fail, whichever appends throw and however often it restarts.
THEOREM ReportsAreBacked == LSpec => []NeverOverReports
<1>1. Reports => NeverOverReports
  BY DEF Reports
<1>. QED
  BY <1>1, AlwaysReports, PTL

-----------------------------------------------------------------------------
(* No call makes more attempts than it may. *)

\* Each tier is tried once, each time with at most MaxRetries retries.
Bounded ==
  /\ paid \in Nat
  /\ \A t \in Tasks :
       /\ task[t].tier \in 1 .. LastTier
       /\ task[t].attempt \in 0 .. MaxRetries
       /\ task[t].pc = "backoff" => task[t].attempt < MaxRetries

LEMMA OneBounded ==
  ASSUME LInv, Bounded, paid' \in Nat, NEW t \in Tasks, NEW new,
         task' = [task EXCEPT ![t] = new],
         new.tier \in 1 .. LastTier, new.attempt \in 0 .. MaxRetries,
         new.pc = "backoff" => new.attempt < MaxRetries
  PROVE  Bounded'
BY DEF Bounded, LInv, Owned

LEMMA FailBounded ==
  ASSUME LInv, Bounded, paid' \in Nat, NEW t \in Tasks, Fail(t)
  PROVE  Bounded'
<1>1. task[t] \in TaskState /\ task[t].tier \in 1 .. LastTier /\ task[t].attempt \in 0 .. MaxRetries
  BY DEF LInv, Owned, Bounded
<1>2. CASE task[t].tier < LastTier
  <2> DEFINE new == [pc |-> "idle", tier |-> task[t].tier + 1, id |-> NoId,
                     attempt |-> 0, timer |-> 0]
  <2>1. task' = [task EXCEPT ![t] = new]
    BY <1>2 DEF Fail
  <2>2. new.tier \in 1 .. LastTier /\ new.attempt \in 0 .. MaxRetries /\ new.pc = "idle"
    BY <1>1, <1>2
  <2>. HIDE DEF new
  <2>. QED
    BY <2>1, <2>2, OneBounded
<1>3. CASE ~ (task[t].tier < LastTier)
  <2> DEFINE new == [task[t] EXCEPT !.pc = "failed"]
  <2>1. task' = [task EXCEPT ![t] = new]
    BY <1>3 DEF Fail
  <2>2. new.tier = task[t].tier /\ new.attempt = task[t].attempt /\ new.pc = "failed"
    BY <1>1 DEF TaskState
  <2>. HIDE DEF new
  <2>. QED
    BY <1>1, <2>1, <2>2, OneBounded
<1>. QED
  BY <1>2, <1>3

LEMMA NextBounded == LInv /\ Bounded /\ [LNext]_lvars => Bounded'
<1> SUFFICES ASSUME LInv, Bounded, [LNext]_lvars PROVE Bounded'
  OBVIOUS
<1>1. ASSUME NEW t \in Tasks, Step(t)
      PROVE  Bounded'
  <2>0. /\ task[t] \in TaskState /\ task[t].tier \in 1 .. LastTier
        /\ task[t].attempt \in 0 .. MaxRetries
        /\ task[t].pc = "backoff" => task[t].attempt < MaxRetries
        /\ paid \in Nat /\ \A cost \in Costs : paid + cost \in Nat
    BY LedgerAssumption DEF LInv, Owned, Bounded
  <2>1. ASSUME NEW pc \in {"sending", "backoff", "done"}, NEW id, NEW attempt \in 0 .. MaxRetries,
               NEW timer, pc = "backoff" => attempt < MaxRetries, paid' \in Nat,
               task' = [task EXCEPT ![t] = [task[t] EXCEPT
                          !.pc = pc, !.id = id, !.attempt = attempt, !.timer = timer]]
        PROVE  Bounded'
    <3> DEFINE new == [task[t] EXCEPT !.pc = pc, !.id = id, !.attempt = attempt, !.timer = timer]
    <3>1. new.pc = pc /\ new.attempt = attempt /\ new.tier = task[t].tier
      BY <2>0 DEF TaskState
    <3>. HIDE DEF new
    <3>2. task' = [task EXCEPT ![t] = new]
      BY <2>1 DEF new
    <3>. QED
      BY <2>0, <2>1, <3>1, <3>2, OneBounded
  <2>2. ASSUME NEW estimate \in Costs, StartCall(t, estimate) PROVE Bounded'
    <3> DEFINE id == CHOOSE i \in Unused : TRUE
    <3>. HIDE DEF id
    <3>1. /\ task' = [task EXCEPT ![t].pc = "sending", ![t].id = id,
                                  ![t].attempt = 0, ![t].timer = clock + AttemptTime]
          /\ paid' = paid
      BY <2>2 DEF StartCall, id
    <3>2. task' = [task EXCEPT ![t] = [task[t] EXCEPT
                     !.pc = "sending", !.id = id, !.attempt = 0, !.timer = clock + AttemptTime]]
      BY <2>0, <3>1 DEF LInv, Owned
    <3>3. 0 \in 0 .. MaxRetries /\ paid' \in Nat /\ "sending" # "backoff"
      BY <2>0, <3>1
    <3>. QED
      BY <2>1, <3>2, <3>3, Zenon
  <2>3. ASSUME NEW estimate \in Costs, StartRefused(t, estimate) PROVE Bounded'
    BY <2>0, <2>3, FailBounded DEF StartRefused
  <2>4. ASSUME Goto(t, "done"), paid' \in Nat PROVE Bounded'
    <3> DEFINE new == [task[t] EXCEPT !.pc = "done"]
    <3>1. new.pc = "done" /\ new.attempt = task[t].attempt /\ new.tier = task[t].tier
      BY <2>0 DEF TaskState
    <3>2. task' = [task EXCEPT ![t] = new]
      BY <2>4 DEF Goto
    <3>. HIDE DEF new
    <3>. QED
      BY <2>0, <2>4, <3>1, <3>2, OneBounded
  <2>5. ASSUME NEW cost \in Costs, NEW work \in Works, NEW onDisk \in BOOLEAN,
               NEW threw \in BOOLEAN, Answer(t, cost, work, onDisk, threw)
        PROVE  Bounded'
    <3>1. paid' \in Nat /\ (Fail(t) \/ Goto(t, "done"))
      BY <2>0, <2>5 DEF Answer, Finish
    <3>. QED
      BY <2>4, <3>1, FailBounded
  <2>6. ASSUME NEW cost \in Costs, AnswerRefused(t, cost) PROVE Bounded'
    BY <2>0, <2>6, FailBounded DEF AnswerRefused
  <2>7. CASE AttemptFailsForGood(t)
    BY <2>0, <2>7, FailBounded DEF AttemptFailsForGood, CatchAndRelease
  <2>8. CASE AttemptFails(t)
    <3>1. CASE GivesUp(t)
      BY <2>0, <2>8, <3>1, FailBounded DEF AttemptFails, CatchAndRelease
    <3>2. CASE ~ GivesUp(t)
      <4>1. PICK delay \in Delays :
              task' = [task EXCEPT ![t].pc = "backoff", ![t].timer = clock + delay]
        BY <2>8, <3>2 DEF AttemptFails, BackOff, Sleep
      <4>2. task' = [task EXCEPT ![t] = [task[t] EXCEPT !.pc = "backoff", !.id = task[t].id,
                        !.attempt = task[t].attempt, !.timer = clock + delay]]
        BY <2>0, <4>1 DEF LInv, Owned, TaskState
      <4>3. task[t].attempt < MaxRetries
        BY <2>0, <3>2 DEF GivesUp
      <4>. QED
        BY <2>0, <2>1, <2>8, <4>2, <4>3 DEF AttemptFails
    <3>. QED
      BY <3>1, <3>2
  <2>9. CASE Retry(t)
    <3>1. task[t].attempt + 1 \in 0 .. MaxRetries
      BY <2>0, <2>9 DEF Retry
    <3>2. task' = [task EXCEPT ![t] = [task[t] EXCEPT !.pc = "sending", !.id = task[t].id,
                      !.attempt = task[t].attempt + 1, !.timer = clock + AttemptTime]]
      BY <2>0, <2>9 DEF Retry, NextAttempt, LInv, Owned, TaskState
    <3>3. paid' \in Nat /\ "sending" # "backoff"
      BY <2>0, <2>9 DEF Retry
    <3>. QED
      BY <2>1, <3>1, <3>2, <3>3, Zenon
  <2>. QED
    BY <1>1, <2>2, <2>3, <2>5, <2>6, <2>7, <2>8, <2>9 DEF Step
<1>2. CASE UNCHANGED <<task, paid>>
  BY <1>2 DEF Bounded
<1>3. CASE LRestart
  <2>1. /\ paid' = paid
        /\ \A t \in Tasks : task'[t] = task[t] \/ task'[t] = [task[t] EXCEPT !.pc = "lost"]
    BY <1>3 DEF LRestart
  <2>2. \A t \in Tasks : task[t] \in TaskState
    BY DEF LInv, Owned
  <2>3. ASSUME NEW t \in Tasks
        PROVE  /\ task'[t].tier = task[t].tier /\ task'[t].attempt = task[t].attempt
               /\ task'[t].pc = task[t].pc \/ task'[t].pc = "lost"
    BY <2>1, <2>2 DEF TaskState
  <2>. QED
    BY <2>1, <2>3 DEF Bounded
<1>. QED
  BY <1>1, <1>2, <1>3 DEF LNext, PollStatus, LTick, lvars

\* The variables of the client keep their types; above all, no call is repeated
\* more often than configured, nor beyond the last tier (retryWithBackoff,
\* callWithTier).
THEOREM ClientTypeCorrect == LSpec => []LTypeOK
<1>1. LInit => Bounded
  <2> SUFFICES ASSUME LInit PROVE Bounded
    OBVIOUS
  <2>1. \A t \in Tasks : /\ task[t].pc = "idle" /\ task[t].tier = 1 /\ task[t].attempt = 0
    BY DEF LInit
  <2>2. 1 \in 1 .. LastTier /\ 0 \in 0 .. MaxRetries /\ paid = 0
    BY DEF LInit
  <2>. QED
    BY <2>1, <2>2 DEF Bounded
<1>2. LInv /\ Reports /\ Bounded => LTypeOK
  <2> SUFFICES ASSUME LInv, Reports, Bounded, NEW t \in Tasks PROVE task[t] \in Task
    BY DEF LInv, Reports, Bounded, LTypeOK, Owned
  <2>1. task[t] \in TaskState
    BY DEF LInv, Owned
  <2>. QED
    BY <2>1 DEF Bounded, TaskState, Task
<1>. QED
  BY <1>1, <1>2, NextBounded, AlwaysReports, Ownership, PTL DEF LSpec
=============================================================================
