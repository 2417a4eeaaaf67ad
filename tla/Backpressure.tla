---------------------------- MODULE Backpressure ----------------------------
(***************************************************************************)
(* BackpressureController and CancellationToken of src/core/performance.ts *)
(* as GToM's operations use them (src/core/gtom.ts): acquire, then         *)
(* try { throwIfCancelled; work } finally { release }.                     *)
(*                                                                         *)
(* All code between two awaits is one action.  A promise that release has  *)
(* resolved lets its caller go on only later: it is then "granted".  Each  *)
(* operation has a token of its own; one token shared by several           *)
(* operations is their tokens cancelled in a row.                          *)
(***************************************************************************)
EXTENDS Naturals, Sequences, FiniteSets

CONSTANTS Callers,         \* whoever starts operations, one at a time
          MaxConcurrent,   \* maxConcurrentOperations
          MaxQueue         \* maxQueuedOperations

ASSUME BackpressureAssumption ==
  /\ IsFiniteSet(Callers)
  /\ MaxConcurrent \in Nat
  /\ MaxQueue \in Nat

VARIABLES active,      \* this.active
          queue,       \* this.queue: the callers whose waiters are in it
          pc,          \* where the operation of each caller is
          cancelled    \* the operations whose token has been cancelled

vars == <<active, queue, pc, cancelled>>

Pcs == {"idle", "waiting", "granted", "working", "ended"}

TypeOK ==
  /\ active \in 0 .. MaxConcurrent
  /\ queue \in Seq(Callers) /\ Len(queue) <= MaxQueue
  /\ pc \in [Callers -> Pcs]
  /\ cancelled \subseteq Callers

Init ==
  /\ active = 0
  /\ queue = <<>>
  /\ pc = [c \in Callers |-> "idle"]
  /\ cancelled = {}

-----------------------------------------------------------------------------
(* acquire *)

HasRoom == active < MaxConcurrent

Enter(c) ==
  /\ pc[c] = "idle" /\ c \notin cancelled
  /\ HasRoom
  /\ active' = active + 1
  /\ pc' = [pc EXCEPT ![c] = "granted"]
  /\ UNCHANGED <<queue, cancelled>>

Wait(c) ==
  /\ pc[c] = "idle" /\ c \notin cancelled
  /\ ~ HasRoom
  /\ Len(queue) < MaxQueue
  /\ queue' = Append(queue, c)
  /\ pc' = [pc EXCEPT ![c] = "waiting"]
  /\ UNCHANGED <<active, cancelled>>

\* acquire throws
Refused(c) ==
  /\ pc[c] = "idle"
  /\ c \in cancelled \/ (~ HasRoom /\ Len(queue) >= MaxQueue)
  /\ pc' = [pc EXCEPT ![c] = "ended"]
  /\ UNCHANGED <<active, queue, cancelled>>

-----------------------------------------------------------------------------
(* release, when the operation of c ends *)

OneLess(n) == IF n > 0 THEN n - 1 ELSE 0

\* Faulty variant: the slot is given up but not handed to the next waiter.
ReleaseWithoutHandOver(c) ==
  /\ active' = OneLess(active)
  /\ pc' = [pc EXCEPT ![c] = "ended"]
  /\ UNCHANGED queue

Release(c) ==
  \/ /\ queue = <<>>
     /\ active' = OneLess(active)
     /\ pc' = [pc EXCEPT ![c] = "ended"]
     /\ UNCHANGED queue
  \/ /\ queue # <<>>
     /\ active' = OneLess(active) + 1
     /\ pc' = [pc EXCEPT ![c] = "ended", ![Head(queue)] = "granted"]
     /\ queue' = Tail(queue)

-----------------------------------------------------------------------------
(* The operation around it *)

Begin(c) ==
  /\ pc[c] = "granted" /\ c \notin cancelled
  /\ pc' = [pc EXCEPT ![c] = "working"]
  /\ UNCHANGED <<active, queue, cancelled>>

\* throwIfCancelled finds a token that was cancelled after the slot was granted
Abort(c) ==
  /\ pc[c] = "granted" /\ c \in cancelled
  /\ Release(c)
  /\ UNCHANGED cancelled

\* the work returned or threw, at one of its own cancellation checks or not
Finish(c) ==
  /\ pc[c] = "working"
  /\ Release(c)
  /\ UNCHANGED cancelled

\* a new operation, with a new token
Again(c) ==
  /\ pc[c] = "ended"
  /\ pc' = [pc EXCEPT ![c] = "idle"]
  /\ cancelled' = cancelled \ {c}
  /\ UNCHANGED <<active, queue>>

-----------------------------------------------------------------------------
(* CancellationToken.cancel, whose listener is removeWaiter and reject *)

\* Faulty variant: the waiter of a cancelled operation stays in the queue.
StaysQueued(c) == queue

\* Faulty variant: splice takes the waiter behind the cancelled one out.
TheNextOut(c) ==
  LET i == CHOOSE k \in DOMAIN queue : queue[k] = c
  IN  SubSeq(queue, 1, i) \o SubSeq(queue, i + 2, Len(queue))

RemoveWaiter(c) ==
  LET i == CHOOSE k \in DOMAIN queue : queue[k] = c
  IN  SubSeq(queue, 1, i - 1) \o SubSeq(queue, i + 1, Len(queue))

Cancel(c) ==
  /\ pc[c] # "ended" /\ c \notin cancelled
  /\ cancelled' = cancelled \cup {c}
  /\ IF pc[c] = "waiting"
       THEN /\ queue' = RemoveWaiter(c)
            /\ pc' = [pc EXCEPT ![c] = "ended"]
       ELSE UNCHANGED <<queue, pc>>
  /\ UNCHANGED active

-----------------------------------------------------------------------------

Next == \E c \in Callers :
  \/ Enter(c) \/ Wait(c) \/ Refused(c)
  \/ Begin(c) \/ Abort(c) \/ Finish(c) \/ Again(c)
  \/ Cancel(c)

Spec == Init /\ [][Next]_vars

\* A granted caller goes on when its microtask runs, and every piece of work
\* ends: the GBrain and LLM calls it makes are bounded by timeouts.
Fairness == \A c \in Callers : WF_vars(Begin(c)) /\ WF_vars(Abort(c)) /\ WF_vars(Finish(c))

FairSpec == Spec /\ Fairness

-----------------------------------------------------------------------------
(* Properties *)

Holders == {c \in Callers : pc[c] \in {"granted", "working"}}

Waiters == {c \in Callers : pc[c] = "waiting"}

\* The counter is exact whatever is cancelled between the grant of a slot and
\* its use (so Math.max in release never hides a second release), and the
\* queue holds every waiting caller once and nobody else.
SlotsCounted ==
  /\ active = Cardinality(Holders)
  /\ Waiters = {queue[i] : i \in DOMAIN queue}
  /\ \A i, j \in DOMAIN queue : queue[i] = queue[j] => i = j

\* Nobody waits in front of a free slot: release hands over in the same step,
\* so neither a cancellation nor a new caller can slip in between.
NoIdleSlot == queue # <<>> => active = MaxConcurrent

\* The controller implements a semaphore with a bounded first-come line.
Semaphore == INSTANCE FifoSemaphore
  WITH Clients <- Callers, Slots <- MaxConcurrent, Places <- MaxQueue,
       holders <- Holders, line <- queue

ImplementsSemaphore == Semaphore!SSpec

\* Nobody waits for ever, whatever the others cancel.
WaitersServed == \A c \in Callers : pc[c] = "waiting" ~> pc[c] # "waiting"
=============================================================================
