------------------------ MODULE BackpressureProofs ------------------------
(***************************************************************************)
(* The backpressure controller never counts wrong, for any number of       *)
(* callers, slots and places, and it implements the FIFO semaphore.        *)
(***************************************************************************)
EXTENDS Backpressure, FiniteSetTheorems, SequenceTheorems, TLAPS

-----------------------------------------------------------------------------
(* Sequences and sets *)

LEMMA RemovalFacts ==
  ASSUME NEW S, NEW s \in Seq(S), NEW i \in DOMAIN s
  PROVE  LET r == SubSeq(s, 1, i - 1) \o SubSeq(s, i + 1, Len(s))
         IN  /\ r \in Seq(S)
             /\ Len(r) = Len(s) - 1
             /\ \A k \in 1 .. Len(r) : r[k] = s[IF k < i THEN k ELSE k + 1]
<1> DEFINE a == SubSeq(s, 1, i - 1)
           b == SubSeq(s, i + 1, Len(s))
<1>1. i \in 1 .. Len(s) /\ Len(s) \in Nat
  OBVIOUS
<1>2. /\ a \in Seq(S) /\ Len(a) = i - 1
      /\ \A k \in 1 .. i - 1 : a[k] = s[k]
  BY <1>1
<1>3. /\ b \in Seq(S) /\ Len(b) = Len(s) - i
      /\ \A k \in 1 .. Len(s) - i : b[k] = s[i + k]
  BY <1>1
<1> HIDE DEF a, b
<1>4. /\ a \o b \in Seq(S)
      /\ Len(a \o b) = Len(s) - 1
      /\ \A k \in 1 .. Len(s) - 1 :
           (a \o b)[k] = IF k <= i - 1 THEN a[k] ELSE b[k - (i - 1)]
  BY <1>1, <1>2, <1>3
<1>5. ASSUME NEW k \in 1 .. Len(s) - 1
      PROVE  (a \o b)[k] = s[IF k < i THEN k ELSE k + 1]
  <2>1. CASE k < i
    BY <1>1, <1>2, <1>4, <2>1
  <2>2. CASE ~ k < i
    <3>1. k - (i - 1) \in 1 .. Len(s) - i /\ i + (k - (i - 1)) = k + 1
      BY <1>1, <2>2
    <3>2. (a \o b)[k] = b[k - (i - 1)]
      BY <1>1, <1>4, <2>2
    <3>3. (a \o b)[k] = s[i + (k - (i - 1))]
      BY <1>3, <3>1, <3>2
    <3>. QED
      BY <2>2, <3>1, <3>3
  <2>. QED
    BY <2>1, <2>2
<1>. QED
  BY <1>4, <1>5 DEF a, b

\* The semaphore counts with the same Cardinality.
LEMMA SameCardinality == \A S : Semaphore!Cardinality(S) = Cardinality(S)
  BY DEF Semaphore!Cardinality, Cardinality

LEMMA HoldersFinite == IsFiniteSet(Holders)
  BY BackpressureAssumption, FS_Subset DEF Holders

-----------------------------------------------------------------------------
(* What the queue is, step by step *)

QueueOK == /\ Waiters = {queue[i] : i \in DOMAIN queue}
           /\ \A i, j \in DOMAIN queue : queue[i] = queue[j] => i = j

LEMMA WaitQueue ==
  ASSUME TypeOK, QueueOK, NEW c \in Callers, Wait(c)
  PROVE  QueueOK'
<1>1. /\ Len(queue') = Len(queue) + 1 /\ queue' \in Seq(Callers)
      /\ \A i \in 1 .. Len(queue) : queue'[i] = queue[i]
      /\ queue'[Len(queue) + 1] = c
  BY DEF Wait, TypeOK
<1>2. Waiters' = Waiters \cup {c} /\ c \notin Waiters
  BY DEF Wait, Waiters, TypeOK
<1>3. DOMAIN queue' = DOMAIN queue \cup {Len(queue) + 1} /\ DOMAIN queue = 1 .. Len(queue)
  BY <1>1 DEF TypeOK
<1>4. \A i \in DOMAIN queue : queue[i] # c
  BY <1>2 DEF QueueOK
<1>5. Waiters' = {queue'[i] : i \in DOMAIN queue'}
  BY <1>1, <1>2, <1>3 DEF QueueOK
<1>6. \A i, j \in DOMAIN queue' : queue'[i] = queue'[j] => i = j
  BY <1>1, <1>3, <1>4 DEF QueueOK
<1>. QED
  BY <1>5, <1>6 DEF QueueOK

\* The hand-over of a slot: who gets it was waiting.
LEMMA HandOver ==
  ASSUME TypeOK, QueueOK, NEW c \in Callers, pc[c] \in {"granted", "working"},
         queue # <<>>, queue' = Tail(queue),
         pc' = [pc EXCEPT ![c] = "ended", ![Head(queue)] = "granted"]
  PROVE  /\ QueueOK'
         /\ Head(queue) \in Callers \ Holders
         /\ Holders' = (Holders \ {c}) \cup {Head(queue)}
<1> DEFINE h == Head(queue)
<1>1. h = queue[1] /\ 1 \in DOMAIN queue /\ h \in Callers
  BY DEF TypeOK
<1>2. h \in Waiters
  BY <1>1 DEF QueueOK
<1>3. h # c /\ pc[h] = "waiting"
  BY <1>2 DEF Waiters
<1>4. /\ Len(queue') = Len(queue) - 1 /\ queue' \in Seq(Callers)
      /\ \A i \in 1 .. Len(queue') : queue'[i] = queue[i + 1]
  BY DEF TypeOK
<1>5. Waiters' = Waiters \ {h}
  BY <1>1, <1>3 DEF Waiters, TypeOK
<1>6. \A i \in DOMAIN queue : i # 1 => queue[i] # h
  BY <1>1 DEF QueueOK
<1>7. {queue'[i] : i \in DOMAIN queue'} = {queue[i] : i \in DOMAIN queue} \ {h}
  <2>1. DOMAIN queue = 1 .. Len(queue) /\ DOMAIN queue' = 1 .. Len(queue')
        /\ Len(queue) \in Nat
    BY <1>4 DEF TypeOK
  <2>2. ASSUME NEW i \in DOMAIN queue'
        PROVE  i + 1 \in DOMAIN queue /\ i + 1 # 1 /\ queue'[i] = queue[i + 1]
    BY <1>4, <2>1
  <2>3. ASSUME NEW i \in DOMAIN queue, queue[i] # h
        PROVE  i - 1 \in DOMAIN queue' /\ queue'[i - 1] = queue[i]
    <3>1. i # 1
      BY <1>1, <2>3
    <3>2. i - 1 \in 1 .. Len(queue')
      BY <1>4, <2>1, <3>1
    <3>. QED
      BY <1>4, <2>1, <3>2
  <2>. QED
    BY <1>6, <2>2, <2>3
<1>8. \A i, j \in DOMAIN queue' : queue'[i] = queue'[j] => i = j
  <2>1. DOMAIN queue = 1 .. Len(queue) /\ DOMAIN queue' = 1 .. Len(queue')
        /\ Len(queue) \in Nat
    BY <1>4 DEF TypeOK
  <2>2. ASSUME NEW i \in DOMAIN queue', NEW j \in DOMAIN queue', queue'[i] = queue'[j]
        PROVE  i = j
    <3>1. i + 1 \in DOMAIN queue /\ j + 1 \in DOMAIN queue
      BY <1>4, <2>1
    <3>2. queue[i + 1] = queue[j + 1]
      BY <1>4, <2>1, <2>2
    <3>3. i + 1 = j + 1
      BY <3>1, <3>2 DEF QueueOK
    <3>. QED
      BY <3>3, <2>1
  <2>. QED
    BY <2>2
<1>9. QueueOK'
  BY <1>5, <1>7, <1>8 DEF QueueOK
<1>10. Holders' = (Holders \ {c}) \cup {h}
  BY <1>1, <1>3 DEF Holders, TypeOK
<1>. QED
  BY <1>1, <1>3, <1>9, <1>10 DEF Holders
\* A cancelled waiter leaves the queue, and only it.
LEMMA CancelQueue ==
  ASSUME TypeOK, QueueOK, NEW c \in Callers, pc[c] = "waiting",
         queue' = RemoveWaiter(c), pc' = [pc EXCEPT ![c] = "ended"]
  PROVE  /\ QueueOK'
         /\ queue' \in Seq(Callers) /\ Len(queue') = Len(queue) - 1
         /\ queue # <<>>
         /\ \E i \in DOMAIN queue : queue' = SubSeq(queue, 1, i - 1)
                                          \o SubSeq(queue, i + 1, Len(queue))
<1>1. PICK i \in DOMAIN queue :
        /\ queue[i] = c
        /\ queue' = SubSeq(queue, 1, i - 1) \o SubSeq(queue, i + 1, Len(queue))
  <2>1. \E k \in DOMAIN queue : queue[k] = c
    BY DEF QueueOK, Waiters
  <2>. QED
    BY <2>1 DEF RemoveWaiter
<1>2. /\ queue' \in Seq(Callers) /\ Len(queue') = Len(queue) - 1
      /\ \A k \in 1 .. Len(queue') : queue'[k] = queue[IF k < i THEN k ELSE k + 1]
  <2> DEFINE r == SubSeq(queue, 1, i - 1) \o SubSeq(queue, i + 1, Len(queue))
  <2>1. queue \in Seq(Callers)
    BY DEF TypeOK
  <2>2. /\ r \in Seq(Callers) /\ Len(r) = Len(queue) - 1
        /\ \A k \in 1 .. Len(r) : r[k] = queue[IF k < i THEN k ELSE k + 1]
    BY <2>1, RemovalFacts, Zenon
  <2>3. queue' = r
    BY <1>1
  <2> HIDE DEF r
  <2>. QED
    BY <2>2, <2>3, Zenon
<1>3. /\ DOMAIN queue = 1 .. Len(queue) /\ DOMAIN queue' = 1 .. Len(queue) - 1
      /\ Len(queue) \in Nat /\ i \in 1 .. Len(queue)
  BY <1>2 DEF TypeOK
<1>4. Waiters' = Waiters \ {c}
  BY DEF Waiters, TypeOK
<1>5. ASSUME NEW k \in DOMAIN queue'
      PROVE  \E m \in DOMAIN queue : /\ m # i /\ queue'[k] = queue[m]
                                     /\ m = IF k < i THEN k ELSE k + 1
  BY <1>2, <1>3
<1>6. ASSUME NEW m \in DOMAIN queue, m # i
      PROVE  \E k \in DOMAIN queue' : queue'[k] = queue[m]
  <2>1. CASE m < i
    <3>1. m \in DOMAIN queue'
      BY <1>3, <2>1
    <3>. QED
      BY <1>2, <1>3, <2>1, <3>1
  <2>2. CASE ~ m < i
    <3>1. m - 1 \in DOMAIN queue' /\ ~ m - 1 < i /\ (m - 1) + 1 = m
      BY <1>3, <1>6, <2>2
    <3>2. queue'[m - 1] = queue[(m - 1) + 1]
      BY <1>2, <1>3, <3>1
    <3>. QED
      BY <3>1, <3>2
  <2>. QED
    BY <2>1, <2>2
<1>7. \A m \in DOMAIN queue : m # i => queue[m] # c
  BY <1>1 DEF QueueOK
<1>8. Waiters' = {queue'[k] : k \in DOMAIN queue'}
  <2>1. Waiters' = {queue[m] : m \in DOMAIN queue} \ {c}
    BY <1>4 DEF QueueOK
  <2>2. \A m \in DOMAIN queue : m # i <=> queue[m] # c
    BY <1>1, <1>7
  <2>3. ASSUME NEW k \in DOMAIN queue'
        PROVE  queue'[k] \in Waiters'
    BY <1>5, <2>1, <2>2
  <2>4. ASSUME NEW x \in Waiters'
        PROVE  \E k \in DOMAIN queue' : queue'[k] = x
    BY <1>6, <2>1, <2>2
  <2>. QED
    BY <2>3, <2>4
<1>9. ASSUME NEW k \in DOMAIN queue', NEW l \in DOMAIN queue', queue'[k] = queue'[l]
      PROVE  k = l
  <2> DEFINE m == IF k < i THEN k ELSE k + 1
             n == IF l < i THEN l ELSE l + 1
  <2>1. m \in DOMAIN queue /\ n \in DOMAIN queue /\ queue[m] = queue[n]
    BY <1>2, <1>3, <1>9
  <2>2. m = n
    BY <2>1 DEF QueueOK
  <2>. QED
    BY <1>3, <2>2
<1>10. queue # <<>>
  BY <1>3
<1>. QED
  BY <1>1, <1>2, <1>8, <1>9, <1>10 DEF QueueOK

-----------------------------------------------------------------------------
(* The inductive invariant *)

IInv == TypeOK /\ SlotsCounted /\ NoIdleSlot

LEMMA InitIInv == Init => IInv
<1> SUFFICES ASSUME Init PROVE IInv
  OBVIOUS
<1>1. Holders = {} /\ Waiters = {} /\ DOMAIN queue = {}
  BY DEF Init, Holders, Waiters
<1>. QED
  BY <1>1, FS_EmptySet, BackpressureAssumption
  DEF Init, IInv, TypeOK, SlotsCounted, NoIdleSlot, Pcs

\* An action that moves nobody into or out of a slot or the queue.
LEMMA StillStep ==
  ASSUME IInv, active' = active, queue' = queue, pc' \in [Callers -> Pcs],
         Holders' = Holders, Waiters' = Waiters, cancelled' \subseteq Callers
  PROVE  IInv' /\ UNCHANGED Semaphore!svars
<1>1. TypeOK' /\ NoIdleSlot'
  BY DEF IInv, TypeOK, NoIdleSlot
<1>2. SlotsCounted'
  BY Zenon DEF IInv, SlotsCounted
<1>. QED
  BY <1>1, <1>2 DEF IInv, Semaphore!svars

\* acquire takes a free slot.
LEMMA EnterStep ==
  ASSUME IInv, NEW c \in Callers, Enter(c)
  PROVE  IInv' /\ Semaphore!Admit(c)
<1>1. Holders' = Holders \cup {c} /\ c \notin Holders /\ Waiters' = Waiters
  BY DEF Enter, Holders, Waiters, IInv, TypeOK
<1>2. Cardinality(Holders') = active + 1
  BY <1>1, HoldersFinite, FS_AddElement DEF IInv, SlotsCounted
<1>3. queue = <<>> /\ Cardinality(Holders) < MaxConcurrent
  BY BackpressureAssumption DEF Enter, HasRoom, IInv, NoIdleSlot, TypeOK, SlotsCounted
<1>4. TypeOK'
  BY BackpressureAssumption DEF Enter, HasRoom, IInv, TypeOK, Pcs
<1>5. SlotsCounted'
  BY <1>1, <1>2 DEF Enter, IInv, SlotsCounted
<1>6. NoIdleSlot'
  BY <1>3 DEF Enter, NoIdleSlot
<1>. QED
  BY <1>1, <1>3, <1>4, <1>5, <1>6, SameCardinality DEF IInv, Enter, Semaphore!Admit

\* acquire queues its caller.
LEMMA WaitStep ==
  ASSUME IInv, NEW c \in Callers, Wait(c)
  PROVE  IInv' /\ Semaphore!Join(c)
<1>1. QueueOK
  BY DEF IInv, SlotsCounted, QueueOK
<1>2. QueueOK'
  BY <1>1, WaitQueue DEF IInv
<1>3. Holders' = Holders
  BY DEF Wait, Holders, IInv, TypeOK
<1>4. active = MaxConcurrent
  BY BackpressureAssumption DEF Wait, HasRoom, IInv, TypeOK
<1>5. TypeOK'
  BY BackpressureAssumption DEF Wait, IInv, TypeOK, Pcs
<1>6. SlotsCounted'
  BY <1>2, <1>3 DEF Wait, IInv, SlotsCounted, QueueOK
<1>7. NoIdleSlot'
  BY <1>4 DEF Wait, NoIdleSlot
<1>8. c \notin Holders \cup Semaphore!InLine
  BY DEF Wait, Holders, Semaphore!InLine, IInv, SlotsCounted, Waiters
<1>9. Cardinality(Holders) >= MaxConcurrent
  BY <1>4, BackpressureAssumption DEF IInv, SlotsCounted
<1>. QED
  BY <1>3, <1>5, <1>6, <1>7, <1>8, <1>9, SameCardinality DEF IInv, Wait, Semaphore!Join

\* release gives the slot to the first in the queue, or frees it.
LEMMA ReleaseStep ==
  ASSUME IInv, NEW c \in Callers, c \in Holders, Release(c), cancelled' = cancelled
  PROVE  IInv' /\ Semaphore!Leave(c)
<1>1. QueueOK
  BY DEF IInv, SlotsCounted, QueueOK
<1>2. pc[c] \in {"granted", "working"}
  BY DEF Holders
<1>3. Cardinality(Holders \ {c}) = active - 1 /\ IsFiniteSet(Holders \ {c})
  BY HoldersFinite, FS_RemoveElement DEF IInv, SlotsCounted
<1>4. active \in Nat /\ active > 0
  <2>1. Cardinality(Holders \ {c}) \in Nat
    BY <1>3, FS_CardinalityType
  <2>. QED
    BY <2>1, <1>3 DEF IInv, TypeOK
<1>5. CASE queue = <<>>
  <2>1. /\ active' = active - 1 /\ queue' = queue
        /\ pc' = [pc EXCEPT ![c] = "ended"]
    BY <1>4, <1>5 DEF Release, OneLess
  <2>2. Holders' = Holders \ {c} /\ Waiters' = Waiters
    BY <1>2, <2>1 DEF Holders, Waiters, IInv, TypeOK
  <2>3. TypeOK'
    BY <1>4, <2>1, BackpressureAssumption DEF IInv, TypeOK, Pcs
  <2>4. SlotsCounted'
    BY <1>3, <2>1, <2>2 DEF IInv, SlotsCounted
  <2>5. NoIdleSlot'
    BY <1>5, <2>1 DEF NoIdleSlot
  <2>. QED
    BY <1>5, <2>1, <2>2, <2>3, <2>4, <2>5 DEF IInv, Semaphore!Leave
<1>6. CASE queue # <<>>
  <2> DEFINE h == Head(queue)
  <2>1. /\ active' = active /\ queue' = Tail(queue)
        /\ pc' = [pc EXCEPT ![c] = "ended", ![h] = "granted"]
    BY <1>4, <1>6 DEF Release, OneLess
  <2>2. QueueOK' /\ h \in Callers \ Holders /\ Holders' = (Holders \ {c}) \cup {h}
    BY <1>1, <1>2, <1>6, <2>1, HandOver DEF IInv
  <2>3. Cardinality(Holders') = active
    <3>1. h \notin Holders \ {c}
      BY <2>2
    <3>2. Cardinality((Holders \ {c}) \cup {h}) = Cardinality(Holders \ {c}) + 1
      BY <1>3, <3>1, FS_AddElement
    <3>. QED
      BY <1>3, <1>4, <2>2, <3>2
  <2>4. TypeOK'
    <3>1. queue' \in Seq(Callers) /\ Len(queue') = Len(queue) - 1
      BY <1>6, <2>1 DEF IInv, TypeOK
    <3>. QED
      BY <2>1, <2>2, <3>1, BackpressureAssumption DEF IInv, TypeOK, Pcs
  <2>5. SlotsCounted'
    BY <2>1, <2>2, <2>3 DEF SlotsCounted, QueueOK
  <2>6. NoIdleSlot'
    BY <1>6, <2>1 DEF IInv, NoIdleSlot
  <2>. QED
    BY <1>6, <2>1, <2>2, <2>4, <2>5, <2>6 DEF IInv, Semaphore!Leave
<1>. QED
  BY <1>5, <1>6

\* cancel takes a waiter out of the queue, and moves nobody else.
LEMMA CancelStep ==
  ASSUME IInv, NEW c \in Callers, Cancel(c)
  PROVE  IInv' /\ [Semaphore!SNext]_(Semaphore!svars)
<1>1. CASE pc[c] = "waiting"
  <2>1. /\ queue' = RemoveWaiter(c) /\ pc' = [pc EXCEPT ![c] = "ended"]
        /\ active' = active /\ cancelled' = cancelled \cup {c}
    BY <1>1 DEF Cancel
  <2>2. QueueOK
    BY DEF IInv, SlotsCounted, QueueOK
  <2>3. /\ QueueOK' /\ queue' \in Seq(Callers) /\ Len(queue') = Len(queue) - 1
        /\ queue # <<>>
        /\ \E i \in DOMAIN queue : queue' = SubSeq(queue, 1, i - 1)
                                         \o SubSeq(queue, i + 1, Len(queue))
    BY <1>1, <2>1, <2>2, CancelQueue DEF IInv
  <2>4. Holders' = Holders
    BY <1>1, <2>1 DEF Holders, IInv, TypeOK
  <2>5. TypeOK'
    BY <2>1, <2>3, BackpressureAssumption DEF IInv, TypeOK, Pcs
  <2>6. SlotsCounted'
    BY <2>1, <2>3, <2>4 DEF IInv, SlotsCounted, QueueOK
  <2>7. NoIdleSlot'
    BY <2>1, <2>3 DEF IInv, NoIdleSlot
  <2>8. \E i \in DOMAIN queue : Semaphore!Withdraw(i)
    BY <2>3, <2>4 DEF Semaphore!Withdraw
  <2>. QED
    BY <2>5, <2>6, <2>7, <2>8 DEF IInv, Semaphore!SNext
<1>2. CASE pc[c] # "waiting"
  <2>1. UNCHANGED <<active, queue, pc>> /\ cancelled' \subseteq Callers
    BY <1>2 DEF Cancel, IInv, TypeOK
  <2>2. Holders' = Holders /\ Waiters' = Waiters
    BY <2>1 DEF Holders, Waiters
  <2>. QED
    BY <2>1, <2>2, StillStep DEF IInv, TypeOK
<1>. QED
  BY <1>1, <1>2

LEMMA NextStep ==
  ASSUME IInv, [Next]_vars
  PROVE  IInv' /\ [Semaphore!SNext]_(Semaphore!svars)
<1>1. ASSUME NEW c \in Callers, Enter(c)
      PROVE  IInv' /\ [Semaphore!SNext]_(Semaphore!svars)
  BY <1>1, EnterStep DEF Semaphore!SNext
<1>2. ASSUME NEW c \in Callers, Wait(c)
      PROVE  IInv' /\ [Semaphore!SNext]_(Semaphore!svars)
  BY <1>2, WaitStep DEF Semaphore!SNext
<1>3. ASSUME NEW c \in Callers, Refused(c) \/ Begin(c) \/ Again(c)
      PROVE  IInv' /\ [Semaphore!SNext]_(Semaphore!svars)
  <2>1. /\ active' = active /\ queue' = queue /\ cancelled' \subseteq Callers
        /\ pc' \in [Callers -> Pcs]
    BY <1>3 DEF Refused, Begin, Again, IInv, TypeOK, Pcs
  <2>2. Holders' = Holders /\ Waiters' = Waiters
    BY <1>3 DEF Refused, Begin, Again, Holders, Waiters, IInv, TypeOK
  <2>. QED
    BY <2>1, <2>2, StillStep
<1>4. ASSUME NEW c \in Callers, Abort(c) \/ Finish(c)
      PROVE  IInv' /\ [Semaphore!SNext]_(Semaphore!svars)
  <2>1. c \in Holders /\ Release(c) /\ cancelled' = cancelled
    BY <1>4 DEF Abort, Finish, Holders
  <2>. QED
    BY <2>1, ReleaseStep DEF Semaphore!SNext
<1>5. ASSUME NEW c \in Callers, Cancel(c)
      PROVE  IInv' /\ [Semaphore!SNext]_(Semaphore!svars)
  BY <1>5, CancelStep
<1>6. CASE UNCHANGED vars
  <2>1. Holders' = Holders /\ Waiters' = Waiters
    BY <1>6 DEF vars, Holders, Waiters
  <2>. QED
    BY <1>6, <2>1, StillStep DEF vars, IInv, TypeOK
<1>. QED
  BY <1>1, <1>2, <1>3, <1>4, <1>5, <1>6 DEF Next

-----------------------------------------------------------------------------
(* Theorems *)

LEMMA Invariance == Spec => []IInv
<1>1. IInv /\ [Next]_vars => IInv'
  BY NextStep
<1>. QED
  BY InitIInv, <1>1, PTL DEF Spec

\* The counter, the queue and the callers' promises have their types and limits
\* (acquire, release and cancel), for any limits.
THEOREM TypeCorrect == Spec => []TypeOK
<1>1. IInv => TypeOK
  BY DEF IInv
<1>. QED
  BY <1>1, Invariance, PTL

\* The counter of BackpressureController equals the number of operations that
\* hold a slot, and its queue the waiting ones, whatever is cancelled when.
THEOREM ExactCount == Spec => []SlotsCounted
<1>1. IInv => SlotsCounted
  BY DEF IInv
<1>. QED
  BY <1>1, Invariance, PTL

\* acquire and release leave nobody waiting in front of a free slot.
THEOREM NoSlotIdle == Spec => []NoIdleSlot
<1>1. IInv => NoIdleSlot
  BY DEF IInv
<1>. QED
  BY <1>1, Invariance, PTL

\* BackpressureController is a semaphore with a bounded first-come line.
THEOREM Refinement == Spec => ImplementsSemaphore
<1>1. Init => Semaphore!SInit
  BY DEF Init, Semaphore!SInit, Holders
<1>2. IInv /\ [Next]_vars => [Semaphore!SNext]_(Semaphore!svars)
  BY NextStep
<1>. QED
  BY <1>1, <1>2, Invariance, PTL DEF Spec, ImplementsSemaphore, Semaphore!SSpec
=============================================================================
