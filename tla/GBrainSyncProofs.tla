-------------------------- MODULE GBrainSyncProofs --------------------------
(***************************************************************************)
(* What the lock file of the GBrain sync guarantees and what survives when *)
(* it is broken, for any number of commands, stages and checkouts.         *)
(***************************************************************************)
EXTENDS GBrainSync, FiniteSetTheorems, TLAPS

\* A lock lets one holder in, and so does every lock that was broken.
HoldersCounted == Cardinality(Holders) <= breaks + (IF lock = NoLock THEN 0 ELSE 1)

\* Who is about to remove the lock file has read its own name in it.
ReadBeforeUnlink ==
  \A p \in Process : At(p, "unlink") =>
    run[p].seen <= breaks /\ (run[p].seen = breaks => lock.pid = p)

\* A lock in the way of who is about to create one was made after it looked.
CreatedSince ==
  \A p \in Process :
    /\ run[p].started <= clock
    /\ At(p, "create") /\ lock # NoLock => lock.mtime >= run[p].started

\* What a command has loaded, if it could, is what the file still says.
LoadedIsCurrent ==
  /\ lastFull <= clock
  /\ \A p \in Process : At(p, "save") =>
       /\ run[p].loaded <= clock
       /\ breaks = 0 => run[p].loaded = lastFull \/ run[p].found = "nothing"

\* A stage that is at work has a checkout left.
WorkLeft == \A p \in Process : At(p, "work") => run[p].left > 0

IInv == /\ TypeOK /\ HoldersCounted /\ ReadBeforeUnlink /\ CreatedSince
        /\ LoadedIsCurrent /\ WorkLeft

-----------------------------------------------------------------------------
(* The control state of one command *)

Others(p) == \A q \in Process \ {p} : run'[q] = run[q]

Becomes(p, pc) == run' \in [Process -> Run] /\ Others(p) /\ run'[p].pc = pc

PCs == {"start", "exists", "stat", "remove", "create", "ended"} \cup Holding

LEMMA Typing ==
  ASSUME TypeOK
  PROVE  /\ run \in [Process -> Run] /\ clock \in Nat /\ breaks \in Nat /\ lastFull \in Nat
         /\ lock = NoLock \/ lock \in [pid : Process, mtime : Nat]
  BY SyncAssumption DEF TypeOK

LEMMA GotoFacts ==
  ASSUME run \in [Process -> Run], NEW p \in Process, NEW pc \in PCs, Goto(p, pc)
  PROVE  /\ Becomes(p, pc) /\ run'[p].started = run[p].started
         /\ run'[p].result = run[p].result
<1>1. run' = [run EXCEPT ![p].pc = pc]
  BY DEF Goto
<1>. QED
  BY <1>1 DEF Run, PCs, Becomes, Others

LEMMA EndFacts ==
  ASSUME run \in [Process -> Run], NEW p \in Process, NEW result \in Results,
         End(p, result)
  PROVE  Becomes(p, "ended") /\ run'[p].started = 0 /\ run'[p].result = result
<1>1. Idle("ended", result) \in Run
  BY DEF Idle, Run
<1>2. run' = [run EXCEPT ![p] = Idle("ended", result)]
  BY DEF End
<1>. QED
  BY <1>1, <1>2 DEF Becomes, Others, Idle

-----------------------------------------------------------------------------
(* Most steps change nothing but the control state of their command *)

Local(p) ==
  /\ UNCHANGED <<clock, lock, lastFull, breaks>>
  /\ run' \in [Process -> Run] /\ Others(p)
  /\ run'[p].pc \in Holding => run[p].pc \in Holding
  /\ run'[p].pc = "create" => lock = NoLock
  /\ run'[p].pc = "unlink" => run'[p].seen = breaks /\ lock.pid = p
  /\ run'[p].pc = "save" =>
       \/ run'[p].loaded = lastFull
       \/ run'[p].loaded = 0 /\ run'[p].found = "nothing"
  /\ run'[p].pc = "work" => run'[p].left > 0
  /\ run'[p].started \in {run[p].started, clock, 0}

LEMMA LocalPreserves ==
  ASSUME IInv, NEW p \in Process, Local(p)
  PROVE  IInv'
<1>1. TypeOK'
  BY DEF IInv, TypeOK, Local
<1>2. HoldersCounted'
  <2>1. Holders' \subseteq Holders
    BY DEF Holders, Local, Others
  <2>2. IsFiniteSet(Holders)
    BY SyncAssumption, FS_Subset DEF Holders
  <2>3. /\ Cardinality(Holders') \in Nat /\ Cardinality(Holders) \in Nat
        /\ Cardinality(Holders') <= Cardinality(Holders)
    BY <2>1, <2>2, FS_Subset, FS_CardinalityType
  <2>4. PICK n \in Nat : n = Cardinality(Holders')
    BY <2>3
  <2>5. n <= breaks + (IF lock = NoLock THEN 0 ELSE 1)
    BY <2>3, <2>4, Typing DEF IInv, HoldersCounted
  <2>. QED
    BY <2>4, <2>5 DEF HoldersCounted, Local, NoLock
<1>3. ReadBeforeUnlink'
  BY Typing DEF IInv, ReadBeforeUnlink, Local, Others, At
<1>4. CreatedSince'
  <2>1. ASSUME NEW q \in Process
        PROVE  /\ run'[q].started <= clock'
               /\ (At(q, "create") /\ lock # NoLock => lock.mtime >= run[q].started)'
    <3>1. /\ clock' = clock /\ lock' = lock /\ clock \in Nat
          /\ run[q].started <= clock
          /\ At(q, "create") /\ lock # NoLock => lock.mtime >= run[q].started
      BY Typing DEF IInv, CreatedSince, Local
    <3>2. CASE q = p
      <4>1. run'[q].started <= clock
        BY <3>1, <3>2 DEF Local
      <4>2. run'[q].pc = "create" => lock = NoLock
        BY <3>2 DEF Local
      <4>. QED
        BY <3>1, <4>1, <4>2 DEF At, NoLock
    <3>3. CASE q # p
      <4>1. run'[q] = run[q]
        BY <3>3 DEF Local, Others
      <4>. QED
        BY <3>1, <4>1 DEF At, NoLock
    <3>. QED
      BY <3>2, <3>3
  <2>. QED
    BY <2>1 DEF CreatedSince
<1>5. LoadedIsCurrent'
  BY Typing DEF IInv, LoadedIsCurrent, Local, Others, At
<1>6. WorkLeft'
  BY DEF IInv, WorkLeft, Local, Others, At
<1>. QED
  BY <1>1, <1>2, <1>3, <1>4, <1>5, <1>6 DEF IInv

LEMMA AcquireIsLocal ==
  ASSUME TypeOK, NEW p \in Process, Begin(p) \/ DryRun(p) \/ Exists(p) \/ Stat(p)
  PROVE  Local(p)
<1>1. CASE Begin(p)
  <2>1. run' = [run EXCEPT ![p].pc = "exists", ![p].started = clock]
    BY <1>1 DEF Begin
  <2>2. Becomes(p, "exists") /\ run'[p].started = clock
    <3>1. run \in [Process -> Run] /\ run[p] \in Run /\ clock \in Nat
      BY Typing
    <3>. QED
      BY <2>1, <3>1 DEF Run, Becomes, Others
  <2>. QED
    BY <1>1, <2>2 DEF Begin, Local, Becomes, Holding
<1>2. CASE DryRun(p)
  <2>1. Becomes(p, "ended") /\ run'[p].started = 0
    BY <1>2, EndFacts, Typing DEF DryRun, Results
  <2>. QED
    BY <1>2, <2>1 DEF DryRun, Local, Becomes, Holding
<1>3. CASE Exists(p)
  <2>1. PICK pc \in {"create", "stat"} : Goto(p, pc) /\ (pc = "create" => lock = NoLock)
    BY <1>3 DEF Exists
  <2>2. Becomes(p, pc) /\ run'[p].started = run[p].started
    BY <2>1, GotoFacts, Typing DEF PCs
  <2>. QED
    BY <1>3, <2>1, <2>2 DEF Exists, Local, Becomes, Holding
<1>4. CASE Stat(p)
  <2>1. UNCHANGED <<clock, lock, lastFull, breaks>>
    BY <1>4 DEF Stat
  <2>2. CASE \E result \in {"threw", "refused"} : End(p, result)
    <3>1. Becomes(p, "ended") /\ run'[p].started = 0
      BY <2>2, EndFacts, Typing DEF Results
    <3>. QED
      BY <2>1, <3>1 DEF Local, Becomes, Holding
  <2>3. CASE Goto(p, "remove")
    <3>1. Becomes(p, "remove") /\ run'[p].started = run[p].started
      BY <2>3, GotoFacts, Typing DEF PCs
    <3>. QED
      BY <2>1, <3>1 DEF Local, Becomes, Holding
  <2>. QED
    BY <1>4, <2>2, <2>3 DEF Stat
<1>. QED
  BY <1>1, <1>2, <1>3, <1>4

LEMMA StagesAreLocal ==
  ASSUME TypeOK, WorkLeft, NEW p \in Process,
         \/ StartStage(p) \/ SkipStage(p) \/ SyncSource(p) \/ SourceThrows(p)
         \/ StagesDone(p)
  PROVE  Local(p)
<1>1. UNCHANGED <<clock, lock, lastFull, breaks>> /\ run[p].pc \in {"stage", "work"}
  BY DEF StartStage, SkipStage, SyncSource, SourceThrows, StagesDone, NextStage, At
<1>2. /\ run \in [Process -> Run] /\ run[p] \in Run /\ clock + ChildTime \in Nat
  BY Typing, SyncAssumption
<1>3. \E pc \in {"stage", "work", "load", "read"} :
        /\ Becomes(p, pc) /\ run'[p].started \in {run[p].started, 0}
        /\ pc = "work" => run'[p].left > 0
  <2>1. CASE StartStage(p)
    <3>1. PICK pc \in {"stage", "work"} :
            run' = [run EXCEPT ![p].pc = pc, ![p].left = Head(run[p].todo),
                               ![p].todo = Rest(p), ![p].timer = clock + ChildTime]
            /\ (pc = "work" => Head(run[p].todo) # 0)
      BY <2>1 DEF StartStage
    <3>2. Head(run[p].todo) \in Nat /\ Rest(p) \in Seq(Nat)
      BY <1>2, <2>1 DEF StartStage, NextStage, Rest, Run
    <3> DEFINE head == Head(run[p].todo)
               rest == Rest(p)
               timer == clock + ChildTime
    <3> HIDE DEF head, rest, timer
    <3>3. /\ run' = [run EXCEPT ![p].pc = pc, ![p].left = head, ![p].todo = rest,
                                ![p].timer = timer]
          /\ head \in Nat /\ rest \in Seq(Nat) /\ timer \in Nat
          /\ pc = "work" => head > 0
      BY <1>2, <3>1, <3>2 DEF head, rest, timer
    <3>4. Becomes(p, pc) /\ run'[p].started = run[p].started
      BY <1>2, <3>3 DEF Run, Holding, Becomes, Others
    <3>5. run'[p].left = head
      BY <1>2, <3>3 DEF Run
    <3>. QED
      BY <3>3, <3>4, <3>5
  <2>2. CASE SkipStage(p)
    <3>1. run' = [run EXCEPT ![p].todo = Rest(p)] /\ run[p].pc = "stage"
      BY <2>2 DEF SkipStage, NextStage, At
    <3>2. Rest(p) \in Seq(Nat)
      BY <1>2, <2>2 DEF SkipStage, NextStage, Rest, Run
    <3>. QED
      BY <1>2, <3>1, <3>2 DEF Run, Holding, Becomes, Others
  <2>4. CASE StagesDone(p)
    <3>1. run' = [run EXCEPT ![p].pc = "load", ![p].timer = 0]
      BY <2>4 DEF StagesDone
    <3>. QED
      BY <1>2, <3>1 DEF Run, Holding, Becomes, Others
  <2>3. CASE SyncSource(p)
    <3>1. PICK pc \in {"stage", "work"}, result \in {run[p].result, "errors"} :
            run' = [run EXCEPT ![p].pc = pc, ![p].left = @ - 1, ![p].result = result,
                               ![p].timer = clock + ChildTime]
            /\ (pc = "work" => run[p].left # 1)
      BY <2>3 DEF SyncSource
    <3>2. /\ run[p].left - 1 \in Nat
          /\ run[p].left # 1 => run[p].left - 1 > 0
      BY <1>2, <2>3 DEF SyncSource, WorkLeft, Run
    <3>. QED
      BY <1>2, <3>1, <3>2 DEF Run, Holding, Results, Becomes, Others
  <2>5. CASE SourceThrows(p)
    <3> DEFINE r == Idle("read", "threw")
    <3>1. r \in Run /\ r.pc = "read" /\ r.started = 0
      BY DEF Idle, Run, Holding, Results
    <3>2. run' = [run EXCEPT ![p] = r]
      BY <2>5 DEF SourceThrows
    <3>. HIDE DEF r
    <3>. QED
      BY <1>2, <3>1, <3>2 DEF Becomes, Others
  <2>. QED
    BY <2>1, <2>2, <2>3, <2>4, <2>5
<1>. QED
  BY <1>1, <1>3 DEF Local, Becomes, Holding

LEMMA EndIsLocal ==
  ASSUME TypeOK, NEW p \in Process,
         LoadState(p) \/ SaveFails(p) \/ ReadLock(p) \/ Crash(p)
  PROVE  Local(p)
<1>1. UNCHANGED <<clock, lock, lastFull, breaks>>
  BY DEF LoadState, SaveFails, ReadLock, Crash
<1>2. /\ run \in [Process -> Run] /\ run[p] \in Run /\ lastFull \in Nat /\ breaks \in Nat
      /\ Result(p) \in Results
  BY Typing DEF Result, Run, Results
<1>3. CASE LoadState(p)
  <2>1. PICK found \in {"state", "nothing"} :
          run' = [run EXCEPT ![p].pc = "save", ![p].found = found,
                             ![p].loaded = IF found = "state" THEN lastFull ELSE 0]
    BY <1>3 DEF LoadState
  <2>3. run[p].pc = "load"
    BY <1>3 DEF LoadState, At
  <2> DEFINE loaded == IF found = "state" THEN lastFull ELSE 0
  <2>4. loaded \in Nat /\ (loaded = lastFull \/ (loaded = 0 /\ found = "nothing"))
    BY <1>2
  <2>. HIDE DEF loaded
  <2>5. run' = [run EXCEPT ![p].pc = "save", ![p].found = found, ![p].loaded = loaded]
    BY <2>1 DEF loaded
  <2>2. /\ Becomes(p, "save") /\ run'[p].started = run[p].started
        /\ run'[p].loaded = loaded /\ run'[p].found = found
    BY <1>2, <2>4, <2>5 DEF Run, Holding, Becomes, Others
  <2>. QED
    BY <1>1, <2>2, <2>3, <2>4 DEF Local, Becomes, Holding
<1>4. CASE SaveFails(p)
  <2>1. /\ run' = [run EXCEPT ![p].pc = "read", ![p].result = "threw", ![p].loaded = 0,
                              ![p].found = "state"]
        /\ run[p].pc = "save"
    BY <1>4 DEF SaveFails, At
  <2>2. Becomes(p, "read") /\ run'[p].started = run[p].started
    BY <1>2, <2>1 DEF Run, Holding, Results, Becomes, Others
  <2>. QED
    BY <1>1, <2>1, <2>2 DEF Local, Becomes, Holding
<1>5. CASE ReadLock(p) /\ OwnLock(p)
  <2>1. /\ run' = [run EXCEPT ![p].pc = "unlink", ![p].seen = breaks]
        /\ run[p].pc = "read" /\ lock.pid = p
    BY <1>5 DEF ReadLock, OwnLock, At
  <2>2. Becomes(p, "unlink") /\ run'[p].seen = breaks /\ run'[p].started = run[p].started
    BY <1>2, <2>1 DEF Run, Holding, Becomes, Others
  <2>. QED
    BY <1>1, <2>1, <2>2 DEF Local, Becomes, Holding
<1>6. CASE \E result \in Results : End(p, result)
  <2>1. Becomes(p, "ended") /\ run'[p].started = 0
    BY <1>2, <1>6, EndFacts
  <2>. QED
    BY <1>1, <2>1 DEF Local, Becomes, Holding
<1>. QED
  BY <1>2, <1>3, <1>4, <1>5, <1>6 DEF ReadLock, Crash, Results

-----------------------------------------------------------------------------
(* The steps that change the lock or the state file *)

LEMMA HoldersFinite == IsFiniteSet(Holders) /\ Cardinality(Holders) \in Nat
  BY SyncAssumption, FS_Subset, FS_CardinalityType DEF Holders

LEMMA NowIsTime == ASSUME TypeOK PROVE clock \in 1 .. MaxTime /\ clock > 0
  BY SyncAssumption DEF TypeOK

\* Whoever takes the lock joins the holders; nobody is about to create one
\* that this lock is too old for.
LEMMA TakePreserves ==
  ASSUME IInv, NEW p \in Process, Create(p), MayCreate
  PROVE  IInv'
<1>1. /\ run' = [run EXCEPT ![p] = [Idle("stage", "none") EXCEPT !.todo = Work[p]]]
      /\ run[p].pc = "create" /\ lock = NoLock /\ lock' = [pid |-> p, mtime |-> clock]
      /\ UNCHANGED <<clock, lastFull, breaks>>
  BY DEF Create, MayCreate, At
<1>2. /\ run \in [Process -> Run] /\ clock \in Nat /\ breaks \in Nat
      /\ Work[p] \in Seq(Nat)
  BY Typing, SyncAssumption DEF IInv
<1>3. Becomes(p, "stage") /\ run'[p].started = 0
  <2> DEFINE r == [Idle("stage", "none") EXCEPT !.todo = Work[p]]
  <2>1. r \in Run /\ r.pc = "stage" /\ r.started = 0
    BY <1>2 DEF Idle, Run, Holding, Results
  <2> HIDE DEF r
  <2>2. run' = [run EXCEPT ![p] = r]
    BY <1>1 DEF r
  <2>. QED
    BY <1>2, <2>1, <2>2 DEF Becomes, Others
<1>4. lock' # NoLock /\ lock'.pid = p /\ lock'.mtime = clock /\ lock.pid = "nobody"
  BY <1>1, SyncAssumption DEF NoLock
<1>5. TypeOK'
  BY <1>1, <1>3, NowIsTime DEF IInv, TypeOK, Becomes
<1>6. HoldersCounted'
  <2>1. Holders' = Holders \cup {p} /\ p \notin Holders
    BY <1>1, <1>3 DEF Holders, Becomes, Others, Holding
  <2>2. Cardinality(Holders') = Cardinality(Holders) + 1
    BY <2>1, HoldersFinite, FS_AddElement
  <2>3. PICK n \in Nat : n = Cardinality(Holders)
    BY HoldersFinite
  <2>4. n <= breaks
    BY <1>1, <1>2, <2>3 DEF IInv, HoldersCounted
  <2>. QED
    BY <1>1, <1>2, <1>4, <2>2, <2>3, <2>4 DEF HoldersCounted
<1>7. ReadBeforeUnlink'
  <2>1. ASSUME NEW q \in Process, run'[q].pc = "unlink"
        PROVE  run'[q].seen <= breaks /\ run'[q].seen # breaks
    <3>1. q # p /\ run'[q] = run[q]
      BY <1>3, <2>1 DEF Becomes, Others
    <3>2. run[q].seen <= breaks /\ run[q].seen # breaks
      BY <1>4, <2>1, <3>1, SyncAssumption DEF IInv, ReadBeforeUnlink, At
    <3>. QED
      BY <3>1, <3>2
  <2>. QED
    BY <1>1, <2>1 DEF ReadBeforeUnlink, At
<1>8. CreatedSince'
  BY <1>1, <1>2, <1>3, <1>4 DEF IInv, CreatedSince, Becomes, Others, At
<1>9. LoadedIsCurrent' /\ WorkLeft'
  BY <1>1, <1>3 DEF IInv, LoadedIsCurrent, WorkLeft, Becomes, Others, At
<1>. QED
  BY <1>5, <1>6, <1>7, <1>8, <1>9 DEF IInv

\* A lock that nobody holds may be left behind.
LEMMA CreateFailsPreserves ==
  ASSUME IInv, NEW p \in Process, CreateFails(p)
  PROVE  IInv'
<1>1. /\ run[p].pc = "create" /\ lock = NoLock
      /\ lock' = NoLock \/ lock' = [pid |-> p, mtime |-> clock]
      /\ UNCHANGED <<clock, lastFull, breaks>>
  BY DEF CreateFails, At
<1>2. Becomes(p, "ended") /\ run'[p].started = 0
  BY EndFacts, Typing DEF IInv, CreateFails, Results
<1>3. CASE lock' = NoLock
  <2>1. Local(p)
    BY <1>1, <1>2, <1>3 DEF Local, Becomes, Holding
  <2>. QED
    BY <2>1, LocalPreserves
<1>4. CASE lock' = [pid |-> p, mtime |-> clock]
  <2>1. lock' # NoLock /\ lock'.mtime = clock /\ lock.pid = "nobody"
    BY <1>1, <1>4, SyncAssumption DEF NoLock
  <2>2. TypeOK'
    BY <1>1, <1>2, <1>4, NowIsTime DEF IInv, TypeOK, Becomes
  <2>3. HoldersCounted'
    <3>1. Holders' = Holders
      BY <1>1, <1>2 DEF Holders, Becomes, Others, Holding
    <3>2. PICK n \in Nat : n = Cardinality(Holders)
      BY HoldersFinite
    <3>3. n <= breaks /\ breaks \in Nat
      BY <1>1, <3>2, Typing DEF IInv, HoldersCounted
    <3>. QED
      BY <1>1, <2>1, <3>1, <3>2, <3>3 DEF HoldersCounted
  <2>4. ReadBeforeUnlink'
    <3>1. ASSUME NEW q \in Process, run'[q].pc = "unlink"
          PROVE  run'[q].seen <= breaks /\ run'[q].seen # breaks
      <4>1. q # p /\ run'[q] = run[q]
        BY <1>2, <3>1 DEF Becomes, Others
      <4>. QED
        BY <2>1, <3>1, <4>1, SyncAssumption DEF IInv, ReadBeforeUnlink, At
    <3>. QED
      BY <1>1, <3>1 DEF ReadBeforeUnlink, At
  <2>5. CreatedSince'
    BY <1>1, <1>2, <2>1, Typing DEF IInv, CreatedSince, Becomes, Others, At
  <2>6. LoadedIsCurrent' /\ WorkLeft'
    BY <1>1, <1>2 DEF IInv, LoadedIsCurrent, WorkLeft, Becomes, Others, At
  <2>. QED
    BY <2>2, <2>3, <2>4, <2>5, <2>6 DEF IInv
<1>. QED
  BY <1>1, <1>3, <1>4

\* A lock that is broken makes room for one holder more.
LEMMA RemovePreserves ==
  ASSUME IInv, NEW p \in Process, Remove(p)
  PROVE  IInv'
<1>1. /\ run[p].pc = "remove" /\ Goto(p, "create")
      /\ lock' = NoLock /\ breaks' = breaks + 1 /\ UNCHANGED <<clock, lastFull>>
  BY DEF Remove, At
<1>2. Becomes(p, "create") /\ run'[p].started = run[p].started
  BY <1>1, GotoFacts, Typing DEF IInv, PCs
<1>3. breaks \in Nat /\ breaks' # 0
  BY <1>1, Typing DEF IInv
<1>4. TypeOK'
  BY <1>1, <1>2, <1>3 DEF IInv, TypeOK, Becomes
<1>5. HoldersCounted'
  <2>1. Holders' = Holders
    BY <1>1, <1>2 DEF Holders, Becomes, Others, Holding
  <2>2. PICK n \in Nat : n = Cardinality(Holders)
    BY HoldersFinite
  <2>3. n <= breaks + 1
    BY <1>3, <2>2 DEF IInv, HoldersCounted
  <2>. QED
    BY <1>1, <1>3, <2>1, <2>2, <2>3 DEF HoldersCounted
<1>6. ReadBeforeUnlink'
  <2>1. ASSUME NEW q \in Process, run'[q].pc = "unlink"
        PROVE  run'[q].seen < breaks + 1 /\ run'[q].seen \in Nat
    <3>1. q # p /\ run'[q] = run[q]
      BY <1>2, <2>1 DEF Becomes, Others
    <3>2. run[q] \in Run /\ run[q].seen \in Nat
      BY Typing DEF IInv, Run
    <3>. QED
      BY <1>3, <2>1, <3>1, <3>2 DEF IInv, ReadBeforeUnlink, At
  <2>. QED
    BY <1>1, <1>3, <2>1 DEF ReadBeforeUnlink, At
<1>7. CreatedSince'
  BY <1>1, <1>2 DEF IInv, CreatedSince, Becomes, Others, At
<1>8. LoadedIsCurrent' /\ WorkLeft'
  BY <1>1, <1>2, <1>3 DEF IInv, LoadedIsCurrent, WorkLeft, Becomes, Others, At
<1>. QED
  BY <1>4, <1>5, <1>6, <1>7, <1>8 DEF IInv

\* While no lock was broken there is one holder at most.
LEMMA OneHolder ==
  ASSUME IInv, breaks = 0, NEW p \in Holders, NEW q \in Holders
  PROVE  p = q
<1>1. PICK n \in Nat : n = Cardinality(Holders)
  BY HoldersFinite
<1>2. n <= 1
  BY <1>1 DEF IInv, HoldersCounted
<1>. QED
  BY <1>1, <1>2, HoldersFinite, FS_CardinalityType, FS_EmptySet, FS_Singleton

LEMMA NewFullFacts ==
  ASSUME IInv, NEW p \in Process, SaveState(p)
  PROVE  /\ NewFull(p) \in 0 .. MaxTime /\ NewFull(p) <= clock
         /\ breaks = 0 => NewFull(p) >= lastFull \/ run[p].found = "nothing"
<1>1. /\ clock \in 0 .. MaxTime /\ lastFull <= clock /\ At(p, "save") /\ clock \in Nat
      /\ lastFull \in Nat
  BY NowIsTime, Typing DEF IInv, TypeOK, LoadedIsCurrent, SaveState
<1>2. /\ run[p].loaded <= clock /\ run[p].loaded \in Nat
      /\ breaks = 0 => run[p].loaded = lastFull \/ run[p].found = "nothing"
  BY <1>1, Typing DEF IInv, LoadedIsCurrent, Run
<1>. QED
  BY <1>1, <1>2, SyncAssumption DEF NewFull

\* Nobody else is about to save while no lock was broken.
LEMMA SavePreserves ==
  ASSUME IInv, NEW p \in Process, SaveState(p)
  PROVE  IInv'
<1>1. /\ run[p].pc = "save"
      /\ run' = [run EXCEPT ![p].pc = "read", ![p].loaded = 0, ![p].found = "state"]
      /\ lastFull' = NewFull(p) /\ UNCHANGED <<clock, lock, breaks>>
  BY DEF SaveState, At
<1>2. Becomes(p, "read") /\ run'[p].started = run[p].started
  <2>1. run \in [Process -> Run] /\ run[p] \in Run
    BY Typing DEF IInv
  <2>. QED
    BY <1>1, <2>1 DEF Run, Holding, Becomes, Others
<1>3. TypeOK'
  BY <1>1, <1>2, NewFullFacts DEF IInv, TypeOK, Becomes
<1>4. HoldersCounted'
  <2>1. Holders' = Holders
    BY <1>1, <1>2 DEF Holders, Becomes, Others, Holding
  <2>. QED
    BY <1>1, <2>1 DEF IInv, HoldersCounted
<1>5. ReadBeforeUnlink' /\ CreatedSince' /\ WorkLeft'
  BY <1>1, <1>2 DEF IInv, ReadBeforeUnlink, CreatedSince, WorkLeft, Becomes, Others, At
<1>6. LoadedIsCurrent'
  <2>1. ASSUME NEW q \in Process, run'[q].pc = "save"
        PROVE  run'[q].loaded <= clock /\ breaks # 0
    <3>1. q # p /\ run'[q] = run[q]
      BY <1>2, <2>1 DEF Becomes, Others
    <3>2. p \in Holders /\ q \in Holders
      BY <1>1, <2>1, <3>1 DEF Holders, Holding
    <3>3. breaks # 0
      BY <3>1, <3>2, OneHolder
    <3>. QED
      BY <2>1, <3>1, <3>3 DEF IInv, LoadedIsCurrent, At
  <2>. QED
    BY <1>1, <2>1, NewFullFacts DEF LoadedIsCurrent, At
<1>. QED
  BY <1>3, <1>4, <1>5, <1>6 DEF IInv

\* Removing one's own lock ends one holding; removing another's is a break.
LEMMA UnlinkPreserves ==
  ASSUME IInv, NEW p \in Process, Unlink(p)
  PROVE  IInv'
<1>1. /\ run[p].pc = "unlink" /\ End(p, Result(p)) /\ lock' = NoLock
      /\ breaks' = IF lock.pid \in {p, "nobody"} THEN breaks ELSE breaks + 1
      /\ UNCHANGED <<clock, lastFull>>
  BY DEF Unlink, At
<1>2. Becomes(p, "ended") /\ run'[p].started = 0
  <2>1. Result(p) \in Results
    BY Typing DEF IInv, Result, Run, Results
  <2>. QED
    BY <1>1, <2>1, EndFacts, Typing DEF IInv
<1>3. breaks \in Nat /\ breaks' \in {breaks, breaks + 1}
  BY <1>1, Typing DEF IInv
<1>4. TypeOK'
  BY <1>1, <1>2, <1>3 DEF IInv, TypeOK, Becomes
<1>5. HoldersCounted'
  <2>1. Holders' = Holders \ {p} /\ p \in Holders
    BY <1>1, <1>2 DEF Holders, Becomes, Others, Holding
  <2>2. Cardinality(Holders') = Cardinality(Holders) - 1
    BY <2>1, HoldersFinite, FS_RemoveElement
  <2>3. PICK n \in Nat : n = Cardinality(Holders)
    BY HoldersFinite
  <2>4. n <= breaks + 1
    BY <1>3, <2>3 DEF IInv, HoldersCounted
  <2>. QED
    BY <1>1, <1>3, <2>2, <2>3, <2>4 DEF HoldersCounted
<1>6. ReadBeforeUnlink'
  <2>1. ASSUME NEW q \in Process, run'[q].pc = "unlink"
        PROVE  run'[q].seen < breaks' /\ run'[q].seen \in Nat
    <3>1. q # p /\ run'[q] = run[q] /\ q # "nobody"
      BY <1>2, <2>1, SyncAssumption DEF Becomes, Others
    <3>2. run[q] \in Run /\ run[q].seen \in Nat
      BY Typing DEF IInv, Run
    <3>3. run[q].seen <= breaks /\ (run[q].seen = breaks => lock.pid = q)
      BY <2>1, <3>1 DEF IInv, ReadBeforeUnlink, At
    <3>. QED
      BY <1>1, <1>3, <3>1, <3>2, <3>3
  <2>2. \A q \in Process : run'[q].pc = "unlink" => run'[q].seen < breaks'
    BY <2>1
  <2>. QED
    BY <1>3, <2>1, <2>2 DEF ReadBeforeUnlink, At
<1>7. CreatedSince'
  BY <1>1, <1>2, Typing DEF IInv, CreatedSince, Becomes, Others, At
<1>8. LoadedIsCurrent' /\ WorkLeft'
  BY <1>1, <1>2, <1>3 DEF IInv, LoadedIsCurrent, WorkLeft, Becomes, Others, At
<1>. QED
  BY <1>4, <1>5, <1>6, <1>7, <1>8 DEF IInv

LEMMA TickPreserves ==
  ASSUME IInv, Tick
  PROVE  IInv'
<1>1. /\ clock' = clock + 1 /\ clock < MaxTime /\ clock \in Nat /\ lastFull \in Nat
      /\ UNCHANGED <<lock, lastFull, run, breaks>>
  BY Typing DEF IInv, Tick
<1>2. TypeOK'
  BY <1>1, SyncAssumption DEF IInv, TypeOK
<1>3. HoldersCounted'
  BY <1>1 DEF IInv, HoldersCounted, Holders
<1>4. ReadBeforeUnlink' /\ WorkLeft'
  BY <1>1 DEF IInv, ReadBeforeUnlink, WorkLeft, At
<1>5. CreatedSince' /\ LoadedIsCurrent'
  <2>1. \A p \in Process : run[p].started \in Nat /\ run[p].loaded \in Nat
    BY Typing DEF IInv, Run
  <2>. QED
    BY <1>1, <2>1 DEF IInv, CreatedSince, LoadedIsCurrent, At
<1>. QED
  BY <1>2, <1>3, <1>4, <1>5 DEF IInv

LEMMA StutterPreserves == ASSUME IInv, UNCHANGED vars PROVE IInv'
  BY DEF vars, IInv, TypeOK, HoldersCounted, Holders, ReadBeforeUnlink, CreatedSince,
         LoadedIsCurrent, WorkLeft, At

LEMMA InitIInv == Init => IInv
<1> SUFFICES ASSUME Init PROVE IInv
  OBVIOUS
<1>1. /\ clock = 1 /\ lock = NoLock /\ lastFull = 0 /\ breaks = 0
      /\ run = [p \in Process |-> Idle("start", "none")]
  BY DEF Init
<1>2. Idle("start", "none") \in Run
  BY DEF Idle, Run, Results
<1>3. TypeOK
  BY <1>1, <1>2, SyncAssumption DEF TypeOK
<1>4. Holders = {}
  BY <1>1 DEF Holders, Holding, Idle
<1>5. HoldersCounted
  BY <1>1, <1>4, FS_EmptySet DEF HoldersCounted
<1>6. ReadBeforeUnlink /\ CreatedSince /\ LoadedIsCurrent /\ WorkLeft
  BY <1>1 DEF ReadBeforeUnlink, CreatedSince, LoadedIsCurrent, WorkLeft, At, Idle
<1>. QED
  BY <1>3, <1>5, <1>6 DEF IInv

LEMMA NextIInv == IInv /\ [Next]_vars => IInv'
<1> SUFFICES ASSUME IInv, [Next]_vars PROVE IInv'
  OBVIOUS
<1>1. ASSUME NEW p \in Process, Step(p) \/ Crash(p) PROVE IInv'
  <2>1. CASE Begin(p) \/ DryRun(p) \/ Exists(p) \/ Stat(p)
    BY <2>1, AcquireIsLocal, LocalPreserves DEF IInv
  <2>2. CASE Remove(p)
    BY <2>2, RemovePreserves
  <2>3. CASE Create(p)
    <3>1. CASE MayCreate
      BY <2>3, <3>1, TakePreserves
    <3>2. CASE ~ MayCreate
      <4>1. End(p, "refused") /\ UNCHANGED <<clock, lock, lastFull, breaks>>
        BY <2>3, <3>2 DEF Create
      <4>2. Becomes(p, "ended") /\ run'[p].started = 0
        BY <4>1, EndFacts, Typing DEF IInv, Results
      <4>3. Local(p)
        BY <4>1, <4>2 DEF Local, Becomes, Holding
      <4>. QED
        BY <4>3, LocalPreserves
    <3>. QED
      BY <3>1, <3>2
  <2>4. CASE CreateFails(p)
    BY <2>4, CreateFailsPreserves
  <2>5. CASE \/ StartStage(p) \/ SkipStage(p) \/ SyncSource(p) \/ SourceThrows(p)
             \/ StagesDone(p)
    BY <2>5, StagesAreLocal, LocalPreserves DEF IInv
  <2>6. CASE LoadState(p) \/ SaveFails(p) \/ ReadLock(p) \/ Crash(p)
    BY <2>6, EndIsLocal, LocalPreserves DEF IInv
  <2>7. CASE SaveState(p)
    BY <2>7, SavePreserves
  <2>8. CASE Unlink(p)
    BY <2>8, UnlinkPreserves
  <2>. QED
    BY <1>1, <2>1, <2>2, <2>3, <2>4, <2>5, <2>6, <2>7, <2>8 DEF Step
<1>. QED
  BY <1>1, TickPreserves, StutterPreserves DEF Next

THEOREM Invariance == Spec => []IInv
<1>. QED
  BY InitIInv, NextIInv, PTL DEF Spec

-----------------------------------------------------------------------------
(* What the runs check *)

\* The state has its type: no child is started for a checkout that is not
\* there, and no lock is written but by a command.
THEOREM TypeCorrect == Spec => []TypeOK
  BY Invariance, PTL DEF IInv

\* As long as no lock is found stale one process syncs at a time, and every
\* lock that is broken lets in one more at most (acquireLock).
THEOREM Exclusion == Spec => []OneHolderPerBreak
<1>1. IInv => OneHolderPerBreak
  <2> SUFFICES ASSUME IInv PROVE OneHolderPerBreak
    OBVIOUS
  <2>1. PICK n \in Nat : n = Cardinality(Holders)
    BY HoldersFinite
  <2>2. n <= 1 + breaks
    BY <2>1, Typing DEF IInv, HoldersCounted
  <2>. QED
    BY <2>1, <2>2 DEF OneHolderPerBreak
<1>. QED
  BY <1>1, Invariance, PTL

\* A command that ends removes the lock of another only if its own was taken
\* over between reading the file and removing it (releaseLock).
THEOREM ReleaseIsOwn == Spec => ReleaseKeepsOthersLock
<1> DEFINE A == \A p \in Process : ReleasesOthersLock(p) => run[p].seen < breaks
<1>1. IInv => A
  <2> SUFFICES ASSUME IInv, NEW p \in Process, ReleasesOthersLock(p)
               PROVE  run[p].seen < breaks
    BY DEF A
  <2>1. run[p] \in Run /\ run[p].seen \in Nat /\ breaks \in Nat
    BY Typing DEF IInv, Run
  <2>. QED
    BY <2>1 DEF IInv, ReleasesOthersLock, ReadBeforeUnlink
<1>2. IInv /\ [Next]_vars => [A]_vars
  BY <1>1
<1>. QED
  BY <1>2, Invariance, PTL DEF Spec, ReleaseKeepsOthersLock

\* The time of the last full sync goes back only if a lock was broken, or by a
\* command for which the state file counted as empty (loadState, saveState under
\* the lock).
THEOREM FullSyncKept == Spec => FullSyncRemembered
<1> DEFINE A == lastFull' < lastFull => breaks > 0 \/ \E p \in Process : ForgetsBlindly(p)
<1>1. IInv /\ [Next]_vars => [A]_vars
  <2> SUFFICES ASSUME IInv, Next PROVE A
    OBVIOUS
  <2>1. lastFull \in Nat /\ breaks \in Nat
    BY Typing DEF IInv
  <2>2. CASE UNCHANGED lastFull
    BY <2>1, <2>2
  <2>3. ASSUME NEW p \in Process, SaveState(p) PROVE A
    <3>1. run[p].pc = "save" /\ run'[p].pc = "read" /\ lastFull' = NewFull(p)
      BY <2>3, Typing DEF IInv, SaveState, At, Run
    <3>2. NewFull(p) \in Nat /\ (breaks = 0 => NewFull(p) >= lastFull \/ run[p].found = "nothing")
      BY <2>3, NewFullFacts, SyncAssumption
    <3>. QED
      BY <2>1, <3>1, <3>2 DEF ForgetsBlindly, At
  <2>. QED
    BY <2>2, <2>3
    DEF Next, Tick, Step, Crash, Begin, DryRun, Exists, Stat, Remove, Create, CreateFails,
        StartStage, SkipStage, SyncSource, SourceThrows, StagesDone, LoadState, SaveFails,
        ReadLock, Unlink
<1>. QED
  BY <1>1, Invariance, PTL DEF Spec, FullSyncRemembered

\* A command is refused by what acquireLock finds, and by nothing else.
LEMMA RefusalSteps ==
  ASSUME IInv, NEW p \in Process, NEW q \in Process, Step(q) \/ Crash(q),
         run[p].result # "refused", run'[p].result = "refused"
  PROVE  /\ q = p
         /\ \/ lock # NoLock /\ Fresh
            \/ At(p, "create")
<1>1. /\ run \in [Process -> Run] /\ run[p] \in Run /\ run[q] \in Run
      /\ Result(q) \in Results /\ (Result(q) = "refused" => run[q].result = "refused")
  BY Typing DEF IInv, Result, Run, Results
<1>2. ASSUME NEW result \in Results, End(q, result)
      PROVE  q = p /\ result = "refused"
  BY <1>1, <1>2, EndFacts DEF Becomes, Others
<1>3. ASSUME NEW pc \in PCs, Goto(q, pc)
      PROVE  FALSE
  BY <1>1, <1>3, GotoFacts DEF Becomes, Others
<1>4. CASE DryRun(q) \/ Unlink(q) \/ Crash(q)
  <2>1. PICK result \in {"ok", "died", Result(q)} : End(q, result)
    BY <1>4 DEF DryRun, Unlink, Crash
  <2>. QED
    BY <1>1, <1>2, <2>1 DEF Results
<1>5. CASE Stat(q)
  <2>1. CASE lock # NoLock /\ Fresh
    <3>1. q = p
      BY <1>2, <1>3, <1>5, <2>1 DEF Stat, Results, PCs
    <3>. QED
      BY <2>1, <3>1
  <2>2. CASE ~ (lock # NoLock /\ Fresh)
    <3>1. End(q, "threw") \/ Goto(q, "remove")
      BY <1>5, <2>2 DEF Stat
    <3>. QED
      BY <1>2, <1>3, <3>1 DEF Results, PCs
  <2>. QED
    BY <2>1, <2>2
<1>6. CASE Exists(q) \/ Remove(q)
  <2>1. PICK pc \in {"create", "stat"} : Goto(q, pc)
    BY <1>6 DEF Exists, Remove
  <2>. QED
    BY <1>3, <2>1 DEF PCs
<1>7. CASE Create(q) \/ CreateFails(q)
  <2>1. CASE End(q, "refused")
    BY <1>2, <1>7, <2>1 DEF Create, CreateFails, Results
  <2>2. CASE ~ End(q, "refused")
    <3>1. run' = [run EXCEPT ![q] = [Idle("stage", "none") EXCEPT !.todo = Work[q]]]
      BY <1>7, <2>2 DEF Create, CreateFails
    <3>2. run'[p].result \in {run[p].result, "none"}
      BY <1>1, <3>1 DEF Idle
    <3>. QED
      BY <3>2
  <2>. QED
    BY <2>1, <2>2
<1>8. CASE ReadLock(q)
  <2>1. CASE End(q, Result(q))
    BY <1>1, <1>2, <2>1
  <2>2. CASE run' = [run EXCEPT ![q].pc = "unlink", ![q].seen = breaks]
    BY <1>1, <2>2 DEF Run
  <2>. QED
    BY <1>8, <2>1, <2>2 DEF ReadLock
<1>9. CASE Begin(q)
  BY <1>1, <1>9 DEF Begin, Run
<1>10. CASE StartStage(q)
  <2>1. PICK pc \in {"stage", "work"} :
          run' = [run EXCEPT ![q].pc = pc, ![q].left = Head(run[q].todo),
                             ![q].todo = Rest(q), ![q].timer = clock + ChildTime]
    BY <1>10 DEF StartStage
  <2>. QED
    BY <1>1, <2>1 DEF Run
<1>11. CASE SkipStage(q) \/ StagesDone(q) \/ SaveState(q)
  BY <1>1, <1>11 DEF SkipStage, StagesDone, SaveState, Run
<1>14. CASE LoadState(q)
  BY <1>1, <1>14 DEF LoadState, Run
<1>15. CASE SourceThrows(q)
  BY <1>1, <1>15 DEF SourceThrows, Idle, Run
<1>12. CASE SyncSource(q)
  <2>1. PICK pc \in {"stage", "work"}, result \in {run[q].result, "errors"} :
          run' = [run EXCEPT ![q].pc = pc, ![q].left = @ - 1, ![q].result = result,
                             ![q].timer = clock + ChildTime]
    BY <1>12 DEF SyncSource
  <2>2. run'[p].result \in {run[p].result, "errors"}
    BY <1>1, <2>1 DEF Run
  <2>. QED
    BY <2>2
<1>13. CASE SaveFails(q)
  BY <1>1, <1>13 DEF SaveFails, Run
<1>. QED
  BY <1>4, <1>5, <1>6, <1>7, <1>8, <1>9, <1>10, <1>11, <1>12, <1>13, <1>14,
     <1>15 DEF Step

\* Who says "another sync is running" has seen a lock that was fresh when it was
\* asked to run, or younger, or could not write its own (acquireLock).
THEOREM FreshLockRefuses == Spec => RefusedByFreshLock
<1> DEFINE Refused(p) == run[p].result # "refused" /\ run'[p].result = "refused"
           Fair(p) == IF lock = NoLock THEN At(p, "create")
                      ELSE lock.mtime + StaleAfter >= run[p].started
           A == \A p \in Process : Refused(p) => Fair(p)
<1>1. IInv /\ [Next]_vars => [A]_vars
  <2> SUFFICES ASSUME IInv, Next, NEW p \in Process, Refused(p) PROVE Fair(p)
    BY DEF A
  <2>1. PICK q \in Process : Step(q) \/ Crash(q)
    BY DEF Next, Tick, Refused
  <2>2. /\ run \in [Process -> Run] /\ run[p] \in Run /\ run[q] \in Run
        /\ clock \in Nat /\ run[p].started \in Nat /\ StaleAfter \in Nat
        /\ lock # NoLock => lock.mtime \in Nat
        /\ run[p].started <= clock
        /\ At(p, "create") /\ lock # NoLock => lock.mtime >= run[p].started
    BY Typing, SyncAssumption DEF IInv, Run, CreatedSince
  <2>3. (lock # NoLock /\ Fresh) \/ At(p, "create")
    BY <2>1, RefusalSteps DEF Refused
  <2>. QED
    BY <2>2, <2>3 DEF Fresh, Fair
<1>. QED
  BY <1>1, Invariance, PTL DEF Spec, RefusedByFreshLock
=============================================================================
