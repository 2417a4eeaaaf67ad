----------------------------- MODULE GBrainSync -----------------------------
(***************************************************************************)
(* The command `gtom gbrain-sync`: GStackGBrainSync of                     *)
(* src/core/gstack-gbrain-sync.ts, run by several processes over one lock  *)
(* file and one state file.                                                *)
(*                                                                         *)
(* A run is synchronous code, so within its process nothing interleaves;   *)
(* between processes every call of the file system does.  A process may    *)
(* be slow at any point, and may die.                                      *)
(***************************************************************************)
EXTENDS Integers, Sequences, FiniteSets

CONSTANTS Process,     \* one command each; a process id is not reused
          Work,        \* Work[p]: how many checkouts each stage of p syncs
          Full,        \* the commands given with --full
          StaleAfter,  \* STALE_LOCK_MS
          ChildTime,   \* the timeout of a `gbrain sync` child process
          MaxTime,     \* bound on the clock
          LastStart    \* bound on the time at which a command starts

ASSUME SyncAssumption ==
  /\ IsFiniteSet(Process) /\ "nobody" \notin Process
  /\ \A p \in Process : Work[p] \in Seq(Nat)
  /\ Full \subseteq Process
  /\ StaleAfter \in Nat /\ ChildTime \in Nat
  /\ MaxTime \in Nat \ {0} /\ LastStart \in Nat

VARIABLES clock,      \* the wall clock, also of the file system
          lock,       \* the lock file: who wrote it and when, or NoLock
          lastFull,   \* last_full_sync of the state file, 0 if it has none
          run,        \* the control state of each command
          breaks      \* history: how often a lock was removed, not by its owner

vars == <<clock, lock, lastFull, run, breaks>>

NoLock == [pid |-> "nobody", mtime |-> 0]

Holding == {"stage", "work", "load", "save", "read", "unlink"}

Results == {"none", "ok", "errors", "refused", "threw", "died"}

Run == [pc : {"start", "exists", "stat", "remove", "create", "ended"} \cup Holding,
        result : Results,
        todo : Seq(Nat),     \* the stages to come
        left : Nat,          \* checkouts still to sync in this one
        timer : Nat,         \* when the child process is killed
        loaded : Nat,        \* last_full_sync as it was read
        found : {"state", "nothing"},  \* whether the state file could be used
        started : Nat,       \* when the command was given
        seen : Nat]          \* breaks, when it read the lock to release it

Idle(pc, result) == [pc |-> pc, result |-> result, todo |-> <<>>, left |-> 0,
                     timer |-> 0, loaded |-> 0, found |-> "state", started |-> 0, seen |-> 0]

TypeOK ==
  /\ clock \in 1 .. MaxTime
  /\ lock = NoLock \/ lock \in [pid : Process, mtime : 1 .. MaxTime]
  /\ lastFull \in 0 .. MaxTime
  /\ run \in [Process -> Run]
  /\ breaks \in Nat

Init ==
  /\ clock = 1 /\ lock = NoLock /\ lastFull = 0 /\ breaks = 0
  /\ run = [p \in Process |-> Idle("start", "none")]

\* The live processes that believe they hold the lock.
Holders == {p \in Process : run[p].pc \in Holding}

At(p, pc) == run[p].pc = pc

Goto(p, pc) == run' = [run EXCEPT ![p].pc = pc]

End(p, result) == run' = [run EXCEPT ![p] = Idle("ended", result)]

-----------------------------------------------------------------------------
(* acquireLock, one action per call of the file system *)

Begin(p) ==
  /\ At(p, "start") /\ clock <= LastStart
  /\ run' = [run EXCEPT ![p].pc = "exists", ![p].started = clock]
  /\ UNCHANGED <<clock, lock, lastFull, breaks>>

\* A dry run takes no lock and writes nothing.
DryRun(p) ==
  /\ At(p, "start") /\ clock <= LastStart
  /\ End(p, "ok")
  /\ UNCHANGED <<clock, lock, lastFull, breaks>>

Exists(p) ==
  /\ At(p, "exists")
  /\ Goto(p, IF lock = NoLock THEN "create" ELSE "stat")
  /\ UNCHANGED <<clock, lock, lastFull, breaks>>

\* Faulty variant: the age is not looked at.
AnyAge == lock # NoLock

Fresh == clock - lock.mtime <= StaleAfter

\* The file may be gone by now: then statSync throws, out of run.
Stat(p) ==
  /\ At(p, "stat")
  /\ \/ lock = NoLock /\ End(p, "threw")
     \/ lock # NoLock /\ Fresh /\ End(p, "refused")
     \/ lock # NoLock /\ ~ Fresh /\ Goto(p, "remove")
  /\ UNCHANGED <<clock, lock, lastFull, breaks>>

\* rmSync with force removes whatever lock is there now, or none.
Remove(p) ==
  /\ At(p, "remove")
  /\ lock' = NoLock
  /\ breaks' = breaks + 1
  /\ Goto(p, "create")
  /\ UNCHANGED <<clock, lastFull>>

\* Faulty variant: the file is opened without the flag 'wx'.
AlwaysCreates == TRUE

MayCreate == lock = NoLock

Create(p) ==
  /\ At(p, "create")
  /\ IF MayCreate
       THEN /\ lock' = [pid |-> p, mtime |-> clock]
            /\ run' = [run EXCEPT ![p] = [Idle("stage", "none") EXCEPT !.todo = Work[p]]]
       ELSE End(p, "refused") /\ UNCHANGED lock
  /\ UNCHANGED <<clock, lastFull, breaks>>

\* The disk is full: the file may be there, but the lock is not taken.
CreateFails(p) ==
  /\ At(p, "create") /\ lock = NoLock
  /\ lock' \in {NoLock, [pid |-> p, mtime |-> clock]}
  /\ End(p, "refused")
  /\ UNCHANGED <<clock, lastFull, breaks>>

-----------------------------------------------------------------------------
(* The stages *)

NextStage(p) == run[p].todo # <<>> /\ At(p, "stage")

\* Faulty variant: the loop does not advance.
SameStages(p) == run[p].todo

Rest(p) == Tail(run[p].todo)

StartStage(p) ==
  /\ NextStage(p)
  /\ run' = [run EXCEPT ![p].pc = IF Head(run[p].todo) = 0 THEN "stage" ELSE "work",
                        ![p].left = Head(run[p].todo), ![p].todo = Rest(p),
                        ![p].timer = clock + ChildTime]
  /\ UNCHANGED <<clock, lock, lastFull, breaks>>

\* gbrain is not in the PATH, or there is no repository: the stage is skipped,
\* which is no error.
SkipStage(p) ==
  /\ NextStage(p)
  /\ run' = [run EXCEPT ![p].todo = Rest(p)]
  /\ UNCHANGED <<clock, lock, lastFull, breaks>>

\* One checkout is registered, attached and synced, or it is missing, or one of
\* these commands fails or is killed by its timeout; then the next one.
SyncSource(p) ==
  /\ At(p, "work")
  /\ \E result \in {run[p].result, "errors"} :
       run' = [run EXCEPT ![p].pc = IF run[p].left = 1 THEN "stage" ELSE "work",
                          ![p].left = @ - 1, ![p].result = result,
                          ![p].timer = clock + ChildTime]
  /\ UNCHANGED <<clock, lock, lastFull, breaks>>

\* The file that attaches the checkout cannot be written: run throws, after
\* its finally.
SourceThrows(p) ==
  /\ At(p, "work")
  /\ run' = [run EXCEPT ![p] = Idle("read", "threw")]
  /\ UNCHANGED <<clock, lock, lastFull, breaks>>

StagesDone(p) ==
  /\ At(p, "stage") /\ run[p].todo = <<>>
  /\ run' = [run EXCEPT ![p].pc = "load", ![p].timer = 0]
  /\ UNCHANGED <<clock, lock, lastFull, breaks>>

-----------------------------------------------------------------------------
(* loadState, saveState *)

\* A state file that cannot be read or parsed, or is of another version, counts
\* as an empty one.
LoadState(p) ==
  /\ At(p, "load")
  /\ \E found \in {"state", "nothing"} :
       run' = [run EXCEPT ![p].pc = "save", ![p].found = found,
                          ![p].loaded = IF found = "state" THEN lastFull ELSE 0]
  /\ UNCHANGED <<clock, lock, lastFull, breaks>>

\* Faulty variant: an incremental run starts from an empty state.
ForgetsFull(p) == IF p \in Full THEN clock ELSE 0

\* A full run notes its time, whether its stages failed or not.
NewFull(p) == IF p \in Full THEN clock ELSE run[p].loaded

\* The rename replaces the file as a whole.
SaveState(p) ==
  /\ At(p, "save")
  /\ lastFull' = NewFull(p)
  /\ run' = [run EXCEPT ![p].pc = "read", ![p].loaded = 0, ![p].found = "state"]
  /\ UNCHANGED <<clock, lock, breaks>>

\* The disk is full: run throws, after its finally.
SaveFails(p) ==
  /\ At(p, "save")
  /\ run' = [run EXCEPT ![p].pc = "read", ![p].result = "threw", ![p].loaded = 0,
                        ![p].found = "state"]
  /\ UNCHANGED <<clock, lock, lastFull, breaks>>

-----------------------------------------------------------------------------
(* releaseLock, and the exit code *)

\* Faulty variant: whoever ends removes the file.
AnyLock(p) == lock # NoLock

OwnLock(p) == lock.pid = p

Result(p) == IF run[p].result = "none" THEN "ok" ELSE run[p].result

\* The lock is read; a file that is gone or names another is left alone.
ReadLock(p) ==
  /\ At(p, "read")
  /\ IF OwnLock(p)
       THEN run' = [run EXCEPT ![p].pc = "unlink", ![p].seen = breaks]
       ELSE End(p, Result(p))
  /\ UNCHANGED <<clock, lock, lastFull, breaks>>

\* What is removed is the file of that name, whoever wrote it.
Unlink(p) ==
  /\ At(p, "unlink")
  /\ lock' = NoLock
  /\ breaks' = IF lock.pid \in {p, "nobody"} THEN breaks ELSE breaks + 1
  /\ End(p, Result(p))
  /\ UNCHANGED <<clock, lastFull>>

-----------------------------------------------------------------------------

Step(p) ==
  \/ Begin(p) \/ DryRun(p) \/ Exists(p) \/ Stat(p) \/ Remove(p) \/ Create(p)
  \/ CreateFails(p)
  \/ StartStage(p) \/ SkipStage(p) \/ SyncSource(p) \/ SourceThrows(p) \/ StagesDone(p)
  \/ LoadState(p) \/ SaveState(p) \/ SaveFails(p) \/ ReadLock(p) \/ Unlink(p)

\* The process is killed; its lock stays.
Crash(p) ==
  /\ run[p].pc \notin {"start", "ended"}
  /\ End(p, "died")
  /\ UNCHANGED <<clock, lock, lastFull, breaks>>

Tick ==
  /\ clock < MaxTime
  /\ \A p \in Process : At(p, "work") => clock < run[p].timer
  /\ clock' = clock + 1
  /\ UNCHANGED <<lock, lastFull, run, breaks>>

Next == Tick \/ \E p \in Process : Step(p) \/ Crash(p)

Spec == Init /\ [][Next]_vars

\* A started command goes on: spawnSync returns, at the latest on its timeout.
FairSpec == Spec /\ \A p \in Process : WF_vars(Step(p) /\ ~ At(p, "start"))

-----------------------------------------------------------------------------
(* Properties *)

\* Every lock that is broken lets in at most one process more: as long as none
\* is found stale, and whoever dies, one process at a time syncs.
OneHolderPerBreak == Cardinality(Holders) <= 1 + breaks

\* A run that ends leaves the lock of another process alone, also when its own
\* was taken over long ago; unless it loses its lock between reading the file
\* and removing it.
ReleasesOthersLock(p) ==
  At(p, "unlink") /\ run'[p].pc = "ended" /\ lock' # lock /\ lock.pid # p

ReleaseKeepsOthersLock ==
  [][\A p \in Process : ReleasesOthersLock(p) => run[p].seen < breaks]_vars

\* A lock blocks others for the stale time only: a command is refused because
\* of a lock that was fresh when the command was given, or was made since, or
\* because it cannot write its own.
RefusedByFreshLock ==
  [][\A p \in Process :
       run[p].result # "refused" /\ run'[p].result = "refused" =>
         IF lock = NoLock THEN At(p, "create")
         ELSE lock.mtime + StaleAfter >= run[p].started]_vars

\* The time of the last full sync goes back in the state file only if a lock was
\* broken, or by a command that could make nothing of the file when it loaded
\* it: nobody saves what he loaded before another's save.
ForgetsBlindly(p) ==
  At(p, "save") /\ run[p].found = "nothing" /\ run'[p].pc = "read"

FullSyncRemembered ==
  [][lastFull' < lastFull => breaks > 0 \/ \E p \in Process : ForgetsBlindly(p)]_vars

\* Every command ends, whatever the others do and wherever they die.
RunsEnd == \A p \in Process : ~ At(p, "start") ~> At(p, "ended")
=============================================================================
