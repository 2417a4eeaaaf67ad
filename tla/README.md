# GToM in TLA+

A specification of the core of GToM: the parts of `src/` in which several
operations, retries, processes or crashes meet. The modules are translated from
the code; this file says which module stands for which code, what TLC checks on
small instances, what TLAPS proves for all of them, and what is left out.

Paths are those of the repository (`src/core/...`); `PROJECT.json` names them
with one more `src/` in front, and maps every definition to its lines.

## 1. The system

GToM is a TypeScript library with a CLI, an HTTP server and an MCP server
around it. The object in the middle is `GToM` (`src/core/gtom.ts`). Each of its
operations takes a slot, asks GBrain for context, scores or predicts something
(sometimes with an LLM that costs money), and appends a receipt.

| component | state | operations | talks to |
|---|---|---|---|
| Budget ledger, `core/budget-ledger.ts` | reservations; spend; daily and weekly JSONL files | reserve, commit, release, recordUnreservedSpend, cleanupExpired, readers, reload on start | files |
| LLM client, `core/llm-client.ts` | counters; one call's attempt and tier | call, callWithTier, retryWithBackoff | ledger, providers |
| Backpressure, `core/performance.ts` | active count; queue of waiters; tokens | acquire, release, cancel | every operation of `gtom.ts` |
| GBrain client, `core/gbrain-client.ts` | circuit state, failure count, time of opening | run, requestJson, getCircuitState | GBrain over HTTP or MCP |
| Receipt registry, `core/receipt-registry.ts` | weekly and archive files, promise queue, file lock, Postgres mirror | append, archiveOldReceipts, appendDurable, readers, migrate, compare | files, lock, Postgres |
| Context cache, `core/performance.ts`, `gtom.ts` 689-720 | LRU entries with expiry | get, set, loadGBrainContext | GBrain client |
| HTTP server, `server.ts`, `serve.ts` | requests in flight, draining flag, rate windows | handleRequest, shutdown, stop | GToM |
| MCP server, `mcp/server.ts` | rate windows, tool scopes | tool handler | GToM |
| Rate limits and scopes, `core/security.ts` | a window per identity | check, authorize | servers |
| GBrain sync, `core/gstack-gbrain-sync.ts` | lock file, state file | run and its stages | `gbrain` child processes |
| Engines and migrations, `core/*-engine.ts`, `core/migrate.ts` | tables, migration ledger | connect, migrate, query | SQLite, Postgres |
| Vulnerability manager, `core/vulnerability*.ts` | vulnerabilities, cognitive state, influence ledger | processObservation, persistence | files |
| Authenticity, drift, secrets, backups | scores, windows, keys, archives | score, detect, rotate, restore | LLM client, files |

All code runs on one thread per process: interleaving happens at `await`, at
timers, and between processes that share files. So each action of the modules
is the code between two awaits.

What is hard, and what makes each part correct:

* **Ledger**: reservations expire only when somebody looks, appends to the
  files can throw half-way, a restart rebuilds the spend from the files. The
  money must still add up, reservations end once, and what was asserted, of the
  caps as of the ceiling, must hold.
* **LLM client**: answers come after retries, timeouts or a crash. What the
  caller got is charged; what is in flight is held; everything ends.
* **Backpressure**: a token may be cancelled while its operation waits, after
  it was granted a slot and before it runs, or while it runs. Slots are
  counted exactly, nobody overtakes the queue or is forgotten in it.
* **GBrain client**: overlapping requests read the circuit when they start and
  write it when they end. It must still follow the outcomes, refuse only for a
  recent reason and recover.
* **Receipts**: several processes append to, archive and rewrite one file,
  reading it before they lock it, under a lock that goes by its age. What is
  lost then must be exactly what these explain; one process alone must lose
  nothing while its writes succeed.
* **HTTP server**: requests go on across awaits while a shutdown drains, and
  end by an event that may never come. Handlers must run once, not under an
  operation before the deadline, and to the end. The limiters must refuse
  nobody early, let nobody through twice over, and stay small.
* **Sync**: several commands share a lock file that is taken over when it is
  stale, although its owner may still work, and a state file that is read,
  changed and written back. Every holder too many must be explained by a
  broken lock, everything forgotten by that or by a file that cannot be used,
  and no lock may block for ever.
* **Migrations**: two statements per version, on connections that fail, between
  processes, with the version perhaps read from a replica that lags. The table
  of migrations must tell what the schema is.

`PROJECT.json` lists these hazards at their lines, each with the properties
that would catch it.

## 2. The modules

| module | models | extends or instantiates |
|---|---|---|
| `BudgetAccount` | what the ledger promises: money held, spent, overrun | |
| `BudgetLedger` | `BudgetLedger` | shown to implement `BudgetAccount` |
| `LLMClient` | `LLMClient.call`, `callWithTier`, `retryWithBackoff` | extends `BudgetLedger` |
| `FifoSemaphore` | what the controller promises | |
| `Backpressure` | `BackpressureController`, `CancellationToken`, the frame of GToM's operations | shown to implement `FifoSemaphore` |
| `GBrainClient` | the circuit breaker and the retried request | |
| `ReceiptRegistry` | append, archive and mirror between processes | |
| `RateLimiter` | `FixedWindowRateLimiter`, as operators | |
| `HttpServer` | `GToMServer`: admission, draining, shutdown | instantiates `RateLimiter` twice |
| `Serve` | the process of `serve.ts` with its own signal handler | extends `HttpServer` |
| `GBrainSync` | `GStackGBrainSync.run` between processes | |
| `Migrator` | `Migrator` on `PostgreSQLEngine` between processes | |
| `*Proofs` | theorems about the module of that name | extends it and TLAPS |
| `MC*` | constants for TLC | extends it and TLC |

### BudgetLedger

`reservations` is the map of that name, with the status `none` for an id that
has not been issued and `forgotten` for one of a process that is gone.
`charges` is a history of the calls of `recordSpend`; `memory` and `daily` say
which of them are in `this.spend` and in the daily files. Every method is
synchronous, so it is one action: `Reserve`, `Commit`, `Release`,
`RecordUnreservedSpend`, `CleanupExpired` (every reader calls it), each with
its refusals, `Tick` for the clock and `Restart` for a new process. A commit
whose daily append throws is `Commit` with `onDisk = FALSE`: the reservation is
committed and the charge is in memory, as in the code, where the status is set
and the entry pushed before the write. `commit` asserts the caps of the
reservation's resolver and scope, and records the spend under those of its
caller, which may override them. So `Commit` has a label of its own, a charge
keeps both (`asserted` is a history), and `CapsHold` bounds the spend whose cap
was asserted (`AssertedBy`): with an override the cap of the label that the
charge lands on can be exceeded. The one caller in `src/` is the LLM client,
which names those of its reservation.
`recordUnreservedSpend` lets its caller name a reservation in the entry, which
nothing reads; the `id` of a charge is the reservation that it committed.

### LLMClient

A task is one `callWithTier`. `StartCall` is the code of `call` up to the
request, `Answer` what follows the answer, `AttemptFails` a failed attempt with
the retry loop's decision, `Retry` the end of a sleep. Any error, also one of
`commit`, escalates to the next tier (`Fail`). Many tasks share the ledger, and
`LRestart` takes the tasks of the old process away. One tick is the timeout of
an attempt. The SDKs retry on their own as well, which makes an attempt longer
than that and reservations expire sooner; the model takes the shortest. The
client commits under the labels of its reservation, so that through it all the
spend stays within the caps.

### Backpressure

`pc` is where an operation is: `waiting` (in the queue), `granted` (the promise
is resolved, the caller has not run yet), `working`, `ended`. `Release` hands
the slot over in the same step, as the code does. `Cancel` is
`CancellationToken.cancel` with the listener that leaves the queue. `Abort` is
`throwIfCancelled` after the grant, with the `finally` that releases.

### GBrainClient

`circuit` is the three fields of the breaker, `outcomes` a history of the
requests that ended. `Admit` and `Refuse` are `allowRequest`, `Succeed` and
`GiveUp` are `recordSuccess` and `recordFailure`; `Fail` is one attempt with
the retry decision, which never asks the breaker. `Backoff` is a constant
function, so that the proofs need no powers.

### ReceiptRegistry

`queue` is the promise chain of a process, its head the append in progress.
`Read` is the part of `archiveOldReceipts` before the lock and `snap` what it
remembers; `Lock`, `Archive`, `Truncate`, `Rewrite`, `Unlock`, `AppendLine` and
`Mirror` follow in the code's order. `writeFile` truncates first, which is why
the rewrite is two steps.

`DiskFails` and `Crash` may leave a part of what was being written (`Parts`):
some whole lines, and perhaps the next without its newline, or only the
beginning of that one. `cut` says which files end without a newline. The last
line of such a file may still be a receipt, until what is written next is
joined to it and both are lost (`WithLines`, `Garbled`); with an incomplete one
only the newcomer is. A file with a garbled line cannot be read for archiving
(`Readable`), and a line that does not verify behaves as one. `Age` is time
passing over the archive limit.

The lock goes by its age, which is how proper-lockfile works: `TakeStaleLock`
takes that of a dead process, and under the fault "stall" also that of a live
one that was suspended or blocked for longer than the stale time. Such a process
writes on (`taken` is the history of it): two may be at work, a rewrite
may write over what another has appended since the file was truncated and leave
the end of it (`Rests`, `WriteOverLive`), `Unlock` may remove the lock of
another, and the process may die of the exception by which proper-lockfile tells
it (`Crash`). A live holder is thus no obstacle for good, and who waits
for it may also give up (`LockRejected`).

Three calls are left out. `archiveOldReceipts` is public and may run outside of
the queue, which only a test does (`test/receipt-registry.test.ts`); a caller
that repeats a rejected append makes a second line of its own doing; and the
readers change nothing.

### GBrainSync

`lock` is the lock file with its writer and its time, `lastFull` the field of
the state file that a lost update would damage, `run` the control state of each
command. A command is synchronous code, but every call of the file system is an
action, because other processes run in between: `Exists`, `Stat`, `Remove`,
`Create` are `acquireLock`, `ReadLock` and `Unlink` are `releaseLock`,
`LoadState` and `SaveState` the update of the state. `SyncSource` is the loop
over the checkouts, one child process that ends by itself or by its timeout,
`SourceThrows` the file that it cannot write into a checkout, whose exception
leaves the stage and the state file as it was;
`StartStage` and `SkipStage` are the two stages. `breaks` is a history: how
often a lock was removed by somebody who did not own it. `LoadState` may find
the state file or nothing: one that cannot be read or parsed, or is of another
version, counts as empty, and what is saved afterwards has forgotten the last
full sync (`ForgetsBlindly`), which `FullSyncRemembered` names as an exception.
`CreateFails` is the full disk that leaves an owned but unclaimed file, `Crash`
the command killed.

### RateLimiter, HttpServer, Serve

`RateLimiter` is `check` as a function from the map of windows to a decision and
the next map; the map is the sequence of its entries, because eviction goes by
the order of insertion. The history `forgotten` holds the clients that lost a
window, of the minute or of the hour, while it was running: the limiter makes
room for others, and it drops an entry whose hour is over although its minute,
which began later, is not. `HttpServer` has one instance for clients and one for
tenants. `handleRequest` runs to its first await in one go, so every way through
it up to there is one action: `Options`, `Draining`, `ClientRefused`,
`BadTenant`, `TenantRefused`, `AnsweredAtOnce`, `Operation`. `Answer` is the end
of an operation and `Finish` the event that counts it off, which may never come:
not when the client hangs up, and not when a stream fails after its headers were
sent, for then the error answer throws. `Shutdown` is the
call, `Drained` the end of its loop, `StartHandler` and `EndHandler` the loop
over the handlers, `Stop` the last line. `Serve` adds the process: `Signal` lets
both signal handlers run, `Exit` is the end of the one in `serve.ts`. Routes,
bodies, headers and scopes are left out: a request is answered at once or it is
an operation.

### Migrator

`db` is what is committed: whether the table exists, which migrations the schema
shows (`applied`), which the table names (`recorded`). `tx` is what the open
transaction of each command has done. `CreateTable`, `ReadVersion`,
`BeginTransaction`, `ChangeSchema`, `ChangeRow`, `Commit` are the statements of
`run` and of `rollback`; `Fail` and `CommitUnanswered` are errors of a statement,
`Rollback` the catch. Like the migrations in the repository, those of the model
say `IF [NOT] EXISTS`. PostgreSQL itself is external: a change of what another
open transaction has changed waits for it (`Rivals`), except that a DELETE does not
see a row that is only inserted there (`MayChangeRow`), a dead process loses its
transaction, `Replicate` brings the replica up to date at any time. `mixed` and
`stale` are histories that name the two situations in which the code promises
less: a rollback beside another command, and a version read late. A ROLLBACK
that fails itself is `Rollback` too: the server ends the transaction with the
connection. The engine's `client` then stays inside its transaction, but each
command has an engine of its own and ends there.

## 3. What TLC checks

| run | instance | shows |
|---|---|---|
| `budget_ledger` | two reservations, two resolvers in one scope, a cap by name and a cap by `*`, costs 1 and 2, budget 3, two charges under any labels, time to live 1, clock to 2 | `ChargedOnce`, `CapsHold`, `UniqueChargesSurvive`, `BudgetRespected`, `EndsAreFinal`, `ImplementsAccount` |
| `ledger_reload` | the same | fails: see section 6 |
| `llm_calls` | two tasks, two tiers, two attempts each, two reservations, clock to 4 | `AnsweredIsCharged`, `InFlightIsHeld`, `NeverOverReports`, and that calls and holds end |
| `llm_tracked` | two tasks, no caps, no crash | fails: see section 6 |
| `backpressure` | four callers, two slots, two places | `SlotsCounted`, `NoIdleSlot`, `ImplementsSemaphore`, `WaitersServed` |
| `gbrain_circuit` | three requests, a retry each, threshold 2, reset time 2, three outcomes, clock to 7 | `TripsOnRun`, `OpenSinceLastFailure`, `RefusalsAreRecent`, `RequestsEnd`, `TriedAgain` |
| `receipts_one_process` | one process, four appends, a failing mirror | `NothingLost`, `ExactlyOnce`, `CallOrder` |
| `receipts_shared` | two processes with two appends each, which crash, run out of disk and stand still | `VanishesOnlyInRewrite`, `AppendsEnd` |
| `sync_lock` | three commands: two with a checkout, one of them full, and one without stages; state files that cannot be used; stale after 1, child timeout 2, clock to 3 | `OneHolderPerBreak`, `ReleaseKeepsOthersLock`, `RefusedByFreshLock`, `FullSyncRemembered`, `RunsEnd` |
| `http_server` | three requests, two clients and a tenant, limits 1 and 2 (tenant 2 and 3), one entry, minute 2, hour 3, two calls of shutdown, two handlers, clock to 3 | `HandlersAfterOperations`, `HandlersRunOnce`, `RateBound`, `WindowsBounded`, `RefusalsAreEarned`, `ShutdownEnds` |
| `serve_drain` | the same with minute 1, hour 2, clock to 2 | fails: see section 6 |
| `migrations` | two runs and one rollback of everything, two migrations, a replica | `LedgerTellsSchema`, `NoGaps`, `RunMigrates`, `RunsEnd` |

Why the bounds suffice. Two reservations are enough for one to expire while the
other is committed, and two charges for two equal ones and for a cap that the
second exhausts. Costs 1 and 2 under a budget of 3 make estimates that are too
low, too high and refused. Two attempts reach the retry's end and two tiers
the escalation; the time to live of two ticks against attempts and delays of
one keeps the ratio of the code (90 s against four attempts of 30 s), so a
reservation can expire under its call. Four callers on two slots and two places
fill the queue; a fifth would only be refused. A threshold of two with three
overlapping requests lets late successes and failures meet an open and a
half-open circuit. Four queued appends are needed for a wrong order, two
processes for every race on the file. Three commands let one break the lock
that a second broke and a third took; a stale time of one against a child of two
keeps the ratio of the code, in which a run may outlive its lock. Three requests
against limits of one and two meet every boundary of a window, and with one
entry per limiter the second client evicts the first; an hour that is no
multiple of the minute lets a minute outlast it. Two migrations are needed
for a gap, and two runs with a rollback for every pair of commands. Named bounds: `MaxTime`, `MaxCharges`,
`LastStart` (no new call after it, so that calls can end before the clock
does), `MaxOutcomes`, `MaxCalls`, `MaxRequests`, `LastSignal` (no shutdown after it, so
that its deadline is within the clock). The receipt, sync, server and migration
runs stop when everything was done, and say `CHECK_DEADLOCK FALSE`.

The type invariants `TypeOK` are not among the properties of the runs: all of
them are proved (section 4).

Fairness. `LLMClient`: time passes, the SDK's timeout fails an attempt that got
no answer, a timer ends a sleep; an answer is never promised. `GBrainClient`:
the same, with `AbortSignal.timeout`. `Backpressure`: a resolved promise lets
its caller run and every piece of work ends, because its GBrain and LLM calls
do (in mcp mode, where a call has no timeout, this is an assumption). New
operations and cancellations are not promised. `ReceiptRegistry`: awaits of a
live process return; crashes and disk errors are not promised, and a stale lock
need not be taken away for an append to end, since five failed retries reject.
`GBrainSync`: a started command goes on, since `spawnSync` returns at the latest
on its timeout and nothing waits for the lock. `HttpServer`: time passes, the
timer of the drain loop fires, and shutdown handlers return (the code gives them
no limit, so this is an assumption); neither the end of an operation nor that of
an answer is promised. `Migrator`: a statement that waits for no other
transaction is answered; replication, errors and crashes are not promised.
No run with a temporal property uses symmetry.

Every property of a passing run has a mutant in `PROJECT.json`: a plausible bug
in a definition that models code, under which TLC finds it violated. The
variants stand beside the definitions, as "Faulty variant".

## 4. What TLAPS proves

For every value of the constants under the assumptions that the modules name
(`LedgerAssumption`, `ClientAssumption`, `BackpressureAssumption`, `GBrainAssumption`,
`SyncAssumption`, `ServerAssumption`, `MigratorAssumption`, `ReceiptAssumption`):

* **The ledger** (`BudgetLedgerProofs`). `TypeCorrect`, then `Accounting`:
  `ChargedOnce` is inductive together with the type invariant. It says nothing of
  the label, which is the caller's to choose. A charge is only
  made from `reserved`, and its second conjunct (whoever has a charge is
  committed or forgotten) is what excludes a second one; the history only grows
  (`SameHistory`), so old charges keep their reservation. `Finality` splits
  the step on its action: only `AfterCleanup` expires, and only what is past
  its time. `Survival` and `Capped` (of the spend whose cap was asserted) rest on `LoadedIsCounted` (what a restart
  would read back is in memory now), so that a restart brings nothing that was
  not counted, and no sum grows by it.
* **Sums.** Spend and holds are sums over finite sets, which the community
  modules define by recursion. The first part of `BudgetLedgerProofs` proves
  what is needed of them (`SumStep`, `SumRemove`, `SumMonotone`) from their
  definition; induction over the set is stated as the absence of a smallest
  counterexample, with `WFMin` of the library (`Smallest`).
* **The ledger implements the account** (`Implementation`). Every step maps to
  one of `BudgetAccount` or to a stutter: a reservation is `Hold`, a commit
  settles what was held for it together with what expired on the way, a restart
  reopens without inventing money. `FinitelyLive` makes the sum of the holds
  defined, also when there are infinitely many ids. `AccountWithinBudget` is
  about the account alone; `WithinBudget` (the ledger's `BudgetRespected`) is
  what the ledger inherits of it.
* **The client over the ledger** (`LLMClientProofs`). `UsesTheLedger`: every
  step of the client is one of the ledger or leaves it alone, so what is proved
  of the ledger also holds for calls that retry, escalate and outlive their
  reservation (`CallsAreAccounted`, `CallsAreWithinBudget`). The latter says more of the caps
  than the ledger can: the client moves no charge to another label (`Unmoved`),
  so all the spend is within them (`AllCapsHold`). The inductive
  invariant `Owned` gives every reservation at most one task, which keeps it,
  with its own label, until it ends. A task ends or lapses only its own
  reservation (`Kept` for the others), which gives `HeldWhileInFlight`; that the
  commit comes before the return, and the daily file only grows, gives
  `ChargedBeforeReturn`. `ReportsAreBacked` compares the client's own counter
  with a sum of the ledger: it grows by a cost that `commit` has just charged,
  and a new client starts it at the spend that the ledger has loaded.
  `ClientTypeCorrect` bounds the attempts of a call by its retries and its tier
  by the last.
* **Backpressure** (`BackpressureProofs`). The inductive invariant `IInv` is
  the type invariant with `SlotsCounted` and `NoIdleSlot`: without the exact
  count a release could hide behind `Math.max`, without `NoIdleSlot` an arriving
  caller could take a slot while others wait. From it follow `ExactCount`,
  `NoSlotIdle` and `Refinement`, which maps every action to one of
  `FifoSemaphore` or to a stutter.
* **GBrain** (`GBrainClientProofs`). `IInv` is `TripsOnRun` with
  `OpenSinceLastFailure`, the type invariant, and the fact that a request that
  sleeps has an attempt left. It gives `FollowsOutcomes`, `WaitsFromLastFailure` (which is
  `OpenSinceLastFailure`) and, since an open circuit counts from a failure,
  `RefusesOnlyRecently`.
* **The sync** (`GBrainSyncProofs`). `TypeCorrect` first. `Exclusion` needs a
  count (`HoldersCounted`): the processes under the lock are no more than the
  breaks, and one if the lock file is there. A holder is made by `Create` alone,
  which finds no file and leaves one; the file goes by a break, or by a release
  that ends a holder. `ReadBeforeUnlink` says that who is about to remove the
  file still owns it unless it was broken since, which is what a release needs
  for the count and what gives `ReleaseIsOwn`. `LoadedIsCurrent` (what was read,
  if anything was, is what the file still says, while nothing was broken) gives
  `FullSyncKept`,
  and `CreatedSince` (a lock in the way of who is about to create one was made
  after it looked) gives `FreshLockRefuses`.
* **The shutdown** (`HttpServerProofs`). `IInv` joins the exact count
  (`ActiveCounts`: `activeRequests` is the number of answers not yet out) with
  `OneShutdown` (one call is busy, and the door is closed for operations) and
  with the handlers that ran so far. Without the count `active = 0` would say
  nothing of the operations; without the closed door one could start after it
  was read. `NothingClosedUnderOperation` and `EachHandlerOnce` follow. What the
  limiters decide does not matter, so nothing is assumed about it.
  `ServeShutsDownInOrder` is about the process of `serve.ts`: until it exits,
  which it may do early (section 6), both promises hold, and
  `HandlersAfterOperations` in every state.
* **The limiters** (`HttpServerProofs`). `LimitInv` relates the map of windows
  to the history of the requests. A window that began at `s` and has counted `k`
  says of its client (`Fits`): no more than `k` passed since `s`, and no more than
  `k` and the limit together since a window's length before `s`. It follows that
  two windows cover any span of a window's length, which is `RateIsBounded`. At
  least `k` passed since `s` (`Earned`), which gives `NoEarlyRefusal`. A
  window that has run out may be dropped, for a new one says the same of its
  client; a window that is dropped while it runs is the exception that
  `forgotten` records, and it concerns the upper bound alone. `ChosenEntries`
  and `RoomForOne` tell what filtering and eviction leave of the map, and so
  `MapsStaySmall`. `Bounds` and the types of the entries give `TypeCorrect`.
* **The migrations** (`MigratorProofs`). `LedgerIsTrue`: outside of mixed
  commands, a run that has changed the schema works on a version that is not
  recorded (`RunAgrees`), because of two open transactions about one version
  only one changed the schema (`OneChanger`); so schema and table change
  together, in the commit. The theorem needs nothing about the versions that
  were read, and so covers every lag of the replica. `RecordedIsPrefix` and
  `RunsMigrateAll` do need it: `Sequenced` says that `1 .. m` are recorded for
  some `m`, and that every run has from some recorded version up to the last one
  to go, every rollback from `m` down. `TypeCorrect` covers the stale readers
  as well.
* **The receipts** (`ReceiptRegistryProofs`). `LinesAt`, which filters a file,
  is first shown to keep the lines at the given places, each once and in order.
  `TypeCorrect` includes the lock: until one is taken from a process at work, who
  writes holds it, so one process at a time is at work on the files
  (`OneWriter`). `NoOtherLoss` covers all faults, that one too. It needs that the
  archive has for good what the rewrite will leave out, but perhaps its first
  line (`VInv`: not as the last line of a file that was cut, which the next write
  would join), and that a file under rewrite is empty until a lock was taken.
  `OrderOfCalls` follows the receipts from the queue to the file (`OInv`): what is
  in a file, or in the memory of a process that archives, precedes what its caller
  has yet to write; filtering, cutting off and garbling keep the order. It
  assumes that no lock is taken from a process at work: one that writes over
  what others appended may put an earlier receipt behind a later one. Both hold
  for any number of processes. `NothingIsLost` and
  `NothingIsTwice` assume `OneProcess`: one process, in which every write comes
  back and only the mirror may fail. The assumption is needed: two processes
  read the file before they take the lock, and lose or double receipts once
  something is archived; what they lose, in the ways that `VanishesOnlyInRewrite`
  names. What
  several processes keep without archiving is `SharedUntilArchived`: while no
  receipt is old enough, nothing is lost or doubled, for any number of them.

So every safety invariant, action property and refinement of a passing run is
proved, with the type invariant of every module. Only model-checked are the
properties under fairness, which are out of the prover's reach: `CallsEnd`,
`HoldsEnd`, `WaitersServed`, `RequestsEnd`, `TriedAgain`, `AppendsEnd`,
`ShutdownEnds` and both `RunsEnd`. The proofs do not show that the hypotheses of
the theorems can be met; the runs do, which are instances of them.

## 5. Plan

Done: the ledger, its account, the LLM client over it, backpressure, the GBrain
circuit, the append of receipts, the sync, the HTTP server with its limiters and
its process, the migrations. What would come next, most important first:

1. `ContextCache` over `GBrainClient`: LRU with expiry, and the degraded
   context that is cached after GBrain is back.
2. Several tasks on one `PostgreSQLEngine`, whose `this.client` they share.
3. `AuditDir`: several ledgers over one audit directory.
4. The MCP server with its limiter and the mcp mode of the GBrain client.

Proofs still to be written: those of the modules above; and for
`ReceiptRegistry`, how much several processes can lose at most when they archive.

## 6. What disagrees with the documentation

* `ledger_reload`: `loadSpend` identifies an entry by timestamp, model,
  operation and cost, so two equal charges of one millisecond are one after a
  restart, and a budget that was spent is open again. A test
  (`test/budget-ledger.test.ts`, "loads persisted daily spend on process
  restart") promises the spend back. `UniqueChargesSurvive` is what holds.
* `llm_tracked`: a reservation lives 90 s, a call with its retries can take
  longer. The answer is then refused by `commit` and thrown away, and what the
  provider bills for it is in no ledger, while `docs/ARCHITECTURE.md` says that
  the ledger tracks spend. `AnsweredIsCharged` is what holds.
* `serve_drain`: `serve.ts` installs a signal handler of its own, under the
  comment "Graceful shutdown", that waits for the health server only and then
  exits the process. `GToMServer.shutdown`, "Graceful shutdown." too, may still
  be waiting for an operation: it is cut off, and the shutdown handlers may not
  have run. `HandlersAfterOperations` is what holds of the server alone, in a
  process that leaves the signals to it.

Met while modelling, and no disagreement with a text of the repository: the caps of
`commit` (section 2, `BudgetLedger`) and the state file that counts as empty
(`GBrainSync`), by which a full sync is forgotten, are named as exceptions in
`CapsHold` and `FullSyncRemembered`.

Met in a proof, and covered by no run of its own: `evictStale` in
`src/core/security.ts` drops the windows whose hour is over, under the comment
"they would reset on next access anyway, so the state is dead weight". Of the
hour that is so. The minute beside it may have begun later and still run, and its
count is lost with the entry: an identity that had used up its minute gets it
anew when somebody else's first request arrives. `RateBound` excludes the clients
to whom this happened (`forgotten.minute`). Without the exception TLC finds it
violated, also where nobody is dropped to make room: with minute 3, hour 4, a
limit of 2 in a minute and room for two clients, one of them passes five times
within a minute, where twice the limit is four.

## 7. What is not modelled

`src/python/gtom/_bundle` is a generated bundle of the TypeScript sources, of
36,803 lines: more than two thirds of all the code that is counted as such. The
modules stand for its originals and are not mapped to the copy.

Of the rest, the scoring parts (authenticity, conflict prediction, ICE, drift,
vulnerabilities) are floating-point formulas and tables over texts, run to the
end in one step: TLC has nothing to explore in them. Receipt versions and
comparison are pure functions of small records. The CLI, the SDKs, the OAuth
provider, observability, secrets, backups and health checks are input, output
and calls of the parts above; none has a second actor. Within the modelled
parts: texts, prices, rounding of sums, signatures, redaction,
calls of `archiveOldReceipts` outside of the append queue, headers, bodies,
scopes, the mcp mode of the GBrain client, the table of sources behind the
`gbrain` command, the SQLite engine, and tasks that share one database engine.
`PROJECT.json` lists every component with its reason.

## 8. Running it

    tlc -workers 2 -config MCBudgetLedger.cfg MCBudgetLedger
    tlapm BudgetLedgerProofs.tla
