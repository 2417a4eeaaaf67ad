---------------------------- MODULE BudgetLedger ----------------------------
(***************************************************************************)
(* The LLM budget ledger, class BudgetLedger of src/core/budget-ledger.ts: *)
(* reservations with a time to live, a ceiling over spend plus live        *)
(* reservations, per-resolver and per-scope caps over spend, and the       *)
(* JSONL audit files from which a restarted process reloads its spend.     *)
(*                                                                         *)
(* Every call of recordSpend appends to the history `charges'; `memory'    *)
(* and `daily' are the indices of the charges that are in this.spend and   *)
(* in the daily audit files.  The weekly files are written and never read, *)
(* so only their write error shows: it is one more way for a charge that   *)
(* is on disk to end in an exception.  All methods are synchronous, so     *)
(* each is one action.  Money and time are naturals.                       *)
(***************************************************************************)
EXTENDS Naturals, Sequences, FiniteSets, Functions

CONSTANTS Ids,         \* reservation ids (generateId never repeats one)
          NoId,        \* stands for no reservation
          Labels,      \* pairs [resolver |-> .., scope |-> ..] in use
          Caps,        \* [resolver |-> caps, scope |-> caps]: functions to Nat
          AnyName,     \* the key '*' of a cap map
          Works,       \* a model and an operation: what a call was for
          Costs,       \* reserved and actual amounts
          Ttls,        \* times to live in use
          MaxBudget,   \* config.maxBudgetUsd
          MaxTime,     \* bound on the clock
          MaxCharges   \* bound on the history of charges

Kinds == {"resolver", "scope"}

ASSUME LedgerAssumption ==
  /\ NoId \notin Ids
  /\ Labels # {}
  /\ MaxBudget \in Nat /\ MaxTime \in Nat /\ MaxCharges \in Nat
  /\ Costs \subseteq Nat
  /\ Ttls \subseteq Nat
  /\ \A k \in Kinds : \A n \in DOMAIN Caps[k] : Caps[k][n] \in Nat

VARIABLES clock,        \* config.now()
          reservations, \* the reservations map, by id
          charges,      \* history of recordSpend calls
          memory,       \* this.spend
          daily,        \* cost-YYYY-MM-DD.jsonl, read back on start
          overrun       \* history: money spent beyond its reservation

ledger == <<reservations, charges, memory, daily, overrun>>
vars == <<clock, ledger>>

Statuses == {"none", "reserved", "committed", "expired", "released", "forgotten"}

\* "none": never issued; "forgotten": issued by a process that is gone.
Reservation == [status : Statuses, reserved : Nat, committed : Nat,
                expires : Nat, label : Labels]

\* Two fields are history: `asserted' is the label whose caps were asserted
\* for the charge, `id' the reservation that the charge committed.
Charge == [time : Nat, work : Works, cost : Nat, label : Labels,
           asserted : Labels, id : Ids \cup {NoId}]

TypeOK ==
  /\ clock \in 0 .. MaxTime
  /\ reservations \in [Ids -> Reservation]
  /\ charges \in Seq(Charge)
  /\ memory \subseteq DOMAIN charges
  /\ daily \subseteq DOMAIN charges
  /\ overrun \in Nat

NoReservation == [status |-> "none", reserved |-> 0, committed |-> 0,
                  expires |-> 0, label |-> CHOOSE l \in Labels : TRUE]

Init ==
  /\ clock = 0
  /\ reservations = [id \in Ids |-> NoReservation]
  /\ charges = <<>>
  /\ memory = {} /\ daily = {}
  /\ overrun = 0

-----------------------------------------------------------------------------
(* Totals and caps. *)

SpendOf(S) == SumFunctionOnSet([i \in DOMAIN charges |-> charges[i].cost], S)

TotalSpend == SpendOf(memory)

SpendBy(kind, name) == SpendOf({i \in memory : charges[i].label[kind] = name})

\* The spend of a resolver or scope, without what commits moved to it from
\* the label of their reservation.
AssertedBy(kind, name) ==
  SpendOf({i \in memory : /\ charges[i].label[kind] = name
                          /\ charges[i].asserted[kind] = name})

Live(res) == {id \in Ids : res[id].status = "reserved"}

\* getReservedUsd in the reservation map res
ReservedIn(res) == SumFunctionOnSet([id \in Ids |-> res[id].reserved], Live(res))

Exceeds(caps, name, projected) ==
  \/ /\ name \in DOMAIN caps
     /\ projected > caps[name]
  \/ /\ name \notin DOMAIN caps
     /\ AnyName \in DOMAIN caps
     /\ projected > caps[AnyName]

\* Faulty variant: only the resolver's cap is asserted.
ResolverCapOnly(label, cost) ==
  ~ Exceeds(Caps["resolver"], label["resolver"],
            SpendBy("resolver", label["resolver"]) + cost)

\* The resolver's and the scope's cap both leave room for cost more.
CapsAllow(label, cost) ==
  \A k \in Kinds : ~ Exceeds(Caps[k], label[k], SpendBy(k, label[k]) + cost)

-----------------------------------------------------------------------------
(* Expiry, which is lazy: it happens when a method looks. *)

\* Faulty variant: any reservation that is past its time is expired.
LapsedInAnyStatus(id) == reservations[id].expires <= clock

\* Faulty variant: the cleanup looks at reservations that were released.
LapsedIfReleased(id) == /\ reservations[id].status = "released"
                        /\ reservations[id].expires <= clock

Lapsed(id) == /\ reservations[id].status = "reserved"
              /\ reservations[id].expires <= clock

\* Faulty variant: commit and reserve do not look for expired reservations.
NoCleanup == reservations

AfterCleanup ==
  [id \in Ids |-> IF Lapsed(id) THEN [reservations[id] EXCEPT !.status = "expired"]
                                ELSE reservations[id]]

\* cleanupExpired, and getStatus and the other readers that call it.
CleanupExpired ==
  /\ reservations' = AfterCleanup
  /\ UNCHANGED <<clock, charges, memory, daily, overrun>>

-----------------------------------------------------------------------------
(* reserve *)

\* Faulty variant: only what is spent counts against the budget.
AdmitsOnSpend(amount, label) ==
  /\ TotalSpend + amount <= MaxBudget
  /\ CapsAllow(label, amount)

Admits(amount, label) ==
  /\ TotalSpend + ReservedIn(AfterCleanup) + amount <= MaxBudget
  /\ CapsAllow(label, amount)

ExpiresAt(ttl) == clock + ttl

Reserve(id, amount, label, ttl) ==
  /\ reservations[id].status = "none"
  /\ Admits(amount, label)
  /\ reservations' = [AfterCleanup EXCEPT ![id] =
       [status |-> "reserved", reserved |-> amount, committed |-> 0,
        expires |-> ExpiresAt(ttl), label |-> label]]
  /\ UNCHANGED <<clock, charges, memory, daily, overrun>>

\* reserve throws, after having expired what was stale
ReserveRefused(amount, label) ==
  /\ ~ Admits(amount, label)
  /\ CleanupExpired

-----------------------------------------------------------------------------
(* recordSpend: this.spend first, then the files.  When the daily append   *)
(* throws the charge stays in memory only.                                 *)

RecordSpend(work, cost, label, asserted, id, onDisk) ==
  LET n == Len(charges) + 1
  IN  /\ n <= MaxCharges
      /\ charges' = Append(charges, [time |-> clock, work |-> work, cost |-> cost,
                                     label |-> label, asserted |-> asserted,
                                     id |-> id])
      /\ memory' = memory \cup {n}
      /\ daily' = IF onDisk THEN daily \cup {n} ELSE daily

Excess(cost, amount) == IF cost > amount THEN cost - amount ELSE 0

\* commit: the caps are asserted on the actual cost, the ceiling is not.  They
\* are the caps of the reservation's label; the charge goes to `label', which
\* is another one when the caller overrides its resolver or scope.
Commit(id, cost, work, label, onDisk) ==
  LET res == AfterCleanup[id]
  IN  /\ res.status = "reserved"
      /\ CapsAllow(res.label, cost)
      /\ reservations' = [AfterCleanup EXCEPT ![id].status = "committed",
                                              ![id].committed = cost]
      /\ RecordSpend(work, cost, label, res.label, id, onDisk)
      /\ overrun' = overrun + Excess(cost, res.reserved)
      /\ UNCHANGED clock

\* commit throws: the reservation is gone, or a cap has no room left, in
\* which case the reservation stays as it was
CommitRefused(id, cost) ==
  /\ \/ AfterCleanup[id].status # "reserved"
     \/ ~ CapsAllow(reservations[id].label, cost)
  /\ CleanupExpired

\* An entry may name a reservation, which nothing reads: it commits none.
RecordUnreservedSpend(work, cost, label, onDisk) ==
  /\ CapsAllow(label, cost)
  /\ RecordSpend(work, cost, label, label, NoId, onDisk)
  /\ overrun' = overrun + cost
  /\ UNCHANGED <<clock, reservations>>

-----------------------------------------------------------------------------
(* release, which looks at its own reservation only *)

Release(id) ==
  /\ reservations[id].status = "reserved"
  /\ reservations' = [reservations EXCEPT ![id].status =
                        IF Lapsed(id) THEN "expired" ELSE "released"]
  /\ UNCHANGED <<clock, charges, memory, daily, overrun>>

-----------------------------------------------------------------------------
(* The clock, and a new process that reads the audit files of the old one. *)

Tick ==
  /\ clock < MaxTime
  /\ clock' = clock + 1
  /\ UNCHANGED ledger

\* Faulty variant: the key of a loaded entry has no timestamp.
TimelessKey(i) == <<charges[i].work, charges[i].cost>>

DedupKey(i) == <<charges[i].time, charges[i].work, charges[i].cost>>

\* loadSpend keeps the first daily entry of each key
LoadSpend ==
  {i \in daily : \A j \in daily : j < i => DedupKey(j) # DedupKey(i)}

Restart ==
  /\ reservations' = [id \in Ids |->
       IF reservations[id].status = "none" THEN reservations[id]
       ELSE [NoReservation EXCEPT !.status = "forgotten"]]
  /\ memory' = LoadSpend
  /\ UNCHANGED <<clock, charges, daily, overrun>>

-----------------------------------------------------------------------------

Next ==
  \/ \E id \in Ids, amount \in Costs, label \in Labels, ttl \in Ttls :
       Reserve(id, amount, label, ttl)
  \/ \E amount \in Costs, label \in Labels : ReserveRefused(amount, label)
  \/ \E id \in Ids, cost \in Costs, work \in Works, label \in Labels,
        onDisk \in BOOLEAN : Commit(id, cost, work, label, onDisk)
  \/ \E id \in Ids, cost \in Costs : CommitRefused(id, cost)
  \/ \E cost \in Costs, work \in Works, label \in Labels, onDisk \in BOOLEAN :
       RecordUnreservedSpend(work, cost, label, onDisk)
  \/ \E id \in Ids : Release(id)
  \/ CleanupExpired
  \/ Tick
  \/ Restart

Spec == Init /\ [][Next]_vars

-----------------------------------------------------------------------------
(* Properties *)

\* Accounting is exact, whatever the interleaving of commits, expiries,
\* failed writes and restarts: a reservation is committed exactly when this
\* process holds a charge for it (commit and recordSpend), for the committed
\* cost, and no reservation is ever charged twice.  The label of the charge is
\* the caller's to choose.
ChargedOnce ==
  /\ \A id \in Ids : reservations[id].status = "committed" =>
       \E i \in memory : /\ charges[i].id = id
                         /\ charges[i].cost = reservations[id].committed
  /\ \A i \in DOMAIN charges : charges[i].id # NoId =>
       reservations[charges[i].id].status \in {"committed", "forgotten"}
  /\ \A i, j \in DOMAIN charges :
       charges[i].id = charges[j].id /\ charges[i].id # NoId => i = j

\* The spend of every resolver and every scope that has a cap stays within
\* it (assertCap before every recordSpend), also after the reloads, except
\* for what was committed under another label than the reservation's: commit
\* asserts the caps of the reservation's label only, so such spend can exceed
\* the cap of the label it lands on.
CapsHold ==
  \A k \in Kinds, l \in Labels : ~ Exceeds(Caps[k], l[k], AssertedBy(k, l[k]))

\* How the status of a reservation may change in one step.
EndStep ==
  \A id \in Ids :
    LET old == reservations[id].status
        new == reservations'[id].status
    IN  old # new =>
          \/ old = "none" /\ new = "reserved"
          \/ /\ old = "reserved" /\ new \in {"committed", "released"}
             /\ clock < reservations[id].expires
          \/ /\ old = "reserved" /\ new = "expired"
             /\ reservations[id].expires <= clock
          \/ old # "none" /\ new = "forgotten"

\* A reservation that has ended keeps its end (commit, release and
\* cleanupExpired only touch live ones), and money is never committed
\* against a reservation whose time to live had run out.
EndsAreFinal == [][EndStep]_vars

\* A charge that reached the daily file and is the only one of its call, cost
\* and millisecond is still counted after any number of restarts.
UniqueChargesSurvive ==
  \A i \in daily :
    \/ i \in memory
    \/ \E j \in daily \ {i} : /\ charges[j].time = charges[i].time
                             /\ charges[j].work = charges[i].work
                             /\ charges[j].cost = charges[i].cost

\* What the ledger counts as spent is never less than what its daily files
\* say was spent: a process restart loads the persisted daily spend.
PersistedSpendIsLoaded == SpendOf(daily) <= TotalSpend

Account == INSTANCE BudgetAccount
             WITH spent <- TotalSpend, held <- ReservedIn(reservations)

\* Spend plus live reservations stays within the budget, except for money
\* that was never reserved: costs above their estimate (commit does not look
\* at the ceiling) and unreserved spend.
BudgetRespected == Account!WithinBudget

\* The ledger implements the abstract account, step for step.
ImplementsAccount == Account!ASpec
=============================================================================
