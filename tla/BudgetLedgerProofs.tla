------------------------ MODULE BudgetLedgerProofs ------------------------
(***************************************************************************)
(* Theorems about the budget ledger, for every set of reservation ids,     *)
(* labels, caps, costs, budget and bound: types, exact accounting, the     *)
(* finality of a reservation's end, what survives a restart, the caps and  *)
(* the budget, and that the ledger implements the account.                 *)
(*                                                                         *)
(* First, facts about SumFunctionOnSet, the sum of a function over a       *)
(* finite set, which the community modules define by recursion over        *)
(* subsets.  Induction over finite sets is used in the form of a smallest  *)
(* counterexample: the family of subsets for which a claim fails, were it  *)
(* not empty, would have a smallest member.                                *)
(***************************************************************************)
EXTENDS BudgetLedger, FiniteSetTheorems, TLAPS

\* Every family of subsets of a finite set has a smallest member.
LEMMA Smallest ==
  ASSUME NEW S, IsFiniteSet(S), NEW F \in SUBSET (SUBSET S), F # {}
  PROVE  \E T \in F : \A U \in F : U \subseteq T => U = T
<1>1. IsWellFoundedOn(StrictSubsetOrdering(S), FiniteSubsetsOf(S))
  BY FS_StrictSubsetOrderingWellFounded
<1>2. FiniteSubsetsOf(S) = SUBSET S
  BY FS_FiniteSubsetsOfFinite
<1>3. PICK T \in F : \A U \in F : ~ (<<U, T>> \in StrictSubsetOrdering(S))
  BY <1>1, <1>2, WFMin
<1>. QED
  BY <1>3 DEF StrictSubsetOrdering

-----------------------------------------------------------------------------
(* The recursion that defines a sum has exactly one solution. *)

Pick(s) == CHOOSE x \in s : TRUE

\* f is the sum of w over every subset of S.
SumsUp(f, w, S) ==
  f = [s \in SUBSET S |-> IF s = {} THEN 0 ELSE w[Pick(s)] + f[s \ {Pick(s)}]]

LEMMA SumUnfolds ==
  ASSUME NEW w, NEW S
  PROVE  SumFunctionOnSet(w, S) = (CHOOSE f : SumsUp(f, w, S))[S]
BY DEF SumFunctionOnSet, FoldFunctionOnSet, MapThenFoldSet, SumsUp, Pick

LEMMA SumUnique ==
  ASSUME NEW w, NEW S, IsFiniteSet(S), NEW T \in SUBSET S,
         NEW f, SumsUp(f, w, S), NEW g, SumsUp(g, w, T)
  PROVE  \A s \in SUBSET T : f[s] = g[s]
<1> DEFINE F == {s \in SUBSET T : f[s] # g[s]}
<1>1. SUFFICES ASSUME F # {} PROVE FALSE
  OBVIOUS
<1>a. F \in SUBSET (SUBSET S)
  OBVIOUS
<1>2. PICK s \in F : \A u \in F : u \subseteq s => u = s
  <2>. HIDE DEF F
  <2>. QED BY <1>1, <1>a, Smallest
<1>3. s # {} => Pick(s) \in s
  BY DEF Pick
<1>4. s # {} => f[s \ {Pick(s)}] = g[s \ {Pick(s)}]
  BY <1>2, <1>3
<1>5. /\ f[s] = IF s = {} THEN 0 ELSE w[Pick(s)] + f[s \ {Pick(s)}]
      /\ g[s] = IF s = {} THEN 0 ELSE w[Pick(s)] + g[s \ {Pick(s)}]
  BY <1>2 DEF SumsUp
<1>. QED
  BY <1>2, <1>4, <1>5

LEMMA SumExists ==
  ASSUME NEW w, NEW S, IsFiniteSet(S)
  PROVE  \E f : SumsUp(f, w, S)
<1> DEFINE F == {T \in SUBSET S : ~ \E f : SumsUp(f, w, T)}
<1>1. SUFFICES ASSUME F # {} PROVE FALSE
  OBVIOUS
<1>a. F \in SUBSET (SUBSET S)
  OBVIOUS
<1>2. PICK T \in F : \A U \in F : U \subseteq T => U = T
  <2>. HIDE DEF F
  <2>. QED BY <1>1, <1>a, Smallest
<1> DEFINE of(U) == CHOOSE f : SumsUp(f, w, U)
           g == [s \in SUBSET T |->
                  IF s = {} THEN 0 ELSE w[Pick(s)] + of(s \ {Pick(s)})[s \ {Pick(s)}]]
<1>3. ASSUME NEW U \in SUBSET T, U # T PROVE SumsUp(of(U), w, U)
  <2>1. \E f : SumsUp(f, w, U)
    BY <1>2, <1>3
  <2>. QED
    BY <2>1
<1>. HIDE DEF of
<1>4. ASSUME NEW U \in SUBSET T, U # T PROVE of(U)[U] = g[U]
  <2>1. of(U)[U] = IF U = {} THEN 0 ELSE w[Pick(U)] + of(U)[U \ {Pick(U)}]
    BY <1>3, <1>4 DEF SumsUp
  <2>2. U # {} => of(U)[U \ {Pick(U)}] = of(U \ {Pick(U)})[U \ {Pick(U)}]
    <3> DEFINE V == U \ {Pick(U)}
    <3>1. V \in SUBSET U /\ V \in SUBSET T /\ V # T
      BY <1>4
    <3>2. SumsUp(of(U), w, U) /\ SumsUp(of(V), w, V) /\ IsFiniteSet(U)
      BY <1>3, <1>4, <3>1, FS_Subset
    <3>. QED
      BY <3>1, <3>2, SumUnique
  <2>. QED
    BY <2>1, <2>2
<1>5. \A s \in SUBSET T : s # {} => /\ s \ {Pick(s)} \in SUBSET T
                                    /\ s \ {Pick(s)} # T
  BY DEF Pick
<1>6. SumsUp(g, w, T)
  BY <1>4, <1>5 DEF SumsUp
<1>. QED
  BY <1>2, <1>6

LEMMA SumStep ==
  ASSUME NEW w, NEW S, IsFiniteSet(S)
  PROVE  SumFunctionOnSet(w, S) =
           IF S = {} THEN 0
           ELSE w[Pick(S)] + SumFunctionOnSet(w, S \ {Pick(S)})
<1> DEFINE of(U) == CHOOSE f : SumsUp(f, w, U)
           V == S \ {Pick(S)}
<1>1. IsFiniteSet(V)
  BY FS_Subset
<1>2. SumsUp(of(S), w, S) /\ SumsUp(of(V), w, V)
  BY <1>1, SumExists
<1>. HIDE DEF of
<1>3. of(S)[V] = of(V)[V]
  <2>1. V \in SUBSET S /\ V \in SUBSET V
    OBVIOUS
  <2>. HIDE DEF V
  <2>. QED
    BY <1>2, <2>1, SumUnique
<1>4. of(S)[S] = IF S = {} THEN 0 ELSE w[Pick(S)] + of(S)[V]
  BY <1>2 DEF SumsUp
<1>5. SumFunctionOnSet(w, S) = of(S)[S] /\ SumFunctionOnSet(w, V) = of(V)[V]
  BY SumUnfolds DEF of
<1>. QED
  BY <1>3, <1>4, <1>5

-----------------------------------------------------------------------------
(* What the proofs use. *)

LEMMA SumEmpty == ASSUME NEW w PROVE SumFunctionOnSet(w, {}) = 0
BY SumStep, FS_EmptySet

\* Only the values on the set matter.
LEMMA SumCongruence ==
  ASSUME NEW S, IsFiniteSet(S), NEW w, NEW v, \A x \in S : w[x] = v[x]
  PROVE  SumFunctionOnSet(w, S) = SumFunctionOnSet(v, S)
<1> DEFINE F == {T \in SUBSET S : SumFunctionOnSet(w, T) # SumFunctionOnSet(v, T)}
<1>1. SUFFICES ASSUME F # {} PROVE FALSE
  OBVIOUS
<1>2. F \in SUBSET (SUBSET S)
  OBVIOUS
<1>3. PICK T \in F : \A U \in F : U \subseteq T => U = T
  <2>. HIDE DEF F
  <2>. QED BY <1>1, <1>2, Smallest
<1> DEFINE U == T \ {Pick(T)}
<1>4. T # {} => Pick(T) \in T
  BY DEF Pick
<1>5. T # {} => SumFunctionOnSet(w, U) = SumFunctionOnSet(v, U)
  BY <1>3, <1>4
<1>6. IsFiniteSet(T)
  BY <1>3, FS_Subset
<1>7. /\ SumFunctionOnSet(w, T) = IF T = {} THEN 0 ELSE w[Pick(T)] + SumFunctionOnSet(w, U)
      /\ SumFunctionOnSet(v, T) = IF T = {} THEN 0 ELSE v[Pick(T)] + SumFunctionOnSet(v, U)
  BY <1>6, SumStep
<1>8. T # {} => w[Pick(T)] = v[Pick(T)]
  BY <1>3, <1>4
<1>. HIDE DEF U
<1>. QED
  BY <1>3, <1>5, <1>7, <1>8

LEMMA SumType ==
  ASSUME NEW S, IsFiniteSet(S), NEW w, \A x \in S : w[x] \in Nat
  PROVE  SumFunctionOnSet(w, S) \in Nat
<1> DEFINE F == {T \in SUBSET S : SumFunctionOnSet(w, T) \notin Nat}
<1>1. SUFFICES ASSUME F # {} PROVE FALSE
  OBVIOUS
<1>2. F \in SUBSET (SUBSET S)
  OBVIOUS
<1>3. PICK T \in F : \A U \in F : U \subseteq T => U = T
  <2>. HIDE DEF F
  <2>. QED BY <1>1, <1>2, Smallest
<1> DEFINE U == T \ {Pick(T)}
<1>4. T # {} => Pick(T) \in T
  BY DEF Pick
<1>5. T # {} => SumFunctionOnSet(w, U) \in Nat
  BY <1>3, <1>4
<1>6. IsFiniteSet(T)
  BY <1>3, FS_Subset
<1>7. SumFunctionOnSet(w, T) = IF T = {} THEN 0 ELSE w[Pick(T)] + SumFunctionOnSet(w, U)
  BY <1>6, SumStep
<1>8. T # {} => w[Pick(T)] \in Nat
  BY <1>3, <1>4
<1>. HIDE DEF U
<1>. QED
  BY <1>3, <1>5, <1>7, <1>8

\* Any element may be taken out first.
LEMMA SumRemove ==
  ASSUME NEW S, IsFiniteSet(S), NEW w, \A x \in S : w[x] \in Nat
  PROVE  \A x \in S : SumFunctionOnSet(w, S) = w[x] + SumFunctionOnSet(w, S \ {x})
<1> DEFINE sum(T) == SumFunctionOnSet(w, T)
           F == {T \in SUBSET S : \E x \in T : sum(T) # w[x] + sum(T \ {x})}
<1>1. SUFFICES ASSUME F # {} PROVE FALSE
  OBVIOUS
<1>2. F \in SUBSET (SUBSET S)
  OBVIOUS
<1>3. PICK T \in F : \A U \in F : U \subseteq T => U = T
  <2>. HIDE DEF F
  <2>. QED BY <1>1, <1>2, Smallest
<1>4. PICK x \in T : sum(T) # w[x] + sum(T \ {x})
  OBVIOUS
<1> DEFINE p == Pick(T)
<1>5. p \in T /\ T \in SUBSET S
  BY <1>4 DEF Pick
<1>6. \A U \in SUBSET S : IsFiniteSet(U) /\ sum(U) \in Nat
  BY FS_Subset, SumType
<1>7. sum(T) = w[p] + sum(T \ {p})
  BY <1>5, <1>6, SumStep
<1>8. \A U \in SUBSET T : U # T => \A y \in U : sum(U) = w[y] + sum(U \ {y})
  BY <1>3, <1>5
<1>. HIDE DEF p, sum, F
<1>9. p # x
  BY <1>4, <1>7
<1>10. sum(T \ {p}) = w[x] + sum((T \ {p}) \ {x})
  BY <1>5, <1>8, <1>9
<1>11. sum(T \ {x}) = w[p] + sum((T \ {x}) \ {p})
  BY <1>5, <1>8, <1>9
<1>12. (T \ {p}) \ {x} = (T \ {x}) \ {p}
  OBVIOUS
<1> DEFINE rest == sum((T \ {x}) \ {p})
<1>13. w[x] \in Nat /\ w[p] \in Nat /\ rest \in Nat
  BY <1>5, <1>6
<1>14. sum(T) = w[p] + (w[x] + rest) /\ sum(T \ {x}) = w[p] + rest
  BY <1>7, <1>10, <1>11, <1>12
<1>. HIDE DEF rest
<1>. QED
  BY <1>4, <1>13, <1>14

LEMMA SumAdd ==
  ASSUME NEW S, IsFiniteSet(S), NEW x, x \notin S,
         NEW w, \A y \in S \cup {x} : w[y] \in Nat
  PROVE  SumFunctionOnSet(w, S \cup {x}) = w[x] + SumFunctionOnSet(w, S)
<1>1. IsFiniteSet(S \cup {x})
  BY FS_AddElement
<1>2. (S \cup {x}) \ {x} = S
  OBVIOUS
<1>. QED
  BY <1>1, <1>2, SumRemove

\* A sum of naturals grows with its set.
LEMMA SumMonotone ==
  ASSUME NEW S, IsFiniteSet(S), NEW w, \A x \in S : w[x] \in Nat,
         NEW R \in SUBSET S
  PROVE  SumFunctionOnSet(w, R) <= SumFunctionOnSet(w, S)
<1> DEFINE sum(T) == SumFunctionOnSet(w, T)
           F == {T \in SUBSET S : R \subseteq T /\ ~ (sum(R) <= sum(T))}
<1>1. SUFFICES ASSUME F # {} PROVE FALSE
  OBVIOUS
<1>2. F \in SUBSET (SUBSET S)
  OBVIOUS
<1>3. PICK T \in F : \A U \in F : U \subseteq T => U = T
  <2>. HIDE DEF F
  <2>. QED BY <1>1, <1>2, Smallest
<1>4. \A U \in SUBSET S : IsFiniteSet(U) /\ sum(U) \in Nat
  BY FS_Subset, SumType
<1>5. R # T
  BY <1>4
<1>6. PICK x \in T : x \notin R
  BY <1>5
<1>7. sum(T) = w[x] + sum(T \ {x})
  BY <1>4, SumRemove
<1>8. T \ {x} \in SUBSET S /\ R \subseteq T \ {x} /\ T \ {x} # T
  BY <1>6
<1>9. sum(R) <= sum(T \ {x})
  BY <1>3, <1>8
<1>. QED
  <2>. HIDE DEF sum
  <2>. QED BY <1>3, <1>4, <1>7, <1>8, <1>9

-----------------------------------------------------------------------------
(* The ledger *)

USE LedgerAssumption

LEMMA NoReservationType == NoReservation \in Reservation
<1>1. (CHOOSE l \in Labels : TRUE) \in Labels
  OBVIOUS
<1>. QED
  BY <1>1 DEF NoReservation, Reservation, Statuses

\* Expiring what has lapsed keeps the map a map of reservations, and changes
\* nothing but the status of reservations that had lapsed.
LEMMA AfterCleanupType ==
  ASSUME TypeOK
  PROVE  /\ AfterCleanup \in [Ids -> Reservation]
         /\ \A id \in Ids :
              /\ Lapsed(id) => AfterCleanup[id].status = "expired"
              /\ ~ Lapsed(id) => AfterCleanup[id] = reservations[id]
BY DEF TypeOK, AfterCleanup, Reservation, Statuses

\* What a commit, or a charge without a reservation, appends.
LEMMA RecordSpendType ==
  ASSUME TypeOK,
         NEW work \in Works, NEW cost \in Nat, NEW label \in Labels,
         NEW asserted \in Labels, NEW id \in Ids \cup {NoId}, NEW onDisk \in BOOLEAN,
         RecordSpend(work, cost, label, asserted, id, onDisk)
  PROVE  /\ charges' \in Seq(Charge)
         /\ memory' \subseteq DOMAIN charges'
         /\ daily' \subseteq DOMAIN charges'
         /\ DOMAIN charges = 1 .. Len(charges)
         /\ DOMAIN charges' = 1 .. (Len(charges) + 1)
         /\ memory' = memory \cup {Len(charges) + 1}
         /\ \A i \in 1 .. Len(charges) : charges'[i] = charges[i]
         /\ charges'[Len(charges) + 1] =
              [time |-> clock, work |-> work, cost |-> cost,
               label |-> label, asserted |-> asserted, id |-> id]
<1> DEFINE new == [time |-> clock, work |-> work, cost |-> cost,
                   label |-> label, asserted |-> asserted, id |-> id]
<1>1. new \in Charge
  BY DEF TypeOK, Charge
<1>2. /\ charges' = Append(charges, new)
      /\ memory' = memory \cup {Len(charges) + 1}
      /\ daily' \subseteq daily \cup {Len(charges) + 1}
  BY DEF RecordSpend
<1>3. charges \in Seq(Charge)
  BY DEF TypeOK
<1>. HIDE DEF new
<1>4. /\ charges' \in Seq(Charge)
      /\ DOMAIN charges = 1 .. Len(charges)
      /\ DOMAIN charges' = 1 .. (Len(charges) + 1)
      /\ \A i \in 1 .. Len(charges) : charges'[i] = charges[i]
      /\ charges'[Len(charges) + 1] = new
  BY <1>1, <1>2, <1>3
<1>5. Len(charges) \in Nat
  BY <1>3
<1>. QED
  BY <1>2, <1>4, <1>5 DEF TypeOK, new

-----------------------------------------------------------------------------

LEMMA InitTypeOK == Init => TypeOK
BY NoReservationType DEF Init, TypeOK

LEMMA NextTypeOK == TypeOK /\ [Next]_vars => TypeOK'
<1> SUFFICES ASSUME TypeOK, [Next]_vars PROVE TypeOK'
  OBVIOUS
<1>1. ASSUME NEW id \in Ids, NEW amount \in Costs, NEW label \in Labels,
             NEW ttl \in Ttls, Reserve(id, amount, label, ttl)
      PROVE  TypeOK'
  <2> DEFINE new == [status |-> "reserved", reserved |-> amount, committed |-> 0,
                     expires |-> ExpiresAt(ttl), label |-> label]
  <2>1. new \in Reservation
    BY DEF Reservation, Statuses, ExpiresAt, TypeOK
  <2>2. reservations' = [AfterCleanup EXCEPT ![id] = new]
    BY <1>1 DEF Reserve
  <2>. HIDE DEF new
  <2>3. reservations' \in [Ids -> Reservation]
    BY <2>1, <2>2, AfterCleanupType
  <2>. QED
    BY <1>1, <2>3 DEF Reserve, TypeOK
<1>2. CASE CleanupExpired
  BY <1>2, AfterCleanupType DEF CleanupExpired, TypeOK
<1>3. ASSUME NEW id \in Ids, NEW cost \in Costs, NEW work \in Works,
             NEW to \in Labels, NEW onDisk \in BOOLEAN, Commit(id, cost, work, to, onDisk)
      PROVE  TypeOK'
  <2> DEFINE res == AfterCleanup[id]
  <2>1. AfterCleanup \in [Ids -> Reservation] /\ res \in Reservation
    BY AfterCleanupType
  <2>2. res.label \in Labels /\ res.reserved \in Nat
    BY <2>1 DEF Reservation
  <2>3. reservations' \in [Ids -> Reservation]
    BY <1>3, <2>1 DEF Commit, Reservation, Statuses
  <2>4. RecordSpend(work, cost, to, res.label, id, onDisk)
    BY <1>3 DEF Commit
  <2>5. /\ charges' \in Seq(Charge)
        /\ memory' \subseteq DOMAIN charges'
        /\ daily' \subseteq DOMAIN charges'
    BY <2>2, <2>4, RecordSpendType
  <2>6. overrun' \in Nat
    BY <1>3, <2>2 DEF Commit, Excess, TypeOK
  <2>. QED
    BY <1>3, <2>3, <2>5, <2>6 DEF Commit, TypeOK
<1>4. ASSUME NEW cost \in Costs, NEW work \in Works, NEW label \in Labels,
             NEW onDisk \in BOOLEAN,
             RecordUnreservedSpend(work, cost, label, onDisk)
      PROVE  TypeOK'
  <2>1. /\ charges' \in Seq(Charge)
        /\ memory' \subseteq DOMAIN charges'
        /\ daily' \subseteq DOMAIN charges'
    BY <1>4, RecordSpendType DEF RecordUnreservedSpend
  <2>2. overrun + cost \in Nat
    BY DEF TypeOK
  <2>. QED
    BY <1>4, <2>1, <2>2 DEF RecordUnreservedSpend, TypeOK
<1>5. ASSUME NEW id \in Ids, Release(id)
      PROVE  TypeOK'
  BY <1>5 DEF Release, TypeOK, Reservation, Statuses
<1>6. CASE Tick
  <2>1. clock + 1 \in 0 .. MaxTime
    BY <1>6 DEF Tick, TypeOK
  <2>. QED
    BY <1>6, <2>1 DEF Tick, ledger, TypeOK
<1>7. CASE Restart
  <2>1. reservations' \in [Ids -> Reservation]
    <3>1. NoReservation.expires \in Nat
      BY NoReservationType DEF Reservation
    <3>. QED
      BY <1>7, NoReservationType DEF Restart, TypeOK, Reservation, Statuses
  <2>. QED
    BY <1>7, <2>1 DEF Restart, LoadSpend, TypeOK
<1>8. CASE UNCHANGED vars
  BY <1>8 DEF vars, ledger, TypeOK
<1>. QED
  BY <1>1, <1>2, <1>3, <1>4, <1>5, <1>6, <1>7, <1>8
     DEF Next, ReserveRefused, CommitRefused

\* Every variable keeps its type.
THEOREM TypeCorrect == Spec => []TypeOK
BY InitTypeOK, NextTypeOK, PTL DEF Spec

-----------------------------------------------------------------------------

\* A step that leaves the history alone keeps the accounts exact if every
\* committed reservation and its charges stay, or are forgotten together.
LEMMA SameHistory ==
  ASSUME TypeOK, ChargedOnce,
         charges' = charges, memory' = memory,
         \A id \in Ids : \/ reservations'[id] = reservations[id]
                         \/ /\ reservations[id].status \in {"none", "reserved"}
                            /\ reservations'[id].status # "committed"
  PROVE  ChargedOnce'
<1>1. \A id \in Ids : reservations'[id].status = "committed" =>
        reservations'[id] = reservations[id]
  OBVIOUS
<1>2. \A i \in DOMAIN charges : charges[i].id # NoId =>
        /\ charges[i].id \in Ids
        /\ reservations[charges[i].id].status \in {"committed", "forgotten"}
  <2> TAKE i \in DOMAIN charges
  <2>1. charges[i] \in Charge
    BY DEF TypeOK
  <2>. QED
    BY <2>1 DEF ChargedOnce, Charge
<1>3. \A i \in DOMAIN charges : charges[i].id # NoId =>
        reservations'[charges[i].id].status \in {"committed", "forgotten"}
  BY <1>2
<1>. QED
  BY <1>1, <1>3 DEF ChargedOnce

LEMMA NextChargedOnce == TypeOK /\ ChargedOnce /\ [Next]_vars => ChargedOnce'
<1> SUFFICES ASSUME TypeOK, ChargedOnce, [Next]_vars PROVE ChargedOnce'
  OBVIOUS
<1>0. \A id \in Ids : \/ AfterCleanup[id] = reservations[id]
                      \/ /\ reservations[id].status = "reserved"
                         /\ AfterCleanup[id].status = "expired"
  BY AfterCleanupType DEF Lapsed
<1>1. ASSUME NEW id \in Ids, NEW amount \in Costs, NEW label \in Labels,
             NEW ttl \in Ttls, Reserve(id, amount, label, ttl)
      PROVE  ChargedOnce'
  <2>1. reservations'[id].status = "reserved"
    BY <1>1, AfterCleanupType DEF Reserve
  <2>2. \A other \in Ids \ {id} : reservations'[other] = AfterCleanup[other]
    BY <1>1, AfterCleanupType DEF Reserve
  <2>. QED
    BY <1>0, <1>1, <2>1, <2>2, SameHistory DEF Reserve
<1>2. CASE CleanupExpired
  BY <1>0, <1>2, SameHistory DEF CleanupExpired
<1>3. ASSUME NEW id \in Ids, NEW cost \in Costs, NEW work \in Works,
             NEW to \in Labels, NEW onDisk \in BOOLEAN, Commit(id, cost, work, to, onDisk)
      PROVE  ChargedOnce'
  <2> DEFINE n == Len(charges) + 1
             label == AfterCleanup[id].label
             new == [time |-> clock, work |-> work, cost |-> cost,
                     label |-> to, asserted |-> label, id |-> id]
  <2>1. /\ reservations[id].status = "reserved"
        /\ AfterCleanup[id] = reservations[id]
    BY <1>0, <1>3 DEF Commit
  <2>2. label \in Labels
    BY AfterCleanupType DEF Reservation
  <2>3. /\ DOMAIN charges = 1 .. Len(charges)
        /\ DOMAIN charges' = 1 .. n
        /\ memory' = memory \cup {n}
        /\ \A i \in 1 .. Len(charges) : charges'[i] = charges[i]
        /\ charges'[n] = new
        /\ charges' \in Seq(Charge)
    BY <1>3, <2>2, RecordSpendType DEF Commit
  <2>4. /\ reservations'[id].status = "committed"
        /\ reservations'[id].committed = cost
        /\ \A other \in Ids \ {id} : reservations'[other] = AfterCleanup[other]
    BY <1>3, AfterCleanupType DEF Commit, Reservation
  <2>5. Len(charges) \in Nat /\ NoId \notin Ids
    BY DEF TypeOK
  <2>6. \A i \in 1 .. Len(charges) : charges[i].id # NoId =>
          /\ charges[i].id \in Ids
          /\ charges[i].id # id
          /\ reservations[charges[i].id].status \in {"committed", "forgotten"}
    <3> TAKE i \in 1 .. Len(charges)
    <3>1. charges[i] \in Charge
      BY <2>3 DEF TypeOK
    <3>. QED
      BY <2>1, <2>3, <3>1 DEF ChargedOnce, Charge
  <2>7. ASSUME NEW r \in Ids, reservations'[r].status = "committed"
        PROVE  \E i \in memory' : /\ charges'[i].id = r
                                  /\ charges'[i].cost = reservations'[r].committed
    <3>1. CASE r = id
      BY <2>3, <2>4, <3>1
    <3>2. CASE r # id
      <4>1. reservations'[r] = reservations[r] /\ reservations[r].status = "committed"
        BY <1>0, <2>4, <2>7, <3>2
      <4>2. PICK i \in memory : /\ charges[i].id = r
                                /\ charges[i].cost = reservations[r].committed
        BY <4>1 DEF ChargedOnce
      <4>3. i \in 1 .. Len(charges) /\ i \in memory'
        BY <2>3 DEF TypeOK
      <4>. QED
        BY <2>3, <4>1, <4>2, <4>3
    <3>. QED
      BY <3>1, <3>2
  <2>8. ASSUME NEW i \in DOMAIN charges', charges'[i].id # NoId
        PROVE  reservations'[charges'[i].id].status \in {"committed", "forgotten"}
    <3>1. CASE i = n
      BY <2>3, <2>4, <3>1
    <3>2. CASE i # n
      <4>1. i \in 1 .. Len(charges) /\ charges'[i] = charges[i]
        BY <2>3, <2>5, <3>2
      <4>. QED
        BY <1>0, <2>4, <2>6, <2>8, <4>1
    <3>. QED
      BY <3>1, <3>2
  <2>9. ASSUME NEW i \in DOMAIN charges', NEW j \in DOMAIN charges',
               charges'[i].id = charges'[j].id, charges'[i].id # NoId
        PROVE  i = j
    <3>1. \A k \in DOMAIN charges' : k # n =>
            k \in 1 .. Len(charges) /\ charges'[k] = charges[k]
      BY <2>3, <2>5
    <3>2. charges'[n].id = id
      BY <2>3
    <3>3. CASE i = n /\ j # n
      BY <2>6, <2>9, <3>1, <3>2, <3>3
    <3>4. CASE i # n /\ j = n
      BY <2>6, <2>9, <3>1, <3>2, <3>4
    <3>5. CASE i # n /\ j # n
      BY <2>3, <2>9, <3>1, <3>5 DEF ChargedOnce
    <3>. QED
      BY <3>3, <3>4, <3>5
  <2>. QED
    BY <2>7, <2>8, <2>9 DEF ChargedOnce
<1>4. ASSUME NEW cost \in Costs, NEW work \in Works, NEW label \in Labels,
             NEW onDisk \in BOOLEAN,
             RecordUnreservedSpend(work, cost, label, onDisk)
      PROVE  ChargedOnce'
  <2> DEFINE n == Len(charges) + 1
  <2>1. /\ DOMAIN charges = 1 .. Len(charges)
        /\ DOMAIN charges' = 1 .. n
        /\ memory' = memory \cup {n}
        /\ \A i \in 1 .. Len(charges) : charges'[i] = charges[i]
        /\ charges'[n].id = NoId
    <3>1. RecordSpend(work, cost, label, label, NoId, onDisk)
      BY <1>4 DEF RecordUnreservedSpend
    <3>2. cost \in Nat /\ NoId \in Ids \cup {NoId}
      OBVIOUS
    <3>3. charges'[n] = [time |-> clock, work |-> work, cost |-> cost,
                         label |-> label, asserted |-> label, id |-> NoId]
      BY <3>1, <3>2, RecordSpendType
    <3>. QED
      BY <3>1, <3>2, <3>3, RecordSpendType
  <2>2. reservations' = reservations /\ Len(charges) \in Nat
    BY <1>4 DEF RecordUnreservedSpend, TypeOK
  <2>3. \A i \in DOMAIN charges' : charges'[i].id # NoId =>
          i \in DOMAIN charges /\ charges'[i] = charges[i]
    BY <2>1, <2>2
  <2>4. \A i \in memory : i \in memory' /\ charges'[i] = charges[i]
    BY <2>1 DEF TypeOK
  <2>5. \A r \in Ids : reservations'[r].status = "committed" =>
          \E i \in memory' : /\ charges'[i].id = r
                             /\ charges'[i].cost = reservations'[r].committed
    BY <2>2, <2>4 DEF ChargedOnce
  <2>. QED
    BY <2>2, <2>3, <2>5 DEF ChargedOnce
<1>5. ASSUME NEW id \in Ids, Release(id)
      PROVE  ChargedOnce'
  <2>1. \A r \in Ids : \/ reservations'[r] = reservations[r]
                       \/ /\ reservations[r].status = "reserved"
                          /\ reservations'[r].status # "committed"
    BY <1>5 DEF Release, TypeOK, Reservation
  <2>. QED
    BY <1>5, <2>1, SameHistory DEF Release
<1>6. CASE Tick
  BY <1>6, SameHistory DEF Tick, ledger
<1>7. CASE Restart
  <2>1. \A r \in Ids : reservations'[r].status \in {"none", "forgotten"}
    BY <1>7 DEF Restart, NoReservation
  <2>2. \A i \in DOMAIN charges : charges[i].id # NoId =>
          /\ charges[i].id \in Ids
          /\ reservations[charges[i].id].status # "none"
    <3> TAKE i \in DOMAIN charges
    <3>1. charges[i] \in Charge
      BY DEF TypeOK
    <3>. QED
      BY <3>1 DEF ChargedOnce, Charge
  <2>3. \A i \in DOMAIN charges : charges[i].id # NoId =>
          reservations'[charges[i].id].status = "forgotten"
    BY <1>7, <2>2 DEF Restart, NoReservation
  <2>4. charges' = charges
    BY <1>7 DEF Restart
  <2>. QED
    BY <2>1, <2>3, <2>4 DEF ChargedOnce
<1>8. CASE UNCHANGED vars
  BY <1>8, SameHistory DEF vars, ledger
<1>. QED
  BY <1>1, <1>2, <1>3, <1>4, <1>5, <1>6, <1>7, <1>8
     DEF Next, ReserveRefused, CommitRefused

\* commit charges a reservation exactly once, for its committed cost, through
\* every interleaving with expiry, release, failed writes and restarts.
THEOREM Accounting == Spec => []ChargedOnce
<1>1. Init => ChargedOnce
  BY DEF Init, ChargedOnce, NoReservation
<1>. QED
  BY <1>1, NextChargedOnce, TypeCorrect, PTL DEF Spec

-----------------------------------------------------------------------------

LEMMA NextEndStep == TypeOK /\ [Next]_vars => [EndStep]_vars
<1> SUFFICES ASSUME TypeOK, Next PROVE EndStep
  OBVIOUS
<1>0. \A id \in Ids :
        \/ AfterCleanup[id] = reservations[id]
        \/ /\ reservations[id].status = "reserved"
           /\ reservations[id].expires <= clock
           /\ AfterCleanup[id].status = "expired"
  BY AfterCleanupType DEF Lapsed
<1>1. ASSUME NEW id \in Ids, NEW amount \in Costs, NEW label \in Labels,
             NEW ttl \in Ttls, Reserve(id, amount, label, ttl)
      PROVE  EndStep
  <2>1. reservations[id].status = "none" /\ reservations'[id].status = "reserved"
    BY <1>1, AfterCleanupType DEF Reserve
  <2>2. \A other \in Ids \ {id} : reservations'[other] = AfterCleanup[other]
    BY <1>1, AfterCleanupType DEF Reserve
  <2>. QED
    BY <1>0, <2>1, <2>2 DEF EndStep
<1>2. CASE CleanupExpired
  BY <1>0, <1>2 DEF CleanupExpired, EndStep
<1>3. ASSUME NEW id \in Ids, NEW cost \in Costs, NEW work \in Works,
             NEW to \in Labels, NEW onDisk \in BOOLEAN, Commit(id, cost, work, to, onDisk)
      PROVE  EndStep
  <2>1. reservations'[id].status = "committed"
    BY <1>3, AfterCleanupType DEF Commit
  <2>2. \A other \in Ids \ {id} : reservations'[other] = AfterCleanup[other]
    BY <1>3, AfterCleanupType DEF Commit
  <2>3. /\ reservations[id].status = "reserved"
        /\ ~ Lapsed(id)
    BY <1>3, AfterCleanupType DEF Commit, Lapsed
  <2>4. reservations[id].expires \in Nat /\ clock \in Nat
    BY DEF TypeOK, Reservation
  <2>5. clock < reservations[id].expires
    BY <2>3, <2>4 DEF Lapsed
  <2>. QED
    BY <1>0, <2>1, <2>2, <2>3, <2>5 DEF EndStep
<1>4. ASSUME NEW cost \in Costs, NEW work \in Works, NEW label \in Labels,
             NEW onDisk \in BOOLEAN,
             RecordUnreservedSpend(work, cost, label, onDisk)
      PROVE  EndStep
  BY <1>4 DEF RecordUnreservedSpend, EndStep
<1>5. ASSUME NEW id \in Ids, Release(id)
      PROVE  EndStep
  <2>1. \A other \in Ids \ {id} : reservations'[other] = reservations[other]
    BY <1>5 DEF Release, TypeOK
  <2>2. /\ reservations[id].status = "reserved"
        /\ reservations'[id].status = IF Lapsed(id) THEN "expired" ELSE "released"
    BY <1>5 DEF Release, TypeOK, Reservation
  <2>3. reservations[id].expires \in Nat /\ clock \in Nat
    BY DEF TypeOK, Reservation
  <2>4. ~ Lapsed(id) => clock < reservations[id].expires
    BY <2>2, <2>3 DEF Lapsed
  <2>. QED
    BY <2>1, <2>2, <2>4 DEF EndStep, Lapsed
<1>6. CASE Tick
  BY <1>6 DEF Tick, ledger, EndStep
<1>7. CASE Restart
  BY <1>7 DEF Restart, NoReservation, EndStep
<1>. QED
  BY <1>1, <1>2, <1>3, <1>4, <1>5, <1>6, <1>7
     DEF Next, ReserveRefused, CommitRefused

\* A reservation ends once, and never by a commit after its time to live.
THEOREM Finality == Spec => EndsAreFinal
BY TypeCorrect, NextEndStep, PTL DEF Spec, EndsAreFinal

-----------------------------------------------------------------------------
(* Totals: sums over the history of charges. *)

Cost(c) == [i \in DOMAIN c |-> c[i].cost]

By(c, S, kind, name) == {i \in S : c[i].label[kind] = name}

Asserted(c, S, kind, name) ==
  {i \in S : c[i].label[kind] = name /\ c[i].asserted[kind] = name}

LEMMA SpendIsSum ==
  /\ TotalSpend = SumFunctionOnSet(Cost(charges), memory)
  /\ \A k, n :
       /\ SpendBy(k, n) = SumFunctionOnSet(Cost(charges), By(charges, memory, k, n))
       /\ AssertedBy(k, n) =
            SumFunctionOnSet(Cost(charges), Asserted(charges, memory, k, n))
BY DEF TotalSpend, SpendBy, AssertedBy, SpendOf, Cost, By, Asserted

LEMMA SpendIsSumAfter ==
  /\ TotalSpend' = SumFunctionOnSet(Cost(charges'), memory')
  /\ \A k, n : AssertedBy(k, n)' =
       SumFunctionOnSet(Cost(charges'), Asserted(charges', memory', k, n))
BY DEF TotalSpend, AssertedBy, SpendOf, Cost, Asserted

\* What a set of charges costs is a natural, and grows with the set.
LEMMA SpendType ==
  ASSUME NEW c \in Seq(Charge), NEW S \in SUBSET DOMAIN c
  PROVE  /\ IsFiniteSet(S)
         /\ SumFunctionOnSet(Cost(c), S) \in Nat
         /\ \A R \in SUBSET S :
              SumFunctionOnSet(Cost(c), R) <= SumFunctionOnSet(Cost(c), S)
<1>1. DOMAIN c = 1 .. Len(c) /\ Len(c) \in Nat
  OBVIOUS
<1>2. IsFiniteSet(DOMAIN c)
  BY <1>1, FS_Interval
<1>3. IsFiniteSet(S)
  BY <1>2, FS_Subset
<1>4. \A i \in S : Cost(c)[i] \in Nat
  <2>1. \A i \in S : c[i] \in Charge
    BY <1>1
  <2>. QED
    BY <2>1 DEF Cost, Charge
<1>. QED
  BY <1>3, <1>4, SumType, SumMonotone

\* A recorded charge adds its cost to the total, and to the spend of its label
\* when the caps of this label were asserted.
LEMMA SpendGrows ==
  ASSUME TypeOK,
         NEW work \in Works, NEW cost \in Nat, NEW label \in Labels,
         NEW asserted \in Labels, NEW id \in Ids \cup {NoId}, NEW onDisk \in BOOLEAN,
         RecordSpend(work, cost, label, asserted, id, onDisk)
  PROVE  /\ TotalSpend' = TotalSpend + cost
         /\ \A k, n :
              AssertedBy(k, n)' =
                IF label[k] = n /\ asserted[k] = n THEN AssertedBy(k, n) + cost
                                                   ELSE AssertedBy(k, n)
<1> DEFINE new == Len(charges) + 1
<1>a. charges \in Seq(Charge) /\ memory \subseteq DOMAIN charges /\ Len(charges) \in Nat
  BY DEF TypeOK
<1>1. /\ charges' \in Seq(Charge)
      /\ DOMAIN charges = 1 .. Len(charges)
      /\ DOMAIN charges' = 1 .. new
      /\ memory' = memory \cup {new}
      /\ \A i \in 1 .. Len(charges) : charges'[i] = charges[i]
      /\ charges'[new] = [time |-> clock, work |-> work, cost |-> cost,
                          label |-> label, asserted |-> asserted, id |-> id]
  BY RecordSpendType
<1>2. ASSUME NEW S \in SUBSET DOMAIN charges
      PROVE  /\ SumFunctionOnSet(Cost(charges), S) \in Nat
             /\ SumFunctionOnSet(Cost(charges'), S) = SumFunctionOnSet(Cost(charges), S)
             /\ SumFunctionOnSet(Cost(charges'), S \cup {new}) =
                  SumFunctionOnSet(Cost(charges), S) + cost
  <2>1. IsFiniteSet(S) /\ SumFunctionOnSet(Cost(charges), S) \in Nat
    BY <1>a, SpendType
  <2>2. \A i \in S : Cost(charges')[i] = Cost(charges)[i]
    BY <1>1 DEF Cost
  <2>3. SumFunctionOnSet(Cost(charges'), S) = SumFunctionOnSet(Cost(charges), S)
    BY <2>1, <2>2, SumCongruence
  <2>a. new \notin S /\ Cost(charges')[new] = cost
    BY <1>a, <1>1 DEF Cost
  <2>b. \A i \in S : Cost(charges)[i] \in Nat
    <3>1. \A i \in S : charges[i] \in Charge
      BY <1>a
    <3>. QED
      BY <3>1 DEF Cost, Charge
  <2>4. \A i \in S \cup {new} : Cost(charges')[i] \in Nat
    BY <2>2, <2>a, <2>b
  <2>5. SumFunctionOnSet(Cost(charges'), S \cup {new}) =
          cost + SumFunctionOnSet(Cost(charges'), S)
    BY <2>1, <2>4, <2>a, SumAdd
  <2>. QED
    BY <2>1, <2>3, <2>5
<1>3. TotalSpend' = TotalSpend + cost
  BY <1>a, <1>1, <1>2, SpendIsSum, SpendIsSumAfter
<1>4. ASSUME NEW k, NEW n
      PROVE  AssertedBy(k, n)' =
               IF label[k] = n /\ asserted[k] = n THEN AssertedBy(k, n) + cost
                                                  ELSE AssertedBy(k, n)
  <2>1. Asserted(charges', memory', k, n) =
          IF label[k] = n /\ asserted[k] = n THEN Asserted(charges, memory, k, n) \cup {new}
                                             ELSE Asserted(charges, memory, k, n)
    BY <1>a, <1>1 DEF Asserted
  <2>2. Asserted(charges, memory, k, n) \in SUBSET DOMAIN charges
    BY <1>a, <1>1 DEF Asserted
  <2>. QED
    BY <1>2, <2>1, <2>2, SpendIsSum, SpendIsSumAfter
<1>. QED
  BY <1>3, <1>4

\* Without a new charge, the totals of what is still counted do not grow.
LEMMA SpendShrinks ==
  ASSUME TypeOK, charges' = charges, memory' \subseteq memory
  PROVE  /\ TotalSpend' \in Nat /\ TotalSpend' <= TotalSpend
         /\ \A k, n : AssertedBy(k, n)' \in Nat /\ AssertedBy(k, n)' <= AssertedBy(k, n)
<1>1. charges \in Seq(Charge) /\ memory \in SUBSET DOMAIN charges
  BY DEF TypeOK
<1>2. ASSUME NEW S \in SUBSET memory, NEW R \in SUBSET S
      PROVE  /\ SumFunctionOnSet(Cost(charges), R) \in Nat
             /\ SumFunctionOnSet(Cost(charges), R) <= SumFunctionOnSet(Cost(charges), S)
  BY <1>1, SpendType
<1>3. \A k, n :
        /\ Asserted(charges, memory', k, n) \in SUBSET Asserted(charges, memory, k, n)
        /\ Asserted(charges, memory, k, n) \in SUBSET memory
  BY DEF Asserted
<1>. QED
  BY <1>2, <1>3, SpendIsSum, SpendIsSumAfter

-----------------------------------------------------------------------------
(* What a restart reads back was counted before. *)

LoadedIsCounted == LoadSpend \subseteq memory

LEMMA LoadGrows ==
  ASSUME TypeOK, LoadedIsCounted,
         NEW work \in Works, NEW cost \in Nat, NEW label \in Labels,
         NEW asserted \in Labels, NEW id \in Ids \cup {NoId}, NEW onDisk \in BOOLEAN,
         RecordSpend(work, cost, label, asserted, id, onDisk)
  PROVE  LoadedIsCounted'
<1> DEFINE new == Len(charges) + 1
<1>a. daily \subseteq DOMAIN charges /\ Len(charges) \in Nat
  BY DEF TypeOK
<1>1. /\ DOMAIN charges = 1 .. Len(charges)
      /\ memory' = memory \cup {new}
      /\ \A i \in 1 .. Len(charges) : charges'[i] = charges[i]
  BY RecordSpendType
<1>2. daily \subseteq daily' /\ daily' \subseteq daily \cup {new}
  BY DEF RecordSpend
<1>3. ASSUME NEW i \in daily', i # new,
             \A j \in daily' : j < i => DedupKey(j)' # DedupKey(i)'
      PROVE  i \in memory
  <2>1. i \in daily
    BY <1>2, <1>3
  <2>2. \A j \in daily : DedupKey(j)' = DedupKey(j)
    BY <1>a, <1>1 DEF DedupKey
  <2>. QED
    BY <1>2, <1>3, <2>1, <2>2 DEF LoadedIsCounted, LoadSpend
<1>. QED
  BY <1>1, <1>3 DEF LoadedIsCounted, LoadSpend

LEMMA NextLoaded == TypeOK /\ LoadedIsCounted /\ [Next]_vars => LoadedIsCounted'
<1> SUFFICES ASSUME TypeOK, LoadedIsCounted, [Next]_vars PROVE LoadedIsCounted'
  OBVIOUS
<1>1. ASSUME UNCHANGED <<charges, memory, daily>>
      PROVE  LoadedIsCounted'
  BY <1>1 DEF LoadedIsCounted, LoadSpend, DedupKey
<1>2. ASSUME NEW id \in Ids, NEW cost \in Costs, NEW work \in Works,
             NEW to \in Labels, NEW onDisk \in BOOLEAN, Commit(id, cost, work, to, onDisk)
      PROVE  LoadedIsCounted'
  <2>1. AfterCleanup[id].label \in Labels
    BY AfterCleanupType DEF Reservation
  <2>. QED
    BY <1>2, <2>1, LoadGrows DEF Commit
<1>3. ASSUME NEW cost \in Costs, NEW work \in Works, NEW label \in Labels,
             NEW onDisk \in BOOLEAN,
             RecordUnreservedSpend(work, cost, label, onDisk)
      PROVE  LoadedIsCounted'
  BY <1>3, LoadGrows DEF RecordUnreservedSpend
<1>4. CASE Restart
  BY <1>4 DEF Restart, LoadedIsCounted, LoadSpend, DedupKey
<1>. QED
  BY <1>1, <1>2, <1>3, <1>4
     DEF Next, Reserve, ReserveRefused, CommitRefused, CleanupExpired, Release,
         Tick, vars, ledger

LEMMA AlwaysLoaded == Spec => []LoadedIsCounted
<1>1. Init => LoadedIsCounted
  BY DEF Init, LoadedIsCounted, LoadSpend
<1>. QED
  BY <1>1, NextLoaded, TypeCorrect, PTL DEF Spec

\* A persisted charge that is the only one of its call, cost and millisecond
\* is counted, however often loadSpend has run since.
THEOREM Survival == Spec => []UniqueChargesSurvive
<1>1. TypeOK /\ LoadedIsCounted => UniqueChargesSurvive
  <2> SUFFICES ASSUME TypeOK, LoadedIsCounted, NEW i \in daily, i \notin memory
               PROVE  \E j \in daily \ {i} : /\ charges[j].time = charges[i].time
                                             /\ charges[j].work = charges[i].work
                                             /\ charges[j].cost = charges[i].cost
    BY DEF UniqueChargesSurvive
  <2>1. PICK j \in daily : j < i /\ DedupKey(j) = DedupKey(i)
    BY DEF LoadedIsCounted, LoadSpend
  <2>2. j # i
    BY <2>1 DEF TypeOK
  <2>. QED
    BY <2>1, <2>2 DEF DedupKey
<1>. QED
  BY <1>1, AlwaysLoaded, TypeCorrect, PTL

-----------------------------------------------------------------------------
(* The caps. *)

\* What is within a cap stays within it when it shrinks.
LEMMA ExceedsMore ==
  ASSUME NEW k \in Kinds, NEW n, NEW less \in Nat, NEW more \in Nat, less <= more,
         ~ Exceeds(Caps[k], n, more)
  PROVE  ~ Exceeds(Caps[k], n, less)
BY DEF Exceeds

LEMMA SpendByType ==
  ASSUME TypeOK
  PROVE  /\ TotalSpend \in Nat
         /\ \A k, n : /\ SpendBy(k, n) \in Nat /\ AssertedBy(k, n) \in Nat
                       /\ AssertedBy(k, n) <= SpendBy(k, n)
<1>1. charges \in Seq(Charge) /\ memory \in SUBSET DOMAIN charges
  BY DEF TypeOK
<1>2. \A k, n : /\ By(charges, memory, k, n) \in SUBSET DOMAIN charges
                /\ Asserted(charges, memory, k, n) \in SUBSET By(charges, memory, k, n)
  BY <1>1 DEF By, Asserted
<1>. QED
  BY <1>1, <1>2, SpendType, SpendIsSum

LEMMA CapsKept ==
  ASSUME TypeOK, CapsHold, charges' = charges, memory' \subseteq memory
  PROVE  CapsHold'
<1>1. ASSUME NEW k \in Kinds, NEW l \in Labels
      PROVE  ~ Exceeds(Caps[k], l[k], AssertedBy(k, l[k])')
  BY ExceedsMore, SpendByType, SpendShrinks DEF CapsHold
<1>. QED
  BY <1>1 DEF CapsHold, Exceeds

\* A charge of which the caps were asserted leaves the spend within them: all
\* the spend of the label was within its cap, hence the asserted part too.
LEMMA CapsGrow ==
  ASSUME TypeOK, CapsHold,
         NEW work \in Works, NEW cost \in Nat, NEW label \in Labels,
         NEW asserted \in Labels, NEW id \in Ids \cup {NoId}, NEW onDisk \in BOOLEAN,
         RecordSpend(work, cost, label, asserted, id, onDisk),
         CapsAllow(asserted, cost)
  PROVE  CapsHold'
<1>1. ASSUME NEW k \in Kinds, NEW l \in Labels
      PROVE  ~ Exceeds(Caps[k], l[k], AssertedBy(k, l[k])')
  <2>1. CASE label[k] = l[k] /\ asserted[k] = l[k]
    <3>1. AssertedBy(k, l[k])' = AssertedBy(k, l[k]) + cost
      BY <2>1, SpendGrows
    <3>2. ~ Exceeds(Caps[k], l[k], SpendBy(k, l[k]) + cost)
      BY <2>1 DEF CapsAllow
    <3>3. /\ AssertedBy(k, l[k]) \in Nat /\ SpendBy(k, l[k]) \in Nat
          /\ AssertedBy(k, l[k]) <= SpendBy(k, l[k])
      BY SpendByType
    <3>4. PICK a \in Nat, s \in Nat :
            a = AssertedBy(k, l[k])' /\ s = SpendBy(k, l[k]) + cost /\ a <= s
      BY <3>1, <3>3
    <3>. QED
      BY <3>2, <3>4, ExceedsMore
  <2>2. CASE ~ (label[k] = l[k] /\ asserted[k] = l[k])
    BY <2>2, SpendGrows DEF CapsHold
  <2>. QED
    BY <2>1, <2>2
<1>. QED
  BY <1>1 DEF CapsHold, Exceeds

LEMMA NextCapsHold ==
  TypeOK /\ LoadedIsCounted /\ CapsHold /\ [Next]_vars => CapsHold'
<1> SUFFICES ASSUME TypeOK, LoadedIsCounted, CapsHold, [Next]_vars PROVE CapsHold'
  OBVIOUS
<1>1. ASSUME UNCHANGED <<charges, memory>>
      PROVE  CapsHold'
  BY <1>1, CapsKept
<1>2. ASSUME NEW id \in Ids, NEW cost \in Costs, NEW work \in Works,
             NEW to \in Labels, NEW onDisk \in BOOLEAN, Commit(id, cost, work, to, onDisk)
      PROVE  CapsHold'
  <2>1. AfterCleanup[id].label \in Labels
    BY AfterCleanupType DEF Reservation
  <2>. QED
    BY <1>2, <2>1, CapsGrow DEF Commit
<1>3. ASSUME NEW cost \in Costs, NEW work \in Works, NEW label \in Labels,
             NEW onDisk \in BOOLEAN,
             RecordUnreservedSpend(work, cost, label, onDisk)
      PROVE  CapsHold'
  BY <1>3, CapsGrow DEF RecordUnreservedSpend
<1>4. CASE Restart
  BY <1>4, CapsKept DEF Restart, LoadedIsCounted
<1>. QED
  BY <1>1, <1>2, <1>3, <1>4
     DEF Next, Reserve, ReserveRefused, CommitRefused, CleanupExpired, Release,
         Tick, vars, ledger

\* No resolver and no scope spends more than its cap on charges whose cap was
\* asserted: commit asserts the caps of the reservation and
\* recordUnreservedSpend those of the entry, both on the actual cost and on all
\* that the label has spent, and a restart never counts more than was counted
\* before it.  What a commit moves to another label stays out of this bound.
THEOREM Capped == Spec => []CapsHold
<1>1. Init => CapsHold
  <2> SUFFICES ASSUME Init, NEW k \in Kinds, NEW l \in Labels
               PROVE  ~ Exceeds(Caps[k], l[k], AssertedBy(k, l[k]))
    BY DEF CapsHold
  <2>1. Asserted(charges, memory, k, l[k]) = {}
    BY DEF Init, Asserted
  <2>2. AssertedBy(k, l[k]) = 0
    BY <2>1, SpendIsSum, SumEmpty
  <2>. QED
    BY <2>2 DEF Exceeds
<1>. QED
  BY <1>1, NextCapsHold, AlwaysLoaded, TypeCorrect, PTL DEF Spec

-----------------------------------------------------------------------------
(* The ledger implements the abstract account. *)

\* Only finitely many reservations are live, so that their sum is defined.
FinitelyLive == IsFiniteSet(Live(reservations))

Held(res) == [id \in Ids |-> res[id].reserved]

\* The money held by the live reservations of a reservation map.
LEMMA HeldType ==
  ASSUME NEW res \in [Ids -> Reservation], IsFiniteSet(Live(res))
  PROVE  ReservedIn(res) \in Nat /\ \A id \in Live(res) : res[id].reserved \in Nat
<1>1. \A id \in Live(res) : Held(res)[id] \in Nat /\ res[id].reserved \in Nat
  BY DEF Live, Held, Reservation
<1>. QED
  BY <1>1, SumType DEF ReservedIn, Held

\* When nothing new is held and no amount changes, the money held shrinks.
LEMMA HeldShrinks ==
  ASSUME NEW res \in [Ids -> Reservation], IsFiniteSet(Live(res)),
         NEW next \in [Ids -> Reservation], Live(next) \subseteq Live(res),
         \A id \in Live(next) : next[id].reserved = res[id].reserved
  PROVE  IsFiniteSet(Live(next)) /\ ReservedIn(next) \in 0 .. ReservedIn(res)
<1>1. IsFiniteSet(Live(next))
  BY FS_Subset
<1>2. \A id \in Live(res) : Held(res)[id] \in Nat
  BY DEF Live, Held, Reservation
<1>3. \A id \in Live(next) : Held(next)[id] = Held(res)[id]
  BY DEF Live, Held
<1>4. SumFunctionOnSet(Held(next), Live(next)) = SumFunctionOnSet(Held(res), Live(next))
  BY <1>1, <1>3, SumCongruence
<1>5. SumFunctionOnSet(Held(res), Live(next)) <= SumFunctionOnSet(Held(res), Live(res))
  BY <1>2, SumMonotone
<1>6. ReservedIn(next) \in Nat /\ ReservedIn(res) \in Nat
  BY <1>1, HeldType
<1>. QED
  BY <1>1, <1>4, <1>5, <1>6 DEF ReservedIn, Held

\* A new live reservation adds its amount to the money held.
LEMMA HeldGrows ==
  ASSUME NEW res \in [Ids -> Reservation], IsFiniteSet(Live(res)),
         NEW id \in Ids, id \notin Live(res),
         NEW new \in Reservation, new.status = "reserved"
  PROVE  /\ IsFiniteSet(Live([res EXCEPT ![id] = new]))
         /\ ReservedIn([res EXCEPT ![id] = new]) = ReservedIn(res) + new.reserved
<1> DEFINE next == [res EXCEPT ![id] = new]
<1>1. next \in [Ids -> Reservation] /\ Live(next) = Live(res) \cup {id}
  BY DEF Live
<1>2. IsFiniteSet(Live(next))
  <2>1. IsFiniteSet(Live(res) \cup {id})
    BY FS_AddElement
  <2>. QED
    BY <1>1, <2>1
<1>3. /\ \A i \in Live(res) : Held(next)[i] = Held(res)[i]
      /\ Held(next)[id] = new.reserved
  BY DEF Live, Held
<1>4. \A i \in Live(next) : Held(next)[i] \in Nat
  BY <1>1 DEF Live, Held, Reservation
<1>. HIDE DEF next
<1>5. SumFunctionOnSet(Held(next), Live(next)) =
        new.reserved + SumFunctionOnSet(Held(next), Live(res))
  BY <1>1, <1>3, <1>4, SumAdd
<1>6. SumFunctionOnSet(Held(next), Live(res)) = SumFunctionOnSet(Held(res), Live(res))
  BY <1>3, SumCongruence
<1>7. ReservedIn(res) \in Nat /\ new.reserved \in Nat
  BY HeldType DEF Reservation
<1>. QED
  BY <1>2, <1>5, <1>6, <1>7 DEF next, ReservedIn, Held

\* Ending a live reservation takes its amount off the money held.
LEMMA HeldEnds ==
  ASSUME NEW res \in [Ids -> Reservation], IsFiniteSet(Live(res)),
         NEW id \in Live(res),
         NEW next \in [Ids -> Reservation], Live(next) = Live(res) \ {id},
         \A i \in Live(next) : next[i].reserved = res[i].reserved
  PROVE  /\ IsFiniteSet(Live(next))
         /\ res[id].reserved \in Nat /\ ReservedIn(next) \in Nat
         /\ ReservedIn(res) = ReservedIn(next) + res[id].reserved
<1>1. IsFiniteSet(Live(next))
  BY FS_Subset
<1>2. \A i \in Live(res) : Held(res)[i] \in Nat
  BY DEF Live, Held, Reservation
<1>3. \A i \in Live(next) : Held(next)[i] = Held(res)[i]
  BY DEF Live, Held
<1>4. SumFunctionOnSet(Held(next), Live(next)) = SumFunctionOnSet(Held(res), Live(next))
  BY <1>1, <1>3, SumCongruence
<1>5. SumFunctionOnSet(Held(res), Live(res)) =
        Held(res)[id] + SumFunctionOnSet(Held(res), Live(next))
  BY <1>2, SumRemove
<1>6. ReservedIn(next) \in Nat /\ res[id].reserved \in Nat /\ Held(res)[id] = res[id].reserved
  BY <1>1, HeldType DEF Live, Held
<1>. QED
  BY <1>1, <1>4, <1>5, <1>6 DEF ReservedIn, Held

\* Expiring what has lapsed.
LEMMA HeldAfterCleanup ==
  ASSUME TypeOK, FinitelyLive
  PROVE  /\ IsFiniteSet(Live(AfterCleanup))
         /\ ReservedIn(AfterCleanup) \in 0 .. ReservedIn(reservations)
<1>1. /\ reservations \in [Ids -> Reservation] /\ AfterCleanup \in [Ids -> Reservation]
      /\ Live(AfterCleanup) \subseteq Live(reservations)
      /\ \A id \in Live(AfterCleanup) : AfterCleanup[id].reserved = reservations[id].reserved
  BY AfterCleanupType DEF TypeOK, Live, Lapsed
<1>. QED
  BY <1>1, HeldShrinks DEF FinitelyLive

LEMMA ReserveHolds ==
  ASSUME TypeOK, FinitelyLive,
         NEW id \in Ids, NEW amount \in Costs, NEW label \in Labels,
         NEW ttl \in Ttls, Reserve(id, amount, label, ttl)
  PROVE  FinitelyLive' /\ Account!Hold
<1> DEFINE new == [status |-> "reserved", reserved |-> amount, committed |-> 0,
                   expires |-> ExpiresAt(ttl), label |-> label]
<1>1. new \in Reservation /\ new.status = "reserved" /\ new.reserved = amount
  BY DEF Reservation, Statuses, ExpiresAt, TypeOK
<1>2. /\ reservations' = [AfterCleanup EXCEPT ![id] = new]
      /\ UNCHANGED <<charges, memory, overrun>>
      /\ TotalSpend + ReservedIn(AfterCleanup) + amount <= MaxBudget
  BY DEF Reserve, Admits
<1>3. AfterCleanup \in [Ids -> Reservation] /\ id \notin Live(AfterCleanup)
  BY AfterCleanupType DEF Reserve, Live, Lapsed
<1>. HIDE DEF new
<1>4. /\ IsFiniteSet(Live(reservations'))
      /\ ReservedIn(reservations') = ReservedIn(AfterCleanup) + amount
  BY <1>1, <1>2, <1>3, HeldAfterCleanup, HeldGrows
<1>5. TotalSpend \in Nat /\ ReservedIn(AfterCleanup) \in Nat /\ amount \in Nat
  BY <1>3, SpendByType, HeldAfterCleanup, HeldType
<1>6. TotalSpend' = TotalSpend
  BY <1>2 DEF TotalSpend, SpendOf
<1>7. ReservedIn(reservations)' = ReservedIn(reservations')
  BY DEF ReservedIn, Live
<1>8. Live(reservations)' = Live(reservations')
  BY DEF Live
<1>9. /\ ReservedIn(reservations)' \in Nat
      /\ TotalSpend + ReservedIn(reservations)' <= MaxBudget
  BY <1>2, <1>4, <1>5, <1>7
<1>. QED
  BY <1>2, <1>4, <1>6, <1>8, <1>9 DEF FinitelyLive, Account!Hold

\* What leaves the history alone and holds nothing new drops holds.
LEMMA Drops ==
  ASSUME TypeOK, FinitelyLive,
         reservations' \in [Ids -> Reservation],
         Live(reservations') \subseteq Live(reservations),
         \A id \in Live(reservations') : reservations'[id].reserved = reservations[id].reserved,
         UNCHANGED <<charges, memory, overrun>>
  PROVE  FinitelyLive' /\ Account!Drop
<1>1. /\ IsFiniteSet(Live(reservations'))
      /\ ReservedIn(reservations') \in 0 .. ReservedIn(reservations)
  BY HeldShrinks DEF FinitelyLive, TypeOK
<1>2. /\ ReservedIn(reservations)' = ReservedIn(reservations')
      /\ Live(reservations)' = Live(reservations')
  BY DEF ReservedIn, Live
<1>3. TotalSpend' = TotalSpend
  BY DEF TotalSpend, SpendOf
<1>. QED
  BY <1>1, <1>2, <1>3 DEF FinitelyLive, Account!Drop

LEMMA CleanupDrops ==
  ASSUME TypeOK, FinitelyLive, CleanupExpired
  PROVE  FinitelyLive' /\ Account!Drop
<1>1. /\ reservations' = AfterCleanup /\ UNCHANGED <<charges, memory, overrun>>
      /\ AfterCleanup \in [Ids -> Reservation]
  BY AfterCleanupType DEF CleanupExpired
<1>2. /\ Live(reservations') \subseteq Live(reservations)
      /\ \A id \in Live(reservations') : reservations'[id].reserved = reservations[id].reserved
  BY <1>1, AfterCleanupType DEF Live, Lapsed
<1>. QED
  BY <1>1, <1>2, Drops

\* A commit settles the amount its reservation held.
LEMMA CommitSettles ==
  ASSUME TypeOK, FinitelyLive,
         NEW id \in Ids, NEW cost \in Costs, NEW work \in Works,
         NEW to \in Labels, NEW onDisk \in BOOLEAN, Commit(id, cost, work, to, onDisk)
  PROVE  FinitelyLive' /\ Account!Settle
<1> DEFINE r == AfterCleanup[id].reserved
<1>1. /\ AfterCleanup \in [Ids -> Reservation]
      /\ AfterCleanup[id].status = "reserved"
      /\ AfterCleanup[id].label \in Labels
      /\ reservations' = [AfterCleanup EXCEPT ![id].status = "committed",
                                              ![id].committed = cost]
      /\ RecordSpend(work, cost, to, AfterCleanup[id].label, id, onDisk)
      /\ overrun' = overrun + Excess(cost, r)
  BY AfterCleanupType DEF Commit, Reservation
<1>2. /\ reservations' \in [Ids -> Reservation]
      /\ id \in Live(AfterCleanup)
      /\ Live(reservations') = Live(AfterCleanup) \ {id}
      /\ \A i \in Live(reservations') : reservations'[i].reserved = AfterCleanup[i].reserved
  BY <1>1 DEF Live, Reservation, Statuses
<1>a. /\ IsFiniteSet(Live(AfterCleanup))
      /\ ReservedIn(AfterCleanup) \in 0 .. ReservedIn(reservations)
  BY HeldAfterCleanup
<1>b. AfterCleanup \in [Ids -> Reservation] /\ id \in Live(AfterCleanup)
  BY <1>1, <1>2
<1>3. /\ IsFiniteSet(Live(reservations'))
      /\ r \in Nat /\ ReservedIn(reservations') \in Nat
      /\ ReservedIn(AfterCleanup) = ReservedIn(reservations') + r
  <2>1. ASSUME NEW next \in [Ids -> Reservation], Live(next) = Live(AfterCleanup) \ {id},
               \A i \in Live(next) : next[i].reserved = AfterCleanup[i].reserved
        PROVE  /\ IsFiniteSet(Live(next))
               /\ r \in Nat /\ ReservedIn(next) \in Nat
               /\ ReservedIn(AfterCleanup) = ReservedIn(next) + r
    BY <1>a, <1>b, <2>1, HeldEnds
  <2>. HIDE DEF r
  <2>. QED
    BY <1>2, <2>1
<1>4. /\ ReservedIn(reservations)' = ReservedIn(reservations')
      /\ Live(reservations)' = Live(reservations')
  BY DEF ReservedIn, Live
<1>5. /\ TotalSpend \in Nat /\ cost \in Nat /\ TotalSpend' = TotalSpend + cost
  BY <1>1, SpendByType, SpendGrows
<1>6. ReservedIn(reservations) \in Nat
  BY HeldType DEF TypeOK, FinitelyLive
<1>7. Account!Excess(TotalSpend' - TotalSpend, r) = Excess(cost, r)
  BY <1>5 DEF Excess, Account!Excess
<1>. HIDE DEF r
<1>8. /\ r \in 0 .. ReservedIn(reservations)
      /\ ReservedIn(reservations)' \in 0 .. (ReservedIn(reservations) - r)
      /\ TotalSpend' \in Nat /\ TotalSpend' >= TotalSpend
  BY <1>a, <1>3, <1>4, <1>5, <1>6
<1>. QED
  BY <1>1, <1>3, <1>4, <1>7, <1>8 DEF FinitelyLive, Account!Settle, r

\* Unreserved spend settles nothing held: all of it is overrun.
LEMMA UnreservedSettles ==
  ASSUME TypeOK, FinitelyLive,
         NEW cost \in Costs, NEW work \in Works, NEW label \in Labels,
         NEW onDisk \in BOOLEAN, RecordUnreservedSpend(work, cost, label, onDisk)
  PROVE  FinitelyLive' /\ Account!Settle
<1>1. /\ reservations' = reservations
      /\ RecordSpend(work, cost, label, label, NoId, onDisk)
      /\ overrun' = overrun + cost
  BY DEF RecordUnreservedSpend
<1>2. /\ TotalSpend \in Nat /\ cost \in Nat /\ TotalSpend' = TotalSpend + cost
  BY <1>1, SpendByType, SpendGrows
<1>3. /\ ReservedIn(reservations)' = ReservedIn(reservations)
      /\ Live(reservations)' = Live(reservations)
  BY <1>1 DEF ReservedIn, Live
<1>4. ReservedIn(reservations) \in Nat
  BY HeldType DEF TypeOK, FinitelyLive
<1>5. Account!Excess(TotalSpend' - TotalSpend, 0) = cost
  BY <1>2 DEF Account!Excess
<1>6. /\ 0 \in 0 .. ReservedIn(reservations)
      /\ ReservedIn(reservations)' \in 0 .. (ReservedIn(reservations) - 0)
      /\ TotalSpend' \in Nat /\ TotalSpend' >= TotalSpend
  BY <1>2, <1>3, <1>4
<1>. QED
  BY <1>1, <1>3, <1>5, <1>6 DEF FinitelyLive, Account!Settle

LEMMA ReleaseDrops ==
  ASSUME TypeOK, FinitelyLive, NEW id \in Ids, Release(id)
  PROVE  FinitelyLive' /\ Account!Drop
<1>1. /\ UNCHANGED <<charges, memory, overrun>>
      /\ reservations' = [reservations EXCEPT ![id].status =
                            IF Lapsed(id) THEN "expired" ELSE "released"]
      /\ reservations \in [Ids -> Reservation]
  BY DEF Release, TypeOK
<1>2. reservations' \in [Ids -> Reservation]
  BY <1>1 DEF Reservation, Statuses
<1>3. /\ Live(reservations') \subseteq Live(reservations)
      /\ \A i \in Live(reservations') : reservations'[i].reserved = reservations[i].reserved
  BY <1>1 DEF Live, Reservation
<1>. QED
  BY <1>1, <1>2, <1>3, Drops

\* A new process holds nothing and counts no more than the old one did.
LEMMA RestartReopens ==
  ASSUME TypeOK, LoadedIsCounted, Restart
  PROVE  FinitelyLive' /\ Account!Reopen
<1>1. /\ charges' = charges /\ overrun' = overrun /\ memory' \subseteq memory
      /\ \A id \in Ids : reservations'[id].status \in {"none", "forgotten"}
  BY DEF Restart, LoadedIsCounted, NoReservation
<1>2. Live(reservations)' = {}
  BY <1>1 DEF Live
<1>3. ReservedIn(reservations)' = 0
  BY <1>2, SumEmpty DEF ReservedIn
<1>4. TotalSpend' \in 0 .. TotalSpend
  BY <1>1, SpendByType, SpendShrinks
<1>. QED
  BY <1>1, <1>2, <1>3, <1>4, FS_EmptySet DEF FinitelyLive, Account!Reopen

\* Every step of the ledger is a step of the account, or none.
LEMMA NextImplements ==
  TypeOK /\ LoadedIsCounted /\ FinitelyLive /\ [Next]_vars
    => FinitelyLive' /\ [Account!ANext]_<<TotalSpend, ReservedIn(reservations), overrun>>
<1> SUFFICES ASSUME TypeOK, LoadedIsCounted, FinitelyLive, [Next]_vars
             PROVE  /\ FinitelyLive'
                    /\ \/ Account!ANext
                       \/ UNCHANGED <<TotalSpend, ReservedIn(reservations), overrun>>
  OBVIOUS
<1>1. ASSUME UNCHANGED ledger
      PROVE  /\ FinitelyLive'
             /\ UNCHANGED <<TotalSpend, ReservedIn(reservations), overrun>>
  BY <1>1 DEF ledger, FinitelyLive, TotalSpend, SpendOf, ReservedIn, Live
<1>. QED
  BY <1>1, ReserveHolds, CleanupDrops, CommitSettles, UnreservedSettles,
     ReleaseDrops, RestartReopens
     DEF Next, ReserveRefused, CommitRefused, Tick, vars, Account!ANext

LEMMA InitImplements == Init => FinitelyLive /\ Account!AInit
<1> SUFFICES ASSUME Init PROVE FinitelyLive /\ Account!AInit
  OBVIOUS
<1>1. Live(reservations) = {}
  BY DEF Init, Live, NoReservation
<1>2. TotalSpend = 0 /\ ReservedIn(reservations) = 0
  BY <1>1, SpendIsSum, SumEmpty DEF Init, ReservedIn
<1>. QED
  BY <1>1, <1>2, FS_EmptySet DEF Init, FinitelyLive, Account!AInit

\* The ledger implements the abstract account: a reservation is a hold, every
\* commit settles what was held for it, and a restart invents no money.
THEOREM Implementation == Spec => ImplementsAccount
BY InitImplements, NextImplements, AlwaysLoaded, TypeCorrect, PTL
   DEF Spec, ImplementsAccount, Account!ASpec, Account!avars

-----------------------------------------------------------------------------
(* The account keeps its ceiling, and with it the ledger. *)

\* The amounts of the account that the ledger implements stay naturals.
THEOREM AccountTypeCorrect == Account!ASpec => []Account!ATypeOK
<1>1. Account!AInit => Account!ATypeOK
  BY DEF Account!AInit, Account!ATypeOK
<1>2. Account!ATypeOK /\ [Account!ANext]_(Account!avars) => Account!ATypeOK'
  <2> SUFFICES ASSUME Account!ATypeOK, [Account!ANext]_(Account!avars)
               PROVE  Account!ATypeOK'
    OBVIOUS
  <2>1. CASE Account!Hold
    BY <2>1 DEF Account!Hold, Account!ATypeOK
  <2>2. CASE Account!Drop
    BY <2>2 DEF Account!Drop, Account!ATypeOK
  <2>3. CASE Account!Settle
    <3>1. PICK r \in 0 .. ReservedIn(reservations) :
            /\ ReservedIn(reservations)' \in 0 .. (ReservedIn(reservations) - r)
            /\ TotalSpend' \in Nat
            /\ overrun' = overrun + Account!Excess(TotalSpend' - TotalSpend, r)
      BY <2>3 DEF Account!Settle
    <3>2. PICK s \in Nat : TotalSpend' = s
      BY <3>1
    <3>3. Account!Excess(s - TotalSpend, r) \in Nat
      BY DEF Account!Excess, Account!ATypeOK
    <3>4. ReservedIn(reservations)' \in Nat
      BY <3>1 DEF Account!ATypeOK
    <3>. QED
      BY <3>1, <3>2, <3>3, <3>4 DEF Account!ATypeOK
  <2>4. CASE Account!Reopen
    BY <2>4 DEF Account!Reopen, Account!ATypeOK
  <2>5. CASE UNCHANGED Account!avars
    BY <2>5 DEF Account!avars, Account!ATypeOK
  <2>. QED
    BY <2>1, <2>2, <2>3, <2>4, <2>5 DEF Account!ANext
<1>. QED
  BY <1>1, <1>2, PTL DEF Account!ASpec

\* Spend plus holds never exceeds the budget by more than the money that was
\* spent without being held: what the account promises of reserve and commit.
THEOREM AccountWithinBudget == Account!ASpec => []Account!WithinBudget
<1>1. Account!AInit => Account!WithinBudget
  BY DEF Account!AInit, Account!WithinBudget
<1>2. Account!ATypeOK /\ Account!ATypeOK' /\ Account!WithinBudget
        /\ [Account!ANext]_(Account!avars) => Account!WithinBudget'
  <2> SUFFICES ASSUME Account!ATypeOK, Account!ATypeOK', Account!WithinBudget,
                      [Account!ANext]_(Account!avars)
               PROVE  Account!WithinBudget'
    OBVIOUS
  <2>0. PICK s \in Nat, h \in Nat, o \in Nat :
          TotalSpend' = s /\ ReservedIn(reservations)' = h /\ overrun' = o
    BY DEF Account!ATypeOK
  <2>a. SUFFICES s + h <= MaxBudget + o
    BY <2>0 DEF Account!WithinBudget
  <2>1. CASE Account!Hold
    BY <2>0, <2>1 DEF Account!Hold, Account!ATypeOK, Account!WithinBudget
  <2>2. CASE Account!Drop
    BY <2>0, <2>2 DEF Account!Drop, Account!ATypeOK, Account!WithinBudget
  <2>3. CASE Account!Settle
    <3>1. PICK r \in 0 .. ReservedIn(reservations) :
            /\ h \in 0 .. (ReservedIn(reservations) - r)
            /\ s >= TotalSpend
            /\ o = overrun + Account!Excess(s - TotalSpend, r)
      BY <2>0, <2>3 DEF Account!Settle
    <3>. QED
      BY <3>1 DEF Account!Excess, Account!ATypeOK, Account!WithinBudget
  <2>4. CASE Account!Reopen
    BY <2>0, <2>4 DEF Account!Reopen, Account!ATypeOK, Account!WithinBudget
  <2>5. CASE UNCHANGED Account!avars
    BY <2>0, <2>5 DEF Account!avars, Account!ATypeOK, Account!WithinBudget
  <2>. QED
    BY <2>1, <2>2, <2>3, <2>4, <2>5 DEF Account!ANext
<1>. QED
  BY <1>1, <1>2, AccountTypeCorrect, PTL DEF Account!ASpec

\* Spend plus live reservations stays within the budget, up to the money that
\* was never reserved: the ledger inherits it from the account it implements.
THEOREM WithinBudget == Spec => []BudgetRespected
<1>1. Account!WithinBudget <=> BudgetRespected
  BY DEF BudgetRespected
<1>. QED
  BY <1>1, Implementation, AccountWithinBudget, PTL DEF ImplementsAccount
=============================================================================
