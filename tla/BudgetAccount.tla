--------------------------- MODULE BudgetAccount ---------------------------
(***************************************************************************)
(* What the budget ledger of src/core/budget-ledger.ts promises, without   *)
(* its reservations, caps and files: an account with a ceiling in which    *)
(* money is first held and later spent.  Holding is refused above the      *)
(* ceiling; spending is not, so an account can end above the ceiling by    *)
(* exactly what was spent without having been held (`overrun').            *)
(* BudgetLedger is shown to implement it.                                  *)
(***************************************************************************)
EXTENDS Integers

CONSTANT MaxBudget   \* the ceiling, config.maxBudgetUsd

VARIABLES spent,     \* money recorded as spent
          held,      \* money held by live reservations
          overrun    \* money spent beyond what had been held for it

avars == <<spent, held, overrun>>

ATypeOK == spent \in Nat /\ held \in Nat /\ overrun \in Nat

AInit == spent = 0 /\ held = 0 /\ overrun = 0

Excess(cost, amount) == IF cost > amount THEN cost - amount ELSE 0

\* More money is held (while stale holds lapse): only below the ceiling.
Hold == /\ held' \in Nat
        /\ spent + held' <= MaxBudget
        /\ UNCHANGED <<spent, overrun>>

\* Holds lapse or are given back.
Drop == /\ held' \in 0 .. held
        /\ UNCHANGED <<spent, overrun>>

\* A hold of r turns into a cost; what exceeds r is overrun.
Settle == \E r \in 0 .. held :
            /\ held' \in 0 .. (held - r)
            /\ spent' \in Nat
            /\ spent' >= spent
            /\ overrun' = overrun + Excess(spent' - spent, r)

\* The process restarts: no hold survives, and no money is invented.
Reopen == /\ held' = 0
          /\ spent' \in 0 .. spent
          /\ UNCHANGED overrun

ANext == Hold \/ Drop \/ Settle \/ Reopen

ASpec == AInit /\ [][ANext]_avars

\* The ceiling: what is spent and held stays within the budget, up to the
\* money that was spent without being held first.
WithinBudget == spent + held <= MaxBudget + overrun
=============================================================================
