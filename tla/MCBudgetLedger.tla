--------------------------- MODULE MCBudgetLedger ---------------------------
(***************************************************************************)
(* Instances of BudgetLedger for TLC: two resolvers in one scope, the      *)
(* first resolver capped by name, the scope through the '*' entry.         *)
(***************************************************************************)
EXTENDS BudgetLedger, TLC

CONSTANTS auth, vuln, defense   \* two resolvers and a scope

MCLabels == {[resolver |-> auth, scope |-> defense],
             [resolver |-> vuln, scope |-> defense]}

MCCaps == [resolver |-> (auth :> 2), scope |-> (AnyName :> 3)]

IdSymmetry == Permutations(Ids)
=============================================================================
