---------------------------- MODULE MCLLMClient ----------------------------
(***************************************************************************)
(* Instances of LLMClient for TLC: two tasks of one capped client and one  *)
(* provider model.  One tick is the timeout of an attempt.                 *)
(***************************************************************************)
EXTENDS LLMClient, TLC

CONSTANTS auth, defense   \* a resolver and a scope

MCLabel == [resolver |-> auth, scope |-> defense]
MCLabels == {MCLabel}
MCLabelOf == [t \in Tasks |-> MCLabel]

MCCaps == [resolver |-> (auth :> 2), scope |-> (AnyName :> 4)]

NoCaps == [resolver |-> <<>>, scope |-> <<>>]

\* One process that does not crash.
UninterruptedSpec ==
  LInit /\ [][(\E t \in Tasks : Step(t)) \/ PollStatus \/ LTick]_lvars

=============================================================================
