--------------------------- MODULE MCBackpressure ---------------------------
(***************************************************************************)
(* Backpressure for TLC: five callers, two slots, two places in the queue. *)
(***************************************************************************)
EXTENDS Backpressure, TLC

CallerSymmetry == Permutations(Callers)
=============================================================================
