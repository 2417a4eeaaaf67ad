------------------------- MODULE MCReceiptRegistry -------------------------
(***************************************************************************)
(* ReceiptRegistry for TLC.                                                *)
(***************************************************************************)
EXTENDS ReceiptRegistry, TLC

ProcSymmetry == Permutations(Procs)
=============================================================================
