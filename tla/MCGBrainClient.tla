--------------------------- MODULE MCGBrainClient ---------------------------
(***************************************************************************)
(* GBrainClient for TLC: three concurrent requests, a threshold of two.    *)
(***************************************************************************)
EXTENDS GBrainClient, TLC

MCBackoff == [n \in 0 .. MaxRetries |-> 2 ^ n]

RequestSymmetry == Permutations(Requests)
=============================================================================
