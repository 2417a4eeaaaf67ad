------------------------------ MODULE MCServe ------------------------------
(***************************************************************************)
(* Serve for TLC.                                                          *)
(***************************************************************************)
EXTENDS Serve, TLC

MCClient == {"alice", "bob"}
=============================================================================
