---------------------------- MODULE MCGBrainSync ----------------------------
(***************************************************************************)
(* GBrainSync for TLC: two commands with a checkout, one of them full, and *)
(* one without.                                                            *)
(***************************************************************************)
EXTENDS GBrainSync, TLC

MCProcess == {"p", "q", "r"}

MCWork == "p" :> <<1>> @@ "q" :> <<1>> @@ "r" :> <<>>

MCFull == {"p"}
=============================================================================
