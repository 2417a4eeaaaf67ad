---------------------------- MODULE FifoSemaphore ----------------------------
(***************************************************************************)
(* What BackpressureController of src/core/performance.ts promises to the  *)
(* operations of GToM, without its counter, promises and listeners: a      *)
(* fixed number of slots, a bounded line in front of them, and no client   *)
(* ever overtakes the line.  Backpressure is shown to implement it.        *)
(***************************************************************************)
EXTENDS Naturals, Sequences, FiniteSets

CONSTANTS Clients, Slots, Places

VARIABLES holders,   \* the clients that have a slot
          line       \* the clients that wait for one, first come first

svars == <<holders, line>>

InLine == {line[i] : i \in DOMAIN line}

SInit == holders = {} /\ line = <<>>

\* A free slot is taken directly only while nobody waits.
Admit(c) == /\ c \notin holders
            /\ line = <<>>
            /\ Cardinality(holders) < Slots
            /\ holders' = holders \cup {c}
            /\ UNCHANGED line

Join(c) == /\ c \notin holders \cup InLine
           /\ Cardinality(holders) >= Slots
           /\ Len(line) < Places
           /\ line' = Append(line, c)
           /\ UNCHANGED holders

Withdraw(i) == /\ line' = SubSeq(line, 1, i - 1) \o SubSeq(line, i + 1, Len(line))
               /\ UNCHANGED holders

\* A slot that is given up goes to the first in line in the same step.
Leave(c) == \/ /\ line = <<>>
               /\ holders' = holders \ {c}
               /\ UNCHANGED line
            \/ /\ line # <<>>
               /\ holders' = (holders \ {c}) \cup {Head(line)}
               /\ line' = Tail(line)

SNext == \/ \E c \in Clients : Admit(c) \/ Join(c)
         \/ \E i \in DOMAIN line : Withdraw(i)
         \/ \E c \in holders : Leave(c)

SSpec == SInit /\ [][SNext]_svars
=============================================================================
