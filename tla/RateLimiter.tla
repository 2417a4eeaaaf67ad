---------------------------- MODULE RateLimiter ----------------------------
(***************************************************************************)
(* FixedWindowRateLimiter of src/core/security.ts, as operators over the   *)
(* value of its map.  The HTTP server has two of them, the MCP server one. *)
(***************************************************************************)
EXTENDS Integers, Sequences, FiniteSets, SequencesExt

CONSTANTS Identity,            \* the strings check is asked about
          PerMinute, PerHour,  \* the limits
          Minute, Hour,        \* the lengths of the windows
          MaxEntries           \* GTOM_RATE_LIMIT_MAX_ENTRIES

\* The map as the sequence of its entries, in the order of their insertion.
Window == [id : Identity, minuteCount : Nat, minuteStart : Nat,
           hourCount : Nat, hourStart : Nat]

NewWindow(id, now) == [id |-> id, minuteCount |-> 0, minuteStart |-> now,
                       hourCount |-> 0, hourStart |-> now]

Live(w, now) == now - w.hourStart < Hour

\* The entries of usage at the indices in I, in their order.
Entries(usage, I) ==
  [j \in 1 .. Cardinality(I) |->
     usage[CHOOSE i \in I : Cardinality({k \in I : k <= i}) = j]]

LiveEntries(usage, now) ==
  Entries(usage, {i \in DOMAIN usage : Live(usage[i], now)})

\* Faulty variant: no room is made for the new entry.
EvictToMax(usage, now) ==
  LET live == LiveEntries(usage, now)
  IN  IF Len(live) <= MaxEntries THEN live
      ELSE SubSeq(live, Len(live) - MaxEntries + 1, Len(live))

\* evictStale: drop what has run out, then the oldest entries if it is full.
EvictStale(usage, now) ==
  LET live == LiveEntries(usage, now)
  IN  IF Len(live) < MaxEntries THEN live
      ELSE SubSeq(live, Len(live) - MaxEntries + 2, Len(live))

Known(usage, id) == \E i \in DOMAIN usage : usage[i].id = id

\* Faulty variant: a window still counts at its very end.
ElapsedLate(start, length, now) == now - start > length

Elapsed(start, length, now) == now - start >= length

\* The windows that have run out start again now.
Roll(w, now) ==
  LET m == IF Elapsed(w.minuteStart, Minute, now)
             THEN [w EXCEPT !.minuteCount = 0, !.minuteStart = now] ELSE w
  IN  IF Elapsed(w.hourStart, Hour, now)
        THEN [m EXCEPT !.hourCount = 0, !.hourStart = now] ELSE m

Exceeded(w) == w.minuteCount >= PerMinute \/ w.hourCount >= PerHour

\* Faulty variant: the counts are not written back.
CountLost(w) == w

CountOne(w) == [w EXCEPT !.minuteCount = @ + 1, !.hourCount = @ + 1]

\* check: whether a request of id may pass, and the map afterwards.  The window
\* of a known identity is rolled also when the request is refused.
Check(usage, id, now) ==
  IF Known(usage, id)
    THEN LET i == SelectInSeq(usage, LAMBDA w : w.id = id)
             w == Roll(usage[i], now)
         IN  [allowed |-> ~ Exceeded(w),
              usage |-> [usage EXCEPT ![i] = IF Exceeded(w) THEN w ELSE CountOne(w)]]
    ELSE [allowed |-> TRUE,
          usage |-> Append(EvictStale(usage, now), CountOne(NewWindow(id, now)))]
=============================================================================
