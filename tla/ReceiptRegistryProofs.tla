----------------------- MODULE ReceiptRegistryProofs -----------------------
(***************************************************************************)
(* ReceiptRegistry for any number of processes and of appends, and any     *)
(* faults.                                                                 *)
(*                                                                         *)
(* First, about the files as sequences of lines; then the order of the     *)
(* receipts and how a receipt may vanish, whatever the processes do and    *)
(* whatever fails; last, where writes come back, that nothing is lost or   *)
(* doubled: by one process, and by several until something is archived.    *)
(***************************************************************************)
EXTENDS ReceiptRegistry, FiniteSetTheorems, SequenceTheorems, TLAPS

USE ReceiptAssumption

-----------------------------------------------------------------------------
(* The lines that are kept, and those that are archived *)

\* The index of the j-th line of those at I.
Nth(I, j) == CHOOSE i \in I : Cardinality({k \in I : k <= i}) = j

\* The j-th index is the one that has j indices up to it.
LEMMA Ranked ==
  ASSUME NEW n \in Nat, NEW I \in SUBSET (1 .. n)
  PROVE  /\ Cardinality(I) \in Nat
         /\ \A j \in 1 .. Cardinality(I) :
              Nth(I, j) \in I /\ Cardinality({k \in I : k <= Nth(I, j)}) = j
         /\ \A i \in I : \E j \in 1 .. Cardinality(I) : Nth(I, j) = i
         /\ \A j, l \in 1 .. Cardinality(I) : j < l => Nth(I, j) < Nth(I, l)
<1> DEFINE m == Cardinality(I)
           upTo(i) == {k \in I : k <= i}
           rank == [i \in I |-> Cardinality(upTo(i))]
<1>1. IsFiniteSet(I) /\ m \in Nat
  <2>1. IsFiniteSet(1 .. n)
    BY FS_Interval
  <2>. QED
    BY <2>1, FS_Subset, FS_CardinalityType
<1>2. ASSUME NEW i \in I
      PROVE  IsFiniteSet(upTo(i)) /\ Cardinality(upTo(i)) \in 1 .. m
  <2>1. upTo(i) \in SUBSET I /\ upTo(i) # {}
    OBVIOUS
  <2>2. /\ IsFiniteSet(upTo(i))
        /\ Cardinality(upTo(i)) <= m
        /\ Cardinality(upTo(i)) \in Nat
    BY <1>1, <2>1, FS_Subset, FS_CardinalityType
  <2>3. Cardinality(upTo(i)) # 0
    BY <2>1, <2>2, FS_EmptySet
  <2>. QED
    BY <1>1, <2>2, <2>3
<1>3. ASSUME NEW i \in I, NEW h \in I, i < h
      PROVE  rank[i] < rank[h]
  <2>. i \in Nat /\ h \in Nat /\ \A k \in I : k \in Nat
    OBVIOUS
  <2>1. \A k \in I : k <= i => k <= h
    BY <1>3
  <2>2. upTo(i) \in SUBSET upTo(h)
    BY <2>1, Zenon
  <2>3. h \in upTo(h) /\ h \notin upTo(i)
    BY <1>3
  <2>4. upTo(i) # upTo(h)
    BY <2>3
  <2>5. /\ Cardinality(upTo(i)) <= Cardinality(upTo(h))
        /\ Cardinality(upTo(i)) # Cardinality(upTo(h))
    BY <1>2, <2>2, <2>4, FS_Subset
  <2>. QED
    BY <1>2, <2>5
<1>4. rank \in [I -> 1 .. m]
  BY <1>2
<1>5. \A i, h \in I : rank[i] = rank[h] => i = h
  <2>1. \A i \in I : i \in Nat /\ rank[i] \in Nat
    BY <1>4
  <2>2. \A i, h \in I : i < h => rank[i] < rank[h]
    BY <1>3, Zenon
  <2>. HIDE DEF rank
  <2>. QED
    BY <2>1, <2>2
<1>6. rank \in Injection(I, 1 .. m)
  <2>. HIDE DEF rank, m
  <2>. QED
    BY <1>4, <1>5 DEF Injection, IsInjective
<1>7. IsFiniteSet(1 .. m) /\ Cardinality(1 .. m) = m
  BY <1>1, FS_Interval
<1>8. rank \in Surjection(I, 1 .. m)
  BY <1>6, <1>7, FS_Injection
<1>9. \A j \in 1 .. m : \E i \in I : rank[i] = j
  BY <1>8 DEF Surjection
<1>10. \A j \in 1 .. m : Nth(I, j) \in I /\ rank[Nth(I, j)] = j
  <2>1. \A j \in 1 .. m : \E i \in I : Cardinality({k \in I : k <= i}) = j
    BY <1>9
  <2>. QED
    BY <2>1 DEF Nth
<1>11. \A i \in I : \E j \in 1 .. m : Nth(I, j) = i
  BY <1>4, <1>5, <1>10
<1>12. ASSUME NEW j \in 1 .. m, NEW l \in 1 .. m, j < l
       PROVE  Nth(I, j) < Nth(I, l)
  <2>1. /\ Nth(I, j) \in I /\ rank[Nth(I, j)] = j
        /\ Nth(I, l) \in I /\ rank[Nth(I, l)] = l
    BY <1>10
  <2>2. \A i, h \in I : i < h => rank[i] < rank[h]
    BY <1>3, Zenon
  <2>3. Nth(I, j) \in Nat /\ Nth(I, l) \in Nat /\ j \in Nat /\ l \in Nat
    <3>1. \A i \in I : i \in Nat
      OBVIOUS
    <3>2. Nth(I, j) \in Nat /\ Nth(I, l) \in Nat
      BY <2>1, <3>1, Zenon
    <3>3. j \in Nat /\ l \in Nat
      BY <1>1
    <3>. QED
      BY <3>2, <3>3
  <2>4. ~ (l < j) /\ l # j
    BY <1>12, <2>3
  <2>5. ~ (Nth(I, l) < Nth(I, j)) /\ Nth(I, l) # Nth(I, j)
    BY <2>1, <2>2, <2>4, Zenon
  <2>. QED
    BY <2>3, <2>5
<1>. QED
  BY <1>1, <1>10, <1>11, <1>12

\* t holds the lines of s at some of its places, in their order, where f tells
\* the place of each.
Places(t, s, f) ==
  /\ f \in [DOMAIN t -> DOMAIN s]
  /\ \A j \in DOMAIN t : t[j] = s[f[j]]
  /\ \A j, k \in DOMAIN t : j < k => f[j] < f[k]

\* Choosing lines of a file keeps their order, and takes all that are asked for.
LEMMA LinesAtPlaces ==
  ASSUME NEW W, NEW s \in Seq(W), NEW I \in SUBSET (DOMAIN s)
  PROVE  /\ LinesAt(s, I) \in Seq({s[i] : i \in I})
         /\ Range(LinesAt(s, I)) = {s[i] : i \in I}
         /\ \E f : Places(LinesAt(s, I), s, f)
<1> DEFINE m == Cardinality(I)
           f == [j \in 1 .. m |-> Nth(I, j)]
           t == [j \in 1 .. m |-> s[Nth(I, j)]]
<1>1. DOMAIN s = 1 .. Len(s) /\ Len(s) \in Nat
  OBVIOUS
<1>2. /\ m \in Nat
      /\ \A j \in 1 .. m : Nth(I, j) \in I
      /\ \A i \in I : \E j \in 1 .. m : Nth(I, j) = i
      /\ \A j, l \in 1 .. m : j < l => Nth(I, j) < Nth(I, l)
  BY <1>1, Ranked
<1>3. LinesAt(s, I) = t
  BY DEF LinesAt, Nth
<1>. HIDE DEF m
<1>4. t \in Seq({s[i] : i \in I}) /\ DOMAIN t = 1 .. m
  <2>1. t \in [1 .. m -> {s[i] : i \in I}]
    BY <1>2
  <2>. QED
    BY <1>2, <2>1
<1>5. Range(t) = {s[i] : i \in I}
  BY <1>2 DEF Range
<1>6. Places(t, s, f)
  BY <1>2, <1>4 DEF Places
<1>. QED
  BY <1>3, <1>4, <1>5, <1>6

-----------------------------------------------------------------------------
(* Lines behind a file *)

LEMMA BrokenLines ==
  /\ Garbled \notin Receipts /\ Garbled \in Lines
  /\ Lines \ {Garbled} = Receipts /\ Receipts \subseteq Lines
<1>1. \A r \in Receipts : r.by \in Procs
  BY DEF Receipts
<1>2. Garbled.by = NoProc
  BY DEF Garbled
<1>3. Garbled \notin Receipts
  BY <1>1, <1>2
<1>. QED
  BY <1>3 DEF Lines

LEMMA RangeEntries ==
  ASSUME NEW W, NEW s \in Seq(W)
  PROVE  /\ \A x : x \in Range(s) <=> \E i \in 1 .. Len(s) : s[i] = x
         /\ Range(s) \subseteq W
         /\ Len(s) \in Nat /\ DOMAIN s = 1 .. Len(s)
BY DEF Range

\* The lines of a file that nothing written behind it can join.
Firm(file, isCut) == {file[i] : i \in {j \in DOMAIN file : isCut => j # Len(file)}}

LEMMA FirmLines ==
  ASSUME NEW file \in Seq(Lines), NEW isCut \in BOOLEAN
  PROVE  /\ Firm(file, isCut) \subseteq Range(file)
         /\ \A r \in Range(file) \ Firm(file, isCut) : isCut /\ r = Last(file)
         /\ ~ isCut => Firm(file, isCut) = Range(file)
         /\ Firm(file, TRUE) \subseteq Firm(file, isCut)
<1>1. Firm(file, isCut) \subseteq Range(file)
  BY DEF Firm, Range
<1>2. ASSUME NEW r \in Range(file) \ Firm(file, isCut)
      PROVE  isCut /\ r = Last(file)
  <2>1. PICK i \in DOMAIN file : file[i] = r
    BY <1>2 DEF Range
  <2>2. isCut /\ i = Len(file)
    BY <1>2, <2>1 DEF Firm
  <2>. QED
    BY <2>1, <2>2 DEF Last
<1>3. Firm(file, TRUE) \subseteq Firm(file, isCut)
  BY DEF Firm
<1>4. ~ isCut => Firm(file, isCut) = Range(file)
  BY DEF Firm, Range
<1>. QED
  BY <1>1, <1>2, <1>3, <1>4

\* What is written behind a cut line is as long, but for that line.
LEMMA BehindCut ==
  ASSUME NEW file \in Seq(Lines), NEW lines \in Seq(Lines), file # <<>>, lines # <<>>
  PROVE  LET w == WithLines(file, TRUE, lines)
         IN  /\ w \in Seq(Lines)
             /\ Len(w) = Len(file) + Len(lines) - 1
             /\ \A i \in 1 .. Len(file) - 1 : w[i] = file[i]
             /\ w[Len(file)] = Garbled
             /\ \A k \in 2 .. Len(lines) : w[Len(file) + k - 1] = lines[k]
             /\ Len(file) \in Nat \ {0} /\ Len(lines) \in Nat \ {0}
<1> DEFINE m == Len(file)
           a == Front(file) \o <<Garbled>>
<1>1. m \in Nat \ {0} /\ Len(lines) \in Nat \ {0}
  BY EmptySeq, LenProperties
<1>3. /\ Front(file) \in Seq(Lines) /\ Len(Front(file)) = m - 1
      /\ \A i \in 1 .. m - 1 : Front(file)[i] = file[i]
  <2>0. \A i \in 1 .. m - 1 : file[i] \in Lines
    BY <1>1, ElementOfSeq
  <2>2. Front(file) = SubSeq(file, 1, m - 1)
    BY DEF Front
  <2>. HIDE DEF m
  <2>1. /\ 1 \in Int /\ m - 1 \in Int /\ (m - 1) - 1 + 1 = m - 1
        /\ (IF 1 <= m - 1 THEN (m - 1) - 1 + 1 ELSE 0) = m - 1
        /\ \A i \in 1 .. m - 1 : 1 + i - 1 = i
    BY <1>1
  <2>3. /\ SubSeq(file, 1, m - 1) \in Seq(Lines)
        /\ Len(SubSeq(file, 1, m - 1)) = IF 1 <= m - 1 THEN (m - 1) - 1 + 1 ELSE 0
        /\ \A i \in 1 .. (m - 1) - 1 + 1 : SubSeq(file, 1, m - 1)[i] = file[1 + i - 1]
    BY <2>0, <2>1, SubSeqProperties
  <2>. QED
    BY <2>1, <2>2, <2>3
<1>4. /\ Tail(lines) \in Seq(Lines) /\ Len(Tail(lines)) = Len(lines) - 1
      /\ \A i \in 1 .. Len(lines) - 1 : Tail(lines)[i] = lines[i + 1]
  BY HeadTailProperties
<1>5. <<Garbled>> \in Seq(Lines) /\ Len(<<Garbled>>) = 1 /\ <<Garbled>>[1] = Garbled
  BY BrokenLines
<1>6. /\ a \in Seq(Lines) /\ Len(a) = m
      /\ \A i \in 1 .. m - 1 : a[i] = file[i]
      /\ a[m] = Garbled
  BY <1>1, <1>3, <1>5
<1>7. WithLines(file, TRUE, lines) = a \o Tail(lines)
  BY DEF WithLines
<1>. HIDE DEF a, m
<1>8. /\ a \o Tail(lines) \in Seq(Lines)
      /\ Len(a \o Tail(lines)) = m + Len(lines) - 1
      /\ \A i \in 1 .. m : (a \o Tail(lines))[i] = a[i]
      /\ \A k \in 2 .. Len(lines) : (a \o Tail(lines))[m + k - 1] = lines[k]
  <2>1. /\ a \o Tail(lines) \in Seq(Lines)
        /\ Len(a \o Tail(lines)) = m + (Len(lines) - 1)
        /\ \A i \in 1 .. m + (Len(lines) - 1) :
             (a \o Tail(lines))[i] = IF i <= m THEN a[i] ELSE Tail(lines)[i - m]
    <3>1. /\ a \o Tail(lines) \in Seq(Lines)
          /\ Len(a \o Tail(lines)) = Len(a) + Len(Tail(lines))
          /\ \A i \in 1 .. Len(a) + Len(Tail(lines)) :
               (a \o Tail(lines))[i] = IF i <= Len(a) THEN a[i] ELSE Tail(lines)[i - Len(a)]
      BY <1>4, <1>6, ConcatProperties
    <3>. QED
      BY <1>4, <1>6, <3>1
  <2>2. ASSUME NEW k \in 2 .. Len(lines)
        PROVE  (a \o Tail(lines))[m + k - 1] = lines[k]
    <3>1. /\ m + k - 1 \in 1 .. m + (Len(lines) - 1)
          /\ ~ (m + k - 1 <= m) /\ (m + k - 1) - m = k - 1
          /\ k - 1 \in 1 .. Len(lines) - 1 /\ (k - 1) + 1 = k
      BY <1>1
    <3>. QED
      BY <1>4, <2>1, <3>1
  <2>. QED
    BY <1>1, <2>1, <2>2
<1>. DEFINE v == a \o Tail(lines)
<1>9. /\ v \in Seq(Lines)
      /\ Len(v) = m + Len(lines) - 1
      /\ \A i \in 1 .. m - 1 : v[i] = file[i]
      /\ v[m] = Garbled
      /\ \A k \in 2 .. Len(lines) : v[m + k - 1] = lines[k]
  <2>1. \A i \in 1 .. m - 1 : i \in 1 .. m
    BY <1>1
  <2>2. m \in 1 .. m
    BY <1>1
  <2>. QED
    BY <1>6, <1>8, <2>1, <2>2
<1>10. WithLines(file, TRUE, lines) = v
  BY <1>7
<1>. HIDE DEF v
<1>. QED
  BY <1>1, <1>9, <1>10 DEF m

LEMMA Behind ==
  ASSUME NEW file \in Seq(Lines), NEW isCut, NEW lines \in Seq(Lines)
  PROVE  LET w == WithLines(file, isCut, lines)
         IN  /\ w \in Seq(Lines)
             /\ lines = <<>> => w = file
             /\ lines # <<>> => Firm(file, isCut) \subseteq Firm(w, TRUE)
             /\ Garbled \in Range(file) => Garbled \in Range(w)
             /\ Range(w) \subseteq Range(file) \cup Range(lines) \cup {Garbled}
             /\ \A k \in DOMAIN lines :
                  lines[k] \in Range(w) \/ (k = 1 /\ Garbled \in Range(w))
             /\ ~ isCut => w = file \o lines
<1> DEFINE w == WithLines(file, isCut, lines)
<1>0. /\ Len(file) \in Nat /\ DOMAIN file = 1 .. Len(file)
      /\ Len(lines) \in Nat /\ DOMAIN lines = 1 .. Len(lines)
  BY RangeEntries
<1>1. CASE isCut /\ file # <<>> /\ lines # <<>>
  <2> DEFINE m == Len(file)
             n == Len(lines)
  <2>1. /\ w \in Seq(Lines) /\ Len(w) = m + n - 1
        /\ \A i \in 1 .. m - 1 : w[i] = file[i]
        /\ w[m] = Garbled
        /\ \A k \in 2 .. n : w[m + k - 1] = lines[k]
        /\ m \in Nat \ {0} /\ n \in Nat \ {0}
    BY <1>1, BehindCut DEF WithLines
  <2>3. /\ \A y : y \in Range(w) <=> \E i \in 1 .. m + n - 1 : w[i] = y
        /\ DOMAIN w = 1 .. m + n - 1
    BY <2>1, RangeEntries
  <2>4. /\ \A y : y \in Range(file) <=> \E i \in 1 .. m : file[i] = y
        /\ \A y : y \in Range(lines) <=> \E i \in 1 .. n : lines[i] = y
    BY RangeEntries
  <2>12. Firm(file, isCut) \subseteq {file[i] : i \in 1 .. m - 1}
    BY <1>0, <1>1 DEF Firm
  <2>. HIDE DEF w, m, n
  <2>5. m \in 1 .. m + n - 1 /\ \A i \in 1 .. m - 1 : i \in 1 .. m + n - 1 /\ i # m + n - 1
    BY <2>1
  <2>6. \A k \in 2 .. n : m + k - 1 \in 1 .. m + n - 1
    BY <2>1
  <2>7. Firm(file, isCut) \subseteq Firm(w, TRUE)
    <3>1. \A i \in 1 .. m - 1 : w[i] \in Firm(w, TRUE)
      BY <2>1, <2>3, <2>5 DEF Firm
    <3>. QED
      BY <2>1, <2>12, <3>1
  <2>13. Garbled \in Range(w)
    BY <2>1, <2>3, <2>5
  <2>8. ASSUME NEW k \in 1 .. n
        PROVE  lines[k] \in Range(w) \/ (k = 1 /\ Garbled \in Range(w))
    <3>2. CASE k # 1
      <4>1. k \in 2 .. n
        BY <2>1, <3>2
      <4>. QED
        BY <2>1, <2>3, <2>6, <4>1
    <3>. QED
      BY <2>13, <3>2
  <2>9. ASSUME NEW y \in Range(w)
        PROVE  y \in Range(file) \cup Range(lines) \cup {Garbled}
    <3>1. PICK i \in 1 .. m + n - 1 : w[i] = y
      BY <2>3
    <3>2. CASE i < m
      <4>1. i \in 1 .. m - 1 /\ i \in 1 .. m
        BY <2>1, <3>2
      <4>. QED
        BY <2>1, <2>4, <3>1, <4>1
    <3>3. CASE i = m
      BY <2>1, <3>1, <3>3
    <3>4. CASE i > m
      <4>1. i - m + 1 \in 2 .. n /\ i - m + 1 \in 1 .. n /\ m + (i - m + 1) - 1 = i
        BY <2>1, <3>4
      <4>2. y = lines[i - m + 1]
        BY <2>1, <3>1, <4>1
      <4>. QED
        BY <2>4, <4>1, <4>2
    <3>. QED
      BY <2>1, <3>2, <3>3, <3>4
  <2>. QED
    BY <1>0, <1>1, <2>1, <2>7, <2>8, <2>9, <2>13 DEF w, n
<1>2. CASE ~ (isCut /\ file # <<>> /\ lines # <<>>)
  <2>1. w = file \o lines
    BY <1>2 DEF WithLines
  <2>2. w \in Seq(Lines) /\ Range(w) = Range(file) \cup Range(lines)
    BY <2>1, ConcatProperties, RangeConcatenation
  <2>3. \A k \in DOMAIN lines : lines[k] \in Range(lines)
    BY DEF Range
  <2>4. lines = <<>> => w = file
    BY <2>1, ConcatEmptySeq
  <2>5. ASSUME lines # <<>> PROVE Firm(file, isCut) \subseteq Firm(w, TRUE)
    <3>1. /\ Len(w) = Len(file) + Len(lines) /\ Len(lines) > 0
          /\ \A i \in 1 .. Len(file) : w[i] = file[i]
      <4>1. Len(lines) # 0
        BY <2>5, EmptySeq
      <4>. QED
        BY <1>0, <2>1, <4>1, ConcatProperties
    <3>2. DOMAIN w = 1 .. Len(w)
      BY <2>2, RangeEntries
    <3>3. \A i \in DOMAIN file : i \in DOMAIN w /\ i # Len(w) /\ w[i] = file[i]
      BY <1>0, <3>1, <3>2
    <3>. HIDE DEF w
    <3>. QED
      BY <3>3 DEF Firm
  <2>. HIDE DEF w
  <2>. QED
    BY <2>1, <2>2, <2>3, <2>4, <2>5 DEF w
<1>. QED
  BY <1>1, <1>2

\* One line behind a file comes after all the others, or is not a receipt.
LEMMA OneBehind ==
  ASSUME NEW file \in Seq(Lines), NEW isCut \in BOOLEAN, NEW x \in Lines
  PROVE  LET w == WithLines(file, isCut, <<x>>)
         IN  \E m \in Nat :
               /\ m + 1 = Len(w)
               /\ m <= Len(file) /\ \A i \in 1 .. m : w[i] = file[i]
               /\ w[m + 1] \in Receipts => w[m + 1] = x
<1> DEFINE w == WithLines(file, isCut, <<x>>)
           lines == <<x>>
           ok(m) == /\ m + 1 = Len(w)
                    /\ m <= Len(file) /\ \A i \in 1 .. m : w[i] = file[i]
                    /\ w[m + 1] \in Receipts => w[m + 1] = x
<1>. SUFFICES \E m \in Nat : ok(m)
  OBVIOUS
<1>0. lines \in Seq(Lines) /\ Len(lines) = 1 /\ lines # <<>> /\ lines[1] = x
  OBVIOUS
<1>1. CASE isCut /\ file # <<>>
  <2>1. /\ Len(w) = Len(file) + 1 - 1
        /\ \A i \in 1 .. Len(file) - 1 : w[i] = file[i]
        /\ w[Len(file)] = Garbled
        /\ Len(file) \in Nat \ {0}
    <3>. HIDE DEF lines
    <3>1. WithLines(file, TRUE, lines) = w
      BY <1>1 DEF lines, WithLines
    <3>2. /\ Len(WithLines(file, TRUE, lines)) = Len(file) + Len(lines) - 1
          /\ \A i \in 1 .. Len(file) - 1 : WithLines(file, TRUE, lines)[i] = file[i]
          /\ WithLines(file, TRUE, lines)[Len(file)] = Garbled
          /\ Len(file) \in Nat \ {0}
      BY <1>0, <1>1, BehindCut
    <3>. HIDE DEF w
    <3>. QED
      BY <1>0, <3>1, <3>2
  <2>2. w[Len(file)] \notin Receipts
    BY <2>1, BrokenLines
  <2> DEFINE m == Len(file) - 1
  <2>3. m \in Nat /\ m + 1 = Len(file) /\ Len(w) = m + 1 /\ m <= Len(file)
    BY <2>1
  <2>. HIDE DEF w
  <2>4. ok(m)
    BY <2>1, <2>2, <2>3
  <2>. HIDE DEF m, ok
  <2>. QED
    BY <2>3, <2>4
<1>2. CASE ~ (isCut /\ file # <<>>)
  <2>1. w = file \o <<x>>
    BY <1>2 DEF WithLines
  <2>2. /\ Len(w) = Len(file) + 1 /\ Len(file) \in Nat
        /\ \A i \in 1 .. Len(file) : w[i] = file[i]
        /\ w[Len(file) + 1] = x
    BY <2>1
  <2>. HIDE DEF w
  <2>3. ok(Len(file))
    BY <2>2
  <2>. HIDE DEF ok
  <2>. QED
    BY <2>2, <2>3
<1>. QED
  BY <1>1, <1>2

\* A write that is cut off leaves some of its lines, the last perhaps garbled.
LEMMA PartsAreParts ==
  ASSUME NEW lines \in Seq(Receipts), NEW part \in Parts(lines)
  PROVE  /\ part.lines \in Seq(Lines) /\ part.cut \in BOOLEAN
         /\ \A i \in DOMAIN part.lines :
              part.lines[i] # Garbled => i \in DOMAIN lines /\ part.lines[i] = lines[i]
<1>0. /\ Len(lines) \in Nat /\ DOMAIN lines = 1 .. Len(lines)
      /\ \A i \in 1 .. Len(lines) : lines[i] \in Receipts
  OBVIOUS
<1>1. ASSUME NEW n \in Nat, n <= Len(lines)
      PROVE  LET s == SubSeq(lines, 1, n)
             IN  /\ s \in Seq(Lines) /\ Len(s) = n /\ DOMAIN s = 1 .. n
                 /\ \A i \in 1 .. n : s[i] = lines[i]
  <2>1. \A i \in 1 .. n : i \in 1 .. Len(lines) /\ lines[i] \in Lines
    BY <1>0, <1>1, BrokenLines
  <2>2. /\ 1 \in Int /\ n \in Int /\ n - 1 + 1 = n /\ (IF 1 <= n THEN n - 1 + 1 ELSE 0) = n
        /\ \A i \in 1 .. n : 1 + i - 1 = i
    OBVIOUS
  <2>3. /\ SubSeq(lines, 1, n) \in Seq(Lines)
        /\ Len(SubSeq(lines, 1, n)) = IF 1 <= n THEN n - 1 + 1 ELSE 0
        /\ \A i \in 1 .. n - 1 + 1 : SubSeq(lines, 1, n)[i] = lines[1 + i - 1]
    BY <2>1, <2>2, SubSeqProperties
  <2>4. DOMAIN SubSeq(lines, 1, n) = 1 .. Len(SubSeq(lines, 1, n))
    BY <2>3
  <2>. QED
    BY <2>2, <2>3, <2>4
<1>2. ASSUME NEW n \in 0 .. Len(lines), part.lines = SubSeq(lines, 1, n)
      PROVE  /\ part.lines \in Seq(Lines)
             /\ \A i \in DOMAIN part.lines : i \in DOMAIN lines /\ part.lines[i] = lines[i]
  <2>2. n \in Nat /\ n <= Len(lines) /\ \A i \in 1 .. n : i \in 1 .. Len(lines)
    BY <1>0
  <2>. QED
    BY <1>0, <1>1, <1>2, <2>2
<1>3. ASSUME NEW n \in DOMAIN lines, part.lines = Append(SubSeq(lines, 1, n - 1), Garbled)
      PROVE  /\ part.lines \in Seq(Lines)
             /\ \A i \in DOMAIN part.lines :
                  part.lines[i] # Garbled => i \in DOMAIN lines /\ part.lines[i] = lines[i]
  <2> DEFINE s == SubSeq(lines, 1, n - 1)
             t == part.lines
  <2>2. /\ n - 1 \in Nat /\ n - 1 <= Len(lines)
        /\ \A i \in 1 .. n - 1 : i \in 1 .. Len(lines)
    BY <1>0
  <2>3. /\ s \in Seq(Lines) /\ Len(s) = n - 1
        /\ \A i \in 1 .. n - 1 : s[i] = lines[i]
    BY <1>1, <2>2
  <2>. HIDE DEF s
  <2>4. t = Append(s, Garbled)
    BY <1>3 DEF s
  <2>. HIDE DEF t
  <2>5. /\ t \in Seq(Lines) /\ Len(t) = n - 1 + 1
        /\ \A i \in 1 .. n - 1 : t[i] = s[i]
        /\ t[n - 1 + 1] = Garbled
    BY <2>3, <2>4, BrokenLines, AppendProperties
  <2>6. DOMAIN t = 1 .. n - 1 + 1
    BY <2>5
  <2>7. \A i \in 1 .. n - 1 + 1 : i = n - 1 + 1 \/ i \in 1 .. n - 1
    BY <2>2
  <2>. QED
    BY <1>0, <2>2, <2>3, <2>5, <2>6, <2>7 DEF t
<1>4. CASE \E n \in 0 .. Len(lines) - 1 : part = Whole(SubSeq(lines, 1, n))
  <2>1. PICK n \in 0 .. Len(lines) - 1 : part = Whole(SubSeq(lines, 1, n))
    BY <1>4
  <2>2. n \in 0 .. Len(lines) /\ part.lines = SubSeq(lines, 1, n) /\ part.cut = FALSE
    BY <1>0, <2>1 DEF Whole
  <2>. QED
    BY <1>2, <2>2
<1>5. CASE \E n \in DOMAIN lines : part.lines = SubSeq(lines, 1, n) /\ part.cut = TRUE
  <2>1. PICK n \in DOMAIN lines : part.lines = SubSeq(lines, 1, n)
    BY <1>5
  <2>2. n \in 0 .. Len(lines)
    BY <1>0
  <2>. QED
    BY <1>2, <1>5, <2>1, <2>2
<1>6. CASE \E n \in DOMAIN lines : /\ part.lines = Append(SubSeq(lines, 1, n - 1), Garbled)
                                   /\ part.cut = TRUE
  BY <1>3, <1>6
<1>. QED
  BY <1>4, <1>5, <1>6 DEF Parts

\* What a cut off write of one line leaves.
LEMMA PartsOfOne ==
  ASSUME NEW x \in Receipts, NEW part \in Parts(<<x>>)
  PROVE  part.lines \in {<<>>, <<x>>, <<Garbled>>} /\ part.cut \in BOOLEAN
<1>1. /\ <<x>> \in Seq(Receipts) /\ Len(<<x>>) = 1 /\ DOMAIN <<x>> = {1}
      /\ 0 .. Len(<<x>>) - 1 = {0} /\ 1 - 1 = 0
  OBVIOUS
<1>2. SubSeq(<<x>>, 1, 0) = <<>> /\ SubSeq(<<x>>, 1, 1) = <<x>>
  <2>1. SubSeq(<<x>>, 1, Len(<<x>>)) = <<x>>
    BY <1>1, SubSeqFull
  <2>. QED
    BY <1>1, <2>1, SubSeqEmpty
<1>3. Append(<<>>, Garbled) = <<Garbled>>
  OBVIOUS
<1> DEFINE line == <<x>>
<1>4. /\ DOMAIN line = {1} /\ 0 .. Len(line) - 1 = {0}
      /\ SubSeq(line, 1, 0) = <<>> /\ SubSeq(line, 1, 1) = line
      /\ Append(SubSeq(line, 1, 1 - 1), Garbled) = <<Garbled>>
  BY <1>1, <1>2, <1>3
<1>. HIDE DEF line
<1>5. /\ {Whole(SubSeq(line, 1, n)) : n \in 0 .. Len(line) - 1} = {Whole(<<>>)}
      /\ {SubSeq(line, 1, n) : n \in DOMAIN line} = {line}
      /\ {Append(SubSeq(line, 1, n - 1), Garbled) : n \in DOMAIN line} = {<<Garbled>>}
  <2>1. /\ {Whole(SubSeq(line, 1, n)) : n \in 0 .. Len(line) - 1} = {Whole(<<>>)}
        /\ {SubSeq(line, 1, n) : n \in DOMAIN line} = {line}
    BY <1>4, Zenon
  <2>2. \A n \in DOMAIN line : n - 1 = 0
    BY <1>4
  <2>3. 1 \in DOMAIN line /\ Append(SubSeq(line, 1, 0), Garbled) = <<Garbled>>
    BY <1>3, <1>4
  <2>4. \A n \in DOMAIN line : Append(SubSeq(line, 1, n - 1), Garbled) = <<Garbled>>
    BY <2>2, <2>3, Zenon
  <2>. QED
    BY <2>1, <2>3, <2>4, Zenon
<1>6. part \in {Whole(<<>>)} \cup [lines : {line} \cup {<<Garbled>>}, cut : {TRUE}]
  <2>1. part \in Parts(line)
    BY DEF line
  <2>. QED
    BY <1>5, <2>1, Zenon DEF Parts
<1>7. part.lines \in {<<>>, line, <<Garbled>>} /\ part.cut \in BOOLEAN
  <2>1. CASE part = Whole(<<>>)
    <3>1. part.lines = <<>> /\ part.cut = FALSE
      BY <2>1 DEF Whole
    <3>. QED
      BY <3>1
  <2>2. CASE part \in [lines : {line} \cup {<<Garbled>>}, cut : {TRUE}]
    <3>1. part.lines \in {line} \cup {<<Garbled>>} /\ part.cut = TRUE
      BY <2>2
    <3>. QED
      BY <3>1
  <2>. QED
    BY <1>6, <2>1, <2>2
<1>. QED
  BY <1>7 DEF line

\* What is left of a file behind a write to its start.
LEMMA RestLines ==
  ASSUME live \in Seq(Lines), NEW rest \in Rests
  PROVE  rest \in Seq(Lines) /\ (live = <<>> => rest = <<>>)
<1>0. Len(live) \in Nat /\ DOMAIN live = 1 .. Len(live)
  BY RangeEntries
<1>1. ASSUME NEW k \in DOMAIN live
      PROVE  SubSeq(live, k + 1, Len(live)) \in Seq(Lines)
  <2>1. \A i \in k + 1 .. Len(live) : i \in DOMAIN live /\ live[i] \in Lines
    BY <1>0, ElementOfSeq
  <2>2. k + 1 \in Int /\ Len(live) \in Int
    BY <1>0
  <2>. QED
    BY <2>1, <2>2, SubSeqProperties
<1>2. <<>> \in Seq(Lines) /\ <<Garbled>> \in Seq(Lines)
  BY BrokenLines
<1>3. ASSUME NEW s \in Seq(Lines) PROVE <<Garbled>> \o s \in Seq(Lines)
  BY <1>2, ConcatProperties
<1>4. live = <<>> => DOMAIN live = {}
  OBVIOUS
<1>. QED
  BY <1>1, <1>2, <1>3, <1>4 DEF Rests

-----------------------------------------------------------------------------
(* Order *)

\* A file keeps the appends of a process in the order of the calls.
Ordered(s) ==
  \A i, j \in DOMAIN s :
    i < j /\ {s[i], s[j]} \subseteq Receipts /\ s[i].by = s[j].by => s[i].n < s[j].n

LEMMA OrderedPlaces ==
  ASSUME NEW W, NEW s \in Seq(W), Ordered(s), NEW t \in Seq(W), NEW f, Places(t, s, f)
  PROVE  Ordered(t)
<1>1. SUFFICES ASSUME NEW i \in DOMAIN t, NEW j \in DOMAIN t, i < j,
                      {t[i], t[j]} \subseteq Receipts, t[i].by = t[j].by
               PROVE  t[i].n < t[j].n
  BY DEF Ordered
<1>2. /\ f[i] \in DOMAIN s /\ t[i] = s[f[i]]
      /\ f[j] \in DOMAIN s /\ t[j] = s[f[j]]
      /\ f[i] < f[j]
  BY <1>1 DEF Places
<1>. QED
  BY <1>1, <1>2 DEF Ordered

LEMMA OrderedLinesAt ==
  ASSUME NEW s \in Seq(Lines), Ordered(s), NEW I \in SUBSET (DOMAIN s)
  PROVE  Ordered(LinesAt(s, I))
<1>1. {s[i] : i \in I} \subseteq Lines
  BY ElementOfSeq
<1>2. LinesAt(s, I) \in Seq({s[i] : i \in I})
  BY LinesAtPlaces
<1>3. LinesAt(s, I) \in Seq(Lines)
  BY <1>1, <1>2, SeqMonotonic
<1>. QED
  BY <1>3, LinesAtPlaces, OrderedPlaces

LEMMA OrderedPart ==
  ASSUME NEW s \in Seq(Receipts), Ordered(s), NEW part \in Parts(s)
  PROVE  Ordered(part.lines)
<1>1. \A i \in DOMAIN part.lines :
        part.lines[i] \in Receipts => i \in DOMAIN s /\ part.lines[i] = s[i]
  BY PartsAreParts, BrokenLines
<1>. QED
  BY <1>1 DEF Ordered

\* A receipt may be written behind the earlier ones of its process.
LEMMA OrderedBehind ==
  ASSUME NEW s \in Seq(Lines), NEW isCut \in BOOLEAN, Ordered(s), NEW x \in Lines,
         x \in Receipts => \A r \in Range(s) \cap Receipts : r.by = x.by => r.n < x.n
  PROVE  Ordered(WithLines(s, isCut, <<x>>))
<1> DEFINE w == WithLines(s, isCut, <<x>>)
<1>1. w \in Seq(Lines)
  <2>1. <<x>> \in Seq(Lines)
    OBVIOUS
  <2>. QED
    BY <2>1, Behind
<1>2. PICK m \in Nat : /\ m + 1 = Len(w)
                       /\ m <= Len(s) /\ \A i \in 1 .. m : w[i] = s[i]
                       /\ w[m + 1] \in Receipts => w[m + 1] = x
  BY OneBehind
<1>. HIDE DEF w
<1>3. DOMAIN w = 1 .. m + 1 /\ DOMAIN s = 1 .. Len(s) /\ Len(s) \in Nat
  BY <1>1, <1>2
<1>4. SUFFICES ASSUME NEW i \in DOMAIN w, NEW j \in DOMAIN w, i < j,
                      w[i] \in Receipts, w[j] \in Receipts, w[i].by = w[j].by
               PROVE  w[i].n < w[j].n
  BY DEF Ordered, w
<1>5. i \in 1 .. m /\ i \in DOMAIN s /\ w[i] = s[i]
  BY <1>2, <1>3, <1>4
<1>6. CASE j = m + 1
  <2>1. w[j] = x /\ s[i] \in Range(s)
    BY <1>2, <1>4, <1>5, <1>6 DEF Range
  <2>. QED
    BY <1>4, <1>5, <2>1
<1>7. CASE j # m + 1
  <2>1. j \in 1 .. m /\ j \in DOMAIN s /\ w[j] = s[j]
    BY <1>2, <1>3, <1>7
  <2>. QED
    BY <1>4, <1>5, <2>1 DEF Ordered
<1>. QED
  BY <1>6, <1>7

-----------------------------------------------------------------------------
(* Types *)

\* An append in progress is that of the first receipt in the queue.
Begun == \A p \in Procs : pc[p] \notin {"idle", "dead"} => queue[p] # <<>>

TInv == TypeOK /\ Begun /\ (taken => "stall" \in Faults)

LEMMA InitTInv == Init => TInv
<1>1. <<>> \in Seq(Lines) /\ <<>> \in Seq(Receipts) /\ FALSE \in BOOLEAN
  OBVIOUS
<1>2. NoSnap \in [keep : Seq(Receipts), archive : Seq(Receipts)]
  BY <1>1 DEF NoSnap
<1>3. "idle" \in Pcs /\ "idle" \notin Writing
  BY DEF Pcs, Writing
<1>4. Init => taken \in BOOLEAN /\ ~ taken
  BY DEF Init
<1>5. Init => TypeOK
  BY <1>1, <1>2, <1>3, <1>4 DEF Init, TypeOK
<1>6. Init => Begun
  BY DEF Init, Begun
<1>. QED
  BY <1>4, <1>5, <1>6 DEF TInv

\* What the end of an append leaves.
LEMMA EndType ==
  ASSUME TInv, NEW p \in Procs, queue[p] # <<>>,
         NEW how \in {"resolved", "rejected"}, End(p, how)
  PROVE  /\ pc' \in [Procs -> Pcs] /\ pc'[p] = "idle"
         /\ queue' \in [Procs -> Seq(Receipts)] /\ queue'[p] = Tail(queue[p])
         /\ snap' \in [Procs -> [keep : Seq(Receipts), archive : Seq(Receipts)]]
         /\ snap'[p] = NoSnap
         /\ ended' \in [resolved : SUBSET Receipts, rejected : SUBSET Receipts]
         /\ \A q \in Procs \ {p} : pc'[q] = pc[q] /\ queue'[q] = queue[q] /\ snap'[q] = snap[q]
<1>1. "idle" \in Pcs
  BY DEF Pcs
<1>2. NoSnap \in [keep : Seq(Receipts), archive : Seq(Receipts)]
  BY DEF NoSnap
<1>3. queue[p] \in Seq(Receipts)
  BY DEF TInv, TypeOK
<1>4. Head(queue[p]) \in Receipts /\ Tail(queue[p]) \in Seq(Receipts)
  BY <1>3, HeadTailProperties
<1>5. pc' = [pc EXCEPT ![p] = "idle"]
  BY DEF End, Goto
<1>6. queue' = [queue EXCEPT ![p] = Tail(queue[p])]
  BY DEF End, Settled
<1>7. snap' = [snap EXCEPT ![p] = NoSnap]
  BY DEF End
<1>8. ended' = [ended EXCEPT ![how] = ended[how] \cup {Head(queue[p])}]
  BY DEF End, Receipt
<1>9. ended' \in [resolved : SUBSET Receipts, rejected : SUBSET Receipts]
  BY <1>4, <1>8 DEF TInv, TypeOK
<1>. QED
  BY <1>1, <1>2, <1>4, <1>5, <1>6, <1>7, <1>9 DEF TInv, TypeOK

\* What archiveOldReceipts reads of a file without broken lines.
LEMMA ReadType ==
  ASSUME NEW content \in Seq(Lines), Readable(content)
  PROVE  /\ content \in Seq(Receipts)
         /\ Keep(content) \in Seq(Receipts) /\ Old(content) \in Seq(Receipts)
         /\ Range(Keep(content)) = Range(content) \ aged
         /\ Range(Old(content)) = Range(content) \cap aged
         /\ \E f : Places(Keep(content), content, f)
         /\ \E f : Places(Old(content), content, f)
<1> DEFINE I == {i \in DOMAIN content : content[i] \notin aged}
           J == {i \in DOMAIN content : content[i] \in aged}
<1>1. \A i \in DOMAIN content : content[i] \in Receipts
  BY ElementOfSeq, BrokenLines DEF Readable, Range
<1>2. content \in Seq(Receipts)
  BY <1>1
<1>3. I \in SUBSET (DOMAIN content) /\ J \in SUBSET (DOMAIN content)
  OBVIOUS
<1>4. {content[i] : i \in I} = Range(content) \ aged /\ {content[i] : i \in I} \subseteq Receipts
  BY <1>1 DEF Range
<1>5. {content[i] : i \in J} = Range(content) \cap aged /\ {content[i] : i \in J} \subseteq Receipts
  BY <1>1 DEF Range
<1>6. Keep(content) = LinesAt(content, I) /\ Old(content) = LinesAt(content, J)
  BY DEF Keep, Old
<1>. HIDE DEF I, J
<1>7. /\ LinesAt(content, I) \in Seq({content[i] : i \in I})
      /\ Range(LinesAt(content, I)) = {content[i] : i \in I}
      /\ \E f : Places(LinesAt(content, I), content, f)
  BY <1>3, LinesAtPlaces
<1>8. /\ LinesAt(content, J) \in Seq({content[i] : i \in J})
      /\ Range(LinesAt(content, J)) = {content[i] : i \in J}
      /\ \E f : Places(LinesAt(content, J), content, f)
  BY <1>3, LinesAtPlaces
<1>9. LinesAt(content, I) \in Seq(Receipts) /\ LinesAt(content, J) \in Seq(Receipts)
  BY <1>4, <1>5, <1>7, <1>8, SeqMonotonic
<1>. QED
  BY <1>2, <1>4, <1>5, <1>6, <1>7, <1>8, <1>9

\* A finished write, and how a write changes the files.
LEMMA WholeWrite ==
  ASSUME NEW lines PROVE Whole(lines).lines = lines /\ Whole(lines).cut = FALSE
BY DEF Whole

\* Which files are cut after a write to this one.
LEMMA CutAfter ==
  ASSUME TInv, NEW file \in {"live", "archived"}, NEW write, write.cut \in BOOLEAN
  PROVE  /\ CutBy(file, write) \subseteq {"live", "archived"}
         /\ write.lines = <<>> => CutBy(file, write) = cut
         /\ write.lines # <<>> => (file \in CutBy(file, write) <=> write.cut)
         /\ \A other : other # file => (other \in CutBy(file, write) <=> other \in cut)
<1>1. cut \subseteq {"live", "archived"}
  BY DEF TInv, TypeOK
<1>. QED
  BY <1>1 DEF CutBy

\* What is safe in the files from the next write to their ends.
FirmLive == Firm(live, "live" \in cut)

FirmArchived == Firm(archived, "archived" \in cut)

LEMMA FirmStays ==
  /\ UNCHANGED live /\ ("live" \in cut' <=> "live" \in cut) => FirmLive' = FirmLive
  /\ UNCHANGED archived /\ ("archived" \in cut' <=> "archived" \in cut)
       => FirmArchived' = FirmArchived
<1>1. ASSUME UNCHANGED live, "live" \in cut' <=> "live" \in cut
      PROVE  FirmLive' = FirmLive
  BY <1>1 DEF FirmLive, Firm
<1>2. ASSUME UNCHANGED archived, "archived" \in cut' <=> "archived" \in cut
      PROVE  FirmArchived' = FirmArchived
  BY <1>2 DEF FirmArchived, Firm
<1>. QED
  BY <1>1, <1>2

LEMMA FirmIsThere ==
  ASSUME live \in Seq(Lines), archived \in Seq(Lines)
  PROVE  /\ FirmLive \subseteq Range(live) /\ FirmArchived \subseteq Range(archived)
         /\ \A r \in Range(live) \ FirmLive : "live" \in cut /\ r = Last(live)
         /\ \A r \in Range(archived) \ FirmArchived : "archived" \in cut /\ r = Last(archived)
<1>1. ("live" \in cut) \in BOOLEAN /\ ("archived" \in cut) \in BOOLEAN
  OBVIOUS
<1>. QED
  BY <1>1, FirmLines, Zenon DEF FirmLive, FirmArchived

LEMMA AddedToLive ==
  ASSUME TInv, NEW write, write.lines \in Seq(Lines), write.cut \in BOOLEAN, AddToLive(write)
  PROVE  /\ live' \in Seq(Lines) /\ cut' \subseteq {"live", "archived"}
         /\ UNCHANGED archived /\ FirmArchived' = FirmArchived
         /\ FirmLive \subseteq FirmLive'
         /\ Range(live') \subseteq Range(live) \cup Range(write.lines) \cup {Garbled}
<1>1. live \in Seq(Lines)
  BY DEF TInv, TypeOK
<1>2. /\ live' = WithLines(live, "live" \in cut, write.lines)
      /\ cut' = CutBy("live", write) /\ UNCHANGED archived
  BY DEF AddToLive
<1>3. /\ cut' \subseteq {"live", "archived"} /\ ("archived" \in cut' <=> "archived" \in cut)
      /\ write.lines = <<>> => cut' = cut
  BY <1>2, CutAfter
<1>4. /\ live' \in Seq(Lines)
      /\ write.lines = <<>> => live' = live
      /\ write.lines # <<>> =>
           Firm(live, "live" \in cut) \subseteq Firm(live', TRUE)
      /\ Range(live') \subseteq Range(live) \cup Range(write.lines) \cup {Garbled}
  BY <1>1, <1>2, Behind, Zenon
<1>5. Firm(live, "live" \in cut) \subseteq Firm(live', "live" \in cut')
  <2>1. CASE write.lines = <<>>
    BY <1>3, <1>4, <2>1, Zenon
  <2>2. CASE write.lines # <<>>
    <3>1. Firm(live', TRUE) \subseteq Firm(live', "live" \in cut')
      BY DEF Firm
    <3>. QED
      BY <1>4, <2>2, <3>1, Zenon
  <2>. QED
    BY <2>1, <2>2, Zenon
<1>6. FirmArchived' = FirmArchived
  BY <1>2, <1>3, FirmStays
<1>. QED
  BY <1>2, <1>3, <1>4, <1>5, <1>6, Zenon DEF FirmLive

LEMMA AddedToArchive ==
  ASSUME TInv, NEW write, write.lines \in Seq(Lines), write.cut \in BOOLEAN, AddToArchive(write)
  PROVE  /\ archived' \in Seq(Lines) /\ cut' \subseteq {"live", "archived"}
         /\ UNCHANGED live /\ FirmLive' = FirmLive
         /\ FirmArchived \subseteq FirmArchived'
         /\ Garbled \in Range(archived) => Garbled \in Range(archived')
         /\ Range(archived') \subseteq Range(archived) \cup Range(write.lines) \cup {Garbled}
         /\ ~ write.cut => \A k \in DOMAIN write.lines :
              \/ write.lines[k] \in FirmArchived'
              \/ k = 1 /\ Garbled \in Range(archived')
<1>1. archived \in Seq(Lines)
  BY DEF TInv, TypeOK
<1>2. /\ archived' = WithLines(archived, "archived" \in cut, write.lines)
      /\ cut' = CutBy("archived", write) /\ UNCHANGED live
  BY DEF AddToArchive
<1>3. /\ cut' \subseteq {"live", "archived"} /\ ("live" \in cut' <=> "live" \in cut)
      /\ write.lines = <<>> => cut' = cut
      /\ write.lines # <<>> => ("archived" \in cut' <=> write.cut)
  BY <1>2, CutAfter
<1>4. /\ archived' \in Seq(Lines)
      /\ write.lines = <<>> => archived' = archived
      /\ write.lines # <<>> =>
           Firm(archived, "archived" \in cut) \subseteq Firm(archived', TRUE)
      /\ Garbled \in Range(archived) => Garbled \in Range(archived')
      /\ Range(archived') \subseteq Range(archived) \cup Range(write.lines) \cup {Garbled}
      /\ \A k \in DOMAIN write.lines :
           write.lines[k] \in Range(archived') \/ (k = 1 /\ Garbled \in Range(archived'))
  <2> DEFINE w == WithLines(archived, "archived" \in cut, write.lines)
  <2>1. w = archived'
    BY <1>2
  <2>2. /\ w \in Seq(Lines)
        /\ write.lines = <<>> => w = archived
        /\ write.lines # <<>> => Firm(archived, "archived" \in cut) \subseteq Firm(w, TRUE)
    BY <1>1, Behind, Zenon
  <2>3. /\ Garbled \in Range(archived) => Garbled \in Range(w)
        /\ Range(w) \subseteq Range(archived) \cup Range(write.lines) \cup {Garbled}
    BY <1>1, Behind, Zenon
  <2>4. \A k \in DOMAIN write.lines :
          write.lines[k] \in Range(w) \/ (k = 1 /\ Garbled \in Range(w))
    BY <1>1, Behind, Zenon
  <2>. HIDE DEF w
  <2>. QED
    BY <2>1, <2>2, <2>3, <2>4, Zenon
<1>5. ASSUME ~ write.cut, NEW k \in DOMAIN write.lines
      PROVE  Firm(archived', "archived" \in cut') = Range(archived')
  <2>1. write.lines # <<>>
    BY <1>5
  <2>2. ("archived" \in cut') = FALSE
    BY <1>3, <1>5, <2>1
  <2>3. Firm(archived', FALSE) = Range(archived')
    BY <1>4, FirmLines
  <2>. QED
    BY <2>2, <2>3, Zenon
<1>6. Firm(archived, "archived" \in cut) \subseteq Firm(archived', "archived" \in cut')
  <2>1. CASE write.lines = <<>>
    BY <1>3, <1>4, <2>1, Zenon
  <2>2. CASE write.lines # <<>>
    <3>1. Firm(archived', TRUE) \subseteq Firm(archived', "archived" \in cut')
      BY DEF Firm
    <3>. QED
      BY <1>4, <2>2, <3>1, Zenon
  <2>. QED
    BY <2>1, <2>2, Zenon
<1>7. FirmLive' = FirmLive
  BY <1>2, <1>3, FirmStays
<1>. QED
  BY <1>2, <1>3, <1>4, <1>5, <1>6, <1>7, Zenon DEF FirmArchived

LEMMA WrittenOverLive ==
  ASSUME TInv, NEW write, write.lines \in Seq(Lines), write.cut \in BOOLEAN, WriteOverLive(write)
  PROVE  /\ live' \in Seq(Lines) /\ cut' \subseteq {"live", "archived"}
         /\ UNCHANGED archived /\ FirmArchived' = FirmArchived
         /\ live = <<>> => live' = write.lines
         /\ ~ write.cut => Range(write.lines) \subseteq Range(live')
<1>1. live \in Seq(Lines) /\ cut \subseteq {"live", "archived"}
  BY DEF TInv, TypeOK
<1>2. PICK rest \in (IF write.lines = <<>> THEN {live} ELSE Rests) :
        /\ live' = WithLines(write.lines, write.cut, rest)
        /\ cut' = IF rest = <<>> THEN CutBy("live", write) ELSE cut
  BY DEF WriteOverLive
<1>3. UNCHANGED archived
  BY DEF WriteOverLive
<1>4. rest \in Seq(Lines) /\ (live = <<>> => rest = <<>>)
  BY <1>1, RestLines
<1>5. /\ live' \in Seq(Lines)
      /\ rest = <<>> => live' = write.lines
      /\ ~ write.cut => live' = write.lines \o rest
  BY <1>2, <1>4, Behind
<1>6. ~ write.cut => Range(write.lines) \subseteq Range(live')
  <2>1. Range(write.lines \o rest) = Range(write.lines) \cup Range(rest)
    BY <1>4, RangeConcatenation
  <2>. QED
    BY <1>5, <2>1
<1>7. cut' \subseteq {"live", "archived"} /\ ("archived" \in cut' <=> "archived" \in cut)
  BY <1>1, <1>2, CutAfter
<1>8. FirmArchived' = FirmArchived
  BY <1>3, <1>7, FirmStays
<1>. QED
  BY <1>3, <1>4, <1>5, <1>6, <1>7, <1>8

LEMMA PartWrittenType ==
  ASSUME TInv, NEW p \in Procs, PartWritten(p)
  PROVE  live' \in Seq(Lines) /\ archived' \in Seq(Lines) /\ cut' \subseteq {"live", "archived"}
<1>1. /\ live \in Seq(Lines) /\ archived \in Seq(Lines) /\ cut \subseteq {"live", "archived"}
      /\ snap[p].keep \in Seq(Receipts) /\ snap[p].archive \in Seq(Receipts)
  BY DEF TInv, TypeOK
<1>2. CASE UNCHANGED <<live, archived, cut>>
  BY <1>1, <1>2
<1>3. CASE \E part \in Parts(snap[p].archive) : AddToArchive(part)
  BY <1>1, <1>3, PartsAreParts, AddedToArchive
<1>4. CASE \E part \in Parts(snap[p].keep) : WriteOverLive(part)
  BY <1>1, <1>4, PartsAreParts, WrittenOverLive
<1>5. CASE pc[p] = "appending" /\ \E part \in Parts(<<Receipt(p)>>) : AddToLive(part)
  <2>1. Receipt(p) \in Receipts
    BY <1>5, HeadTailProperties DEF TInv, TypeOK, Begun, Receipt
  <2> DEFINE line == <<Receipt(p)>>
  <2>2. line \in Seq(Receipts)
    BY <2>1
  <2>3. PICK part \in Parts(line) : AddToLive(part)
    BY <1>5
  <2>. HIDE DEF line
  <2>4. part.lines \in Seq(Lines) /\ part.cut \in BOOLEAN
    BY <2>2, PartsAreParts
  <2>. QED
    BY <1>1, <2>3, <2>4, AddedToLive
<1>. QED
  BY <1>2, <1>3, <1>4, <1>5 DEF PartWritten

LEMMA NextTInv == TInv /\ [Next]_vars => TInv'
<1>. SUFFICES ASSUME TInv, [Next]_vars PROVE TInv'
  OBVIOUS
<1>. USE DEF TInv
<1>0. /\ live \in Seq(Lines) /\ archived \in Seq(Lines)
      /\ cut \subseteq {"live", "archived"}
      /\ \A p \in Procs : /\ snap[p].keep \in Seq(Receipts) /\ snap[p].archive \in Seq(Receipts)
                          /\ queue[p] \in Seq(Receipts)
  BY DEF TypeOK
<1>w. /\ Writing \subseteq Pcs
      /\ {"idle", "archive_lock", "append_lock", "mirror", "dead"} \subseteq Pcs
      /\ Writing \cap {"idle", "archive_lock", "append_lock", "mirror", "dead"} = {}
  BY DEF Pcs, Writing
<1>e. ASSUME NEW p \in Procs, queue[p] # <<>>, NEW how \in {"resolved", "rejected"},
             End(p, how), live' \in Seq(Lines), archived' \in Seq(Lines),
             cut' \subseteq {"live", "archived"}, UNCHANGED <<aged, taken, calls>>,
             \/ UNCHANGED lock /\ pc[p] \notin Writing
             \/ lock' = NoProc /\ pc[p] \in Writing
      PROVE  TInv'
  <2>1. /\ pc' \in [Procs -> Pcs] /\ pc'[p] = "idle"
        /\ queue' \in [Procs -> Seq(Receipts)]
        /\ snap' \in [Procs -> [keep : Seq(Receipts), archive : Seq(Receipts)]]
        /\ ended' \in [resolved : SUBSET Receipts, rejected : SUBSET Receipts]
        /\ \A q \in Procs \ {p} : pc'[q] = pc[q] /\ queue'[q] = queue[q]
    BY <1>e, EndType
  <2>2. lock' \in Procs \cup {NoProc}
    BY <1>e DEF TypeOK
  <2>3. ~ taken' => \A q \in Procs : pc'[q] \in Writing => lock' = q
    BY <1>e, <1>w, <2>1 DEF TypeOK
  <2>4. Begun'
    BY <2>1 DEF Begun
  <2>. QED
    BY <1>e, <2>1, <2>2, <2>3, <2>4 DEF TypeOK
<1>g. ASSUME NEW p \in Procs, NEW step \in Pcs, Goto(p, step), pc[p] \notin {"idle", "dead"},
             live' \in Seq(Lines), archived' \in Seq(Lines),
             cut' \subseteq {"live", "archived"},
             UNCHANGED <<aged, taken, snap, calls, queue, ended>>,
             \/ UNCHANGED lock /\ (step \in Writing => pc[p] \in Writing)
             \/ lock' = NoProc /\ step \notin Writing /\ pc[p] \in Writing
             \/ lock = NoProc /\ lock' = p
      PROVE  TInv'
  <2>1. pc' = [pc EXCEPT ![p] = step] /\ pc' \in [Procs -> Pcs]
    BY <1>g DEF TypeOK, Goto
  <2>2. lock' \in Procs \cup {NoProc}
    BY <1>g DEF TypeOK
  <2>3. ~ taken' => \A q \in Procs : pc'[q] \in Writing => lock' = q
    BY <1>g, <2>1 DEF TypeOK
  <2>4. Begun'
    BY <1>g, <2>1 DEF Begun, TypeOK
  <2>. QED
    BY <1>g, <2>1, <2>2, <2>3, <2>4 DEF TypeOK
<1>1. ASSUME NEW p \in Procs, Progress(p) PROVE TInv'
  <2>1. CASE Read(p)
    <3>1. /\ Keep(live) \in Seq(Receipts) /\ Old(live) \in Seq(Receipts)
      BY <1>0, <2>1, ReadType DEF Read
    <3>2. snap' \in [Procs -> [keep : Seq(Receipts), archive : Seq(Receipts)]]
      BY <2>1, <3>1 DEF Read, TypeOK
    <3>3. /\ pc' \in [Procs -> Pcs] /\ pc'[p] \notin Writing
          /\ \A q \in Procs \ {p} : pc'[q] = pc[q]
      BY <2>1, <1>w DEF Read, TypeOK, Goto
    <3>4. Begun'
      BY <2>1, <3>3 DEF Begun, Read
    <3>. QED
      BY <2>1, <3>2, <3>3, <3>4 DEF Read, TypeOK
  <2>2. CASE ReadRejected(p)
    BY <1>0, <2>2, <1>e, <1>w DEF ReadRejected
  <2>3. CASE Lock(p)
    BY <1>0, <2>3, <1>g, <1>w DEF Lock, MayLock, Pcs, Writing
  <2>4. CASE LockRejected(p)
    <3>1. pc[p] \notin Writing /\ queue[p] # <<>>
      BY <2>4, <1>w DEF LockRejected, Begun
    <3>. QED
      BY <1>0, <2>4, <1>e, <3>1 DEF LockRejected
  <2>5. CASE Unlock(p)
    BY <1>0, <2>5, <1>g, <1>w DEF Unlock, Writing
  <2>6. CASE Archive(p)
    <3>1. archived' \in Seq(Lines) /\ UNCHANGED live /\ cut' \subseteq {"live", "archived"}
      <4>1. snap[p].archive \in Seq(Lines)
        BY <1>0, SeqMonotonic, BrokenLines
      <4>. QED
        BY <2>6, <4>1, WholeWrite, AddedToArchive DEF Archive, AppendArchive
    <3>. QED
      BY <1>0, <2>6, <1>g, <1>w, <3>1 DEF Archive, Writing
  <2>7. CASE Truncate(p)
    <3>1. live' \in Seq(Lines) /\ cut' \subseteq {"live", "archived"}
      BY <1>0, <2>7 DEF Truncate
    <3>. QED
      BY <1>0, <2>7, <1>g, <1>w, <3>1 DEF Truncate, Writing
  <2>8. CASE Rewrite(p)
    <3>1. live' \in Seq(Lines) /\ UNCHANGED archived /\ cut' \subseteq {"live", "archived"}
      <4>1. snap[p].keep \in Seq(Lines)
        BY <1>0, SeqMonotonic, BrokenLines
      <4>. QED
        BY <2>8, <4>1, WholeWrite, WrittenOverLive DEF Rewrite
    <3>. QED
      BY <1>0, <2>8, <1>g, <1>w, <3>1 DEF Rewrite, Writing
  <2>9. CASE AppendLine(p)
    <3>1. Receipt(p) \in Receipts
      BY <1>0, <2>9, HeadTailProperties DEF Begun, Receipt, AppendLine
    <3> DEFINE line == <<Receipt(p)>>
    <3>2. line \in Seq(Lines) /\ AddToLive(Whole(line))
      BY <2>9, <3>1, BrokenLines DEF AppendLine
    <3>. HIDE DEF line
    <3>3. live' \in Seq(Lines) /\ UNCHANGED archived /\ cut' \subseteq {"live", "archived"}
      BY <3>2, WholeWrite, AddedToLive
    <3>. QED
      BY <1>0, <2>9, <1>g, <1>w, <3>3 DEF AppendLine, Writing
  <2>10. CASE Mirror(p)
    <3>1. pc[p] \notin Writing /\ queue[p] # <<>>
      BY <2>10, <1>w DEF Mirror, Begun
    <3>. QED
      BY <1>0, <2>10, <1>e, <3>1 DEF Mirror
  <2>. QED
    BY <1>1, <2>1, <2>2, <2>3, <2>4, <2>5, <2>6, <2>7, <2>8, <2>9, <2>10 DEF Progress
<1>2. ASSUME NEW p \in Procs, Call(p) PROVE TInv'
  <2>1. calls[p] + 1 \in 1 .. MaxCalls /\ calls[p] + 1 \in 0 .. MaxCalls
    BY <1>2 DEF Call, TypeOK
  <2>2. [by |-> p, n |-> calls[p] + 1] \in Receipts
    BY <2>1 DEF Receipts
  <2>3. Append(queue[p], [by |-> p, n |-> calls[p] + 1]) \in Seq(Receipts) \ {<<>>}
    <3>. PICK new \in Receipts : new = [by |-> p, n |-> calls[p] + 1]
      BY <2>2
    <3>1. Append(queue[p], new) \in Seq(Receipts) \ {<<>>}
      BY <1>0, AppendProperties
    <3>. QED
      BY <3>1
  <2>4. /\ queue' = [queue EXCEPT ![p] = Append(queue[p], [by |-> p, n |-> calls[p] + 1])]
        /\ calls' = [calls EXCEPT ![p] = calls[p] + 1]
    BY <1>2 DEF Call, Enqueued
  <2>5. queue' \in [Procs -> Seq(Receipts)] /\ calls' \in [Procs -> 0 .. MaxCalls]
    BY <2>1, <2>3, <2>4 DEF TypeOK
  <2>6. Begun'
    BY <1>2, <2>3, <2>4 DEF Begun, Call, TypeOK
  <2>. QED
    BY <1>2, <2>5, <2>6 DEF TypeOK, Call
<1>3. ASSUME NEW p \in Procs, DiskFails(p) PROVE TInv'
  <2>1. /\ live' \in Seq(Lines) /\ archived' \in Seq(Lines)
        /\ cut' \subseteq {"live", "archived"}
    BY <1>3, PartWrittenType DEF DiskFails
  <2>2. pc[p] \in Writing /\ queue[p] # <<>>
    BY <1>3 DEF DiskFails, Begun, Writing
  <2>. QED
    BY <1>3, <1>e, <2>1, <2>2 DEF DiskFails
<1>4. ASSUME NEW p \in Procs, MirrorFails(p) PROVE TInv'
  <2>1. pc[p] \notin Writing /\ queue[p] # <<>>
    BY <1>4, <1>w DEF MirrorFails, Begun
  <2>. QED
    BY <1>0, <1>4, <1>e, <2>1 DEF MirrorFails
<1>5. ASSUME NEW p \in Procs, Crash(p) PROVE TInv'
  <2>1. /\ live' \in Seq(Lines) /\ archived' \in Seq(Lines)
        /\ cut' \subseteq {"live", "archived"}
    BY <1>5, PartWrittenType DEF Crash
  <2>2. NoSnap \in [keep : Seq(Receipts), archive : Seq(Receipts)] /\ <<>> \in Seq(Receipts)
    BY DEF NoSnap
  <2>3. /\ pc' = [pc EXCEPT ![p] = "dead"]
        /\ queue' = [queue EXCEPT ![p] = <<>>]
        /\ snap' = [snap EXCEPT ![p] = NoSnap]
    BY <1>5 DEF Crash, Goto
  <2>4. /\ pc' \in [Procs -> Pcs] /\ pc'[p] = "dead"
        /\ queue' \in [Procs -> Seq(Receipts)]
        /\ snap' \in [Procs -> [keep : Seq(Receipts), archive : Seq(Receipts)]]
        /\ \A q \in Procs \ {p} : pc'[q] = pc[q] /\ queue'[q] = queue[q]
    BY <1>w, <2>2, <2>3 DEF TypeOK
  <2>5. Begun'
    BY <2>4 DEF Begun
  <2>. QED
    BY <1>5, <1>w, <2>1, <2>4, <2>5 DEF TypeOK, Crash
<1>6. ASSUME NEW r \in Receipts, Age(r) PROVE TInv'
  BY <1>6 DEF Age, TypeOK, Begun
<1>7. CASE TakeStaleLock
  <2>1. ~ taken' => \A q \in Procs : pc[q] \notin Writing
    BY <1>7, <1>w DEF TakeStaleLock, TypeOK
  <2>2. lock \in Procs /\ (taken' => "stall" \in Faults)
    BY <1>7 DEF TakeStaleLock, TypeOK
  <2>3. taken' \in BOOLEAN
    BY <1>7 DEF TakeStaleLock
  <2>. QED
    BY <1>7, <2>1, <2>2, <2>3 DEF TakeStaleLock, TypeOK, Begun
<1>8. CASE UNCHANGED vars
  BY <1>8 DEF vars, TypeOK, Begun
<1>. QED
  BY <1>1, <1>2, <1>3, <1>4, <1>5, <1>6, <1>7, <1>8 DEF Next

LEMMA AlwaysTInv == Spec => []TInv
<1>. QED
  BY InitTInv, NextTInv, PTL DEF Spec

\* The files, the queues and what an append has read hold receipts and broken
\* lines, and only the process that has the lock is at work on the files.
THEOREM TypeCorrect == Spec => []TypeOK
<1>1. TInv => TypeOK
  BY DEF TInv
<1>. QED
  BY <1>1, AlwaysTInv, PTL

-----------------------------------------------------------------------------
(* How a receipt may vanish *)

\* While a file is rewritten it is empty, but for what comes of a lock that was
\* taken; and before that, what is not to be kept has reached the archive for
\* good, but perhaps the first of it.
VInv ==
  \A p \in Procs :
    /\ pc[p] = "rewriting" /\ ~ taken => live = <<>>
    /\ pc[p] = "truncating" =>
         \A k \in DOMAIN snap[p].archive :
           \/ snap[p].archive[k] \in FirmArchived
           \/ k = 1 /\ Garbled \in Range(archived)

\* Only one process at a time is at work on the files, while no lock is taken
\* from a process at work.
LEMMA OneWriter ==
  ASSUME TInv, ~ taken, NEW p \in Procs, pc[p] \in Writing
  PROVE  \A q \in Procs \ {p} : pc[q] \notin Writing
BY DEF TInv, TypeOK

\* What a write that is cut off leaves where it was.
LEMMA PartWrittenLoses ==
  ASSUME TInv, NEW p \in Procs, PartWritten(p)
  PROVE  /\ FirmArchived \subseteq FirmArchived'
         /\ Garbled \in Range(archived) => Garbled \in Range(archived')
         /\ pc[p] # "archiving" => UNCHANGED archived
         /\ pc[p] # "rewriting" => FirmLive \subseteq FirmLive'
         /\ pc[p] \notin {"rewriting", "appending"} => UNCHANGED live
<1>1. /\ live \in Seq(Lines) /\ archived \in Seq(Lines)
      /\ snap[p].keep \in Seq(Receipts) /\ snap[p].archive \in Seq(Receipts)
  BY DEF TInv, TypeOK
<1>2. CASE UNCHANGED <<live, archived, cut>>
  <2>1. FirmLive' = FirmLive /\ FirmArchived' = FirmArchived
    BY <1>2, FirmStays
  <2>. QED
    BY <1>2, <2>1
<1>3. CASE pc[p] = "archiving" /\ \E part \in Parts(snap[p].archive) : AddToArchive(part)
  <2>1. PICK part \in Parts(snap[p].archive) : AddToArchive(part)
    BY <1>3
  <2>2. part.lines \in Seq(Lines) /\ part.cut \in BOOLEAN
    BY <1>1, PartsAreParts
  <2>. QED
    BY <1>3, <2>1, <2>2, AddedToArchive
<1>4. CASE pc[p] = "rewriting" /\ \E part \in Parts(snap[p].keep) : WriteOverLive(part)
  <2>1. PICK part \in Parts(snap[p].keep) : WriteOverLive(part)
    BY <1>4
  <2>2. part.lines \in Seq(Lines) /\ part.cut \in BOOLEAN
    BY <1>1, PartsAreParts
  <2>. QED
    BY <1>4, <2>1, <2>2, WrittenOverLive
<1>5. CASE pc[p] = "appending" /\ \E part \in Parts(<<Receipt(p)>>) : AddToLive(part)
  <2>1. Receipt(p) \in Receipts
    BY <1>5, HeadTailProperties DEF TInv, TypeOK, Begun, Receipt
  <2>2. PICK part \in Parts(<<Receipt(p)>>) : AddToLive(part)
    BY <1>5
  <2>3. part.lines \in {<<>>, <<Receipt(p)>>, <<Garbled>>} /\ part.cut \in BOOLEAN
    BY <2>1, <2>2, PartsOfOne
  <2>4. <<>> \in Seq(Lines) /\ <<Receipt(p)>> \in Seq(Lines) /\ <<Garbled>> \in Seq(Lines)
    BY <2>1, BrokenLines
  <2>5. part.lines \in Seq(Lines)
    BY <2>3, <2>4
  <2>. QED
    BY <1>5, <2>2, <2>3, <2>5, AddedToLive
<1>. QED
  BY <1>2, <1>3, <1>4, <1>5 DEF PartWritten

\* What is no longer held was in a file, if no rewrite is left.
LEMMA HeldLoses ==
  ASSUME NEW r \in Held \ Held',
         \A p \in Procs : pc[p] = "rewriting" =>
           pc'[p] = "rewriting" /\ snap'[p].keep = snap[p].keep
  PROVE  \/ r \in Range(live) \ Range(live')
         \/ r \in Range(archived) \ Range(archived')
<1>1. InRewrite \subseteq InRewrite'
  BY DEF InRewrite
<1>. QED
  BY <1>1 DEF Held

\* What stays where it was is held on to.
LEMMA HeldStays ==
  ASSUME Range(live) \subseteq Range(live'), Range(archived) \subseteq Range(archived'),
         \A p \in Procs : pc[p] = "rewriting" =>
           pc'[p] = "rewriting" /\ snap'[p].keep = snap[p].keep
  PROVE  Held \ Held' = {}
BY HeldLoses

LEMMA NextVanishes ==
  TInv /\ TInv' /\ VInv /\ [Next]_vars => VInv' /\ VanishStep
<1>. SUFFICES ASSUME TInv, TInv', VInv, [Next]_vars PROVE VInv' /\ VanishStep
  OBVIOUS
<1>0. /\ live \in Seq(Lines) /\ archived \in Seq(Lines)
      /\ live' \in Seq(Lines) /\ archived' \in Seq(Lines)
      /\ \A p \in Procs : /\ snap[p].keep \in Seq(Receipts) /\ snap[p].archive \in Seq(Receipts)
                          /\ queue[p] \in Seq(Receipts)
  BY DEF TInv, TypeOK
<1>f. /\ FirmLive \subseteq Range(live) /\ FirmArchived \subseteq Range(archived)
      /\ FirmLive' \subseteq Range(live') /\ FirmArchived' \subseteq Range(archived')
      /\ \A r \in Range(live) \ FirmLive : "live" \in cut /\ r = Last(live)
      /\ \A r \in Range(archived) \ FirmArchived : "archived" \in cut /\ r = Last(archived)
  <2>1. FirmLive' \subseteq Range(live') /\ FirmArchived' \subseteq Range(archived')
    <3>1. ("live" \in cut') \in BOOLEAN /\ ("archived" \in cut') \in BOOLEAN
      OBVIOUS
    <3>. QED
      BY <1>0, <3>1, FirmLines, Zenon DEF FirmLive, FirmArchived
  <2>. QED
    BY <1>0, <2>1, FirmIsThere
<1>v. ASSUME FirmArchived \subseteq FirmArchived',
             Garbled \in Range(archived) => Garbled \in Range(archived'),
             \A p \in Procs : pc'[p] = "rewriting" /\ ~ taken' =>
               pc[p] = "rewriting" /\ ~ taken /\ live' = live,
             \A p \in Procs : pc'[p] = "truncating" => pc[p] = "truncating" /\ snap'[p] = snap[p]
      PROVE  VInv'
  BY <1>v DEF VInv
<1>h. Held \ Held' = {} => VanishStep
  BY DEF VanishStep
\* A step by which nothing is written.
<1>u. UNCHANGED <<live, archived, cut>> =>
        FirmLive' = FirmLive /\ FirmArchived' = FirmArchived
  BY FirmStays
\* A step of p by which nothing is written, and p is not at work on the files.
<1>i. ASSUME NEW p \in Procs, pc[p] \notin {"truncating", "rewriting"},
             pc'[p] \notin {"truncating", "rewriting"},
             \A q \in Procs \ {p} : pc'[q] = pc[q] /\ snap'[q] = snap[q],
             UNCHANGED <<live, archived, cut, taken>>
      PROVE  VInv' /\ VanishStep
  <2>1. VInv'
    BY <1>i, <1>u, <1>v
  <2>2. Held \ Held' = {}
    BY <1>i, HeldStays
  <2>. QED
    BY <1>h, <2>1, <2>2
<1>e. ASSUME NEW p \in Procs, queue[p] # <<>>, NEW how \in {"resolved", "rejected"},
             End(p, how), UNCHANGED <<live, archived, cut, taken>>,
             pc[p] \notin {"truncating", "rewriting"}
      PROVE  VInv' /\ VanishStep
  <2>1. /\ pc'[p] = "idle"
        /\ \A q \in Procs \ {p} : pc'[q] = pc[q] /\ snap'[q] = snap[q]
    BY <1>e, EndType
  <2>. QED
    BY <1>e, <1>i, <2>1
\* p goes on to another step of its append.
<1>g. ASSUME NEW p \in Procs, NEW step, Goto(p, step)
      PROVE  pc'[p] = step /\ \A q \in Procs \ {p} : pc'[q] = pc[q]
  BY <1>g DEF Goto, TInv, TypeOK
\* A write to the end of the archive loses its last line at most, if that was cut.
<1>a. ASSUME NEW p \in Procs, pc[p] = "archiving", FirmArchived \subseteq FirmArchived',
             UNCHANGED live,
             \A q \in Procs : pc[q] = "rewriting" =>
               pc'[q] = "rewriting" /\ snap'[q].keep = snap[q].keep
      PROVE  VanishStep
  <2>1. ASSUME NEW r \in Held \ Held' PROVE "archived" \in cut /\ r = Last(archived)
    <3>1. r \in Range(archived) \ Range(archived')
      BY <1>a, <2>1, HeldLoses
    <3>. QED
      BY <1>a, <1>f, <3>1
  <2>. QED
    BY <1>a, <2>1 DEF VanishStep
\* So does a write to the end of the file.
<1>l. ASSUME NEW p \in Procs, pc[p] = "appending", FirmLive \subseteq FirmLive',
             UNCHANGED archived,
             \A q \in Procs : pc[q] = "rewriting" =>
               pc'[q] = "rewriting" /\ snap'[q].keep = snap[q].keep
      PROVE  VanishStep
  <2>1. ASSUME NEW r \in Held \ Held' PROVE "live" \in cut /\ r = Last(live)
    <3>1. r \in Range(live) \ Range(live')
      BY <1>l, <2>1, HeldLoses
    <3>. QED
      BY <1>l, <1>f, <3>1
  <2>. QED
    BY <1>l, <2>1 DEF VanishStep
<1>1. ASSUME NEW p \in Procs, Progress(p) PROVE VInv' /\ VanishStep
  <2>1. CASE Read(p)
    <3>1. \A q \in Procs \ {p} : snap'[q] = snap[q]
      BY <2>1 DEF Read, TInv, TypeOK
    <3>2. pc'[p] \in {"append_lock", "archive_lock"} /\ \A q \in Procs \ {p} : pc'[q] = pc[q]
      BY <1>g, <2>1 DEF Read
    <3>. QED
      BY <1>i, <2>1, <3>1, <3>2 DEF Read
  <2>2. CASE ReadRejected(p)
    BY <1>e, <2>2 DEF ReadRejected
  <2>3. CASE Lock(p)
    <3>1. pc'[p] \in {"archiving", "appending"} /\ \A q \in Procs \ {p} : pc'[q] = pc[q]
      BY <1>g, <2>3 DEF Lock
    <3>. QED
      BY <1>i, <2>3, <3>1 DEF Lock
  <2>4. CASE LockRejected(p)
    BY <1>e, <2>4 DEF LockRejected, TInv, Begun
  <2>5. CASE Unlock(p)
    <3>1. pc'[p] \in {"append_lock", "mirror"} /\ \A q \in Procs \ {p} : pc'[q] = pc[q]
      BY <1>g, <2>5 DEF Unlock
    <3>. QED
      BY <1>i, <2>5, <3>1 DEF Unlock
  <2>6. CASE Archive(p)
    <3>1. pc'[p] = "truncating" /\ \A q \in Procs \ {p} : pc'[q] = pc[q]
      BY <1>g, <2>6 DEF Archive
    <3> DEFINE old == snap[p].archive
    <3>2. old \in Seq(Lines) /\ AddToArchive(Whole(old))
      BY <1>0, <2>6, SeqMonotonic, BrokenLines DEF Archive, AppendArchive
    <3>3. /\ FirmArchived \subseteq FirmArchived' /\ UNCHANGED live
          /\ Garbled \in Range(archived) => Garbled \in Range(archived')
          /\ \A k \in DOMAIN old :
               old[k] \in FirmArchived' \/ (k = 1 /\ Garbled \in Range(archived'))
      <4>. HIDE DEF old
      <4>. QED
        BY <3>2, WholeWrite, AddedToArchive
    <3>5. UNCHANGED <<snap, taken>> /\ pc[p] = "archiving"
      BY <2>6 DEF Archive
    <3>6. VInv'
      BY <3>1, <3>3, <3>5 DEF VInv
    <3>7. VanishStep
      BY <1>a, <3>1, <3>3, <3>5
    <3>. QED
      BY <3>6, <3>7
  <2>7. CASE Truncate(p)
    <3>1. pc'[p] = "rewriting" /\ \A q \in Procs \ {p} : pc'[q] = pc[q]
      BY <1>g, <2>7 DEF Truncate
    <3>2. live' = <<>> /\ UNCHANGED <<archived, snap, taken>> /\ pc[p] = "truncating"
      BY <2>7 DEF Truncate
    <3>3. FirmArchived' = FirmArchived
      <4>1. "archived" \in cut' <=> "archived" \in cut
        BY <2>7 DEF Truncate
      <4>. QED
        BY <3>2, <4>1, FirmStays
    <3>4. VInv'
      BY <3>1, <3>2, <3>3 DEF VInv
    <3>5. ASSUME NEW r \in Held \ Held'
          PROVE  /\ r \notin Range(snap[p].keep)
                 /\ \/ r \notin Range(snap[p].archive)
                    \/ r = Head(snap[p].archive) /\ Garbled \in Range(archived)
      <4>1. Range(snap[p].keep) \subseteq InRewrite' /\ r \notin InRewrite'
        BY <3>1, <3>2 DEF InRewrite, Held
      <4>2. r \notin Range(archived)
        BY <3>2 DEF Held
      <4>3. ASSUME r \in Range(snap[p].archive)
            PROVE  r = Head(snap[p].archive) /\ Garbled \in Range(archived)
        <5>1. PICK k \in DOMAIN snap[p].archive : snap[p].archive[k] = r
          BY <4>3 DEF Range
        <5>2. k = 1 /\ Garbled \in Range(archived)
          BY <1>f, <3>2, <4>2, <5>1 DEF VInv
        <5>. QED
          BY <1>0, <5>1, <5>2
      <4>. QED
        BY <4>1, <4>3
    <3>6. VanishStep
      BY <3>2, <3>5 DEF VanishStep
    <3>. QED
      BY <3>4, <3>6
  <2>8. CASE Rewrite(p)
    <3>1. pc'[p] = "archived" /\ \A q \in Procs \ {p} : pc'[q] = pc[q]
      BY <1>g, <2>8 DEF Rewrite
    <3>2. UNCHANGED <<snap, taken>> /\ pc[p] = "rewriting"
      BY <2>8 DEF Rewrite
    <3> DEFINE keep == snap[p].keep
    <3>3. keep \in Seq(Lines) /\ WriteOverLive(Whole(keep))
      BY <1>0, <2>8, SeqMonotonic, BrokenLines DEF Rewrite
    <3>4. /\ UNCHANGED archived /\ FirmArchived' = FirmArchived
          /\ Range(keep) \subseteq Range(live')
      <4>. HIDE DEF keep
      <4>. QED
        BY <3>3, WholeWrite, WrittenOverLive
    <3>5. VInv'
      <4>1. ~ taken => \A q \in Procs \ {p} : pc[q] # "rewriting"
        BY <3>2, OneWriter DEF Writing
      <4>. QED
        BY <1>v, <3>1, <3>2, <3>4, <4>1
    <3>6. ASSUME NEW r \in Held \ Held' PROVE taken /\ r \in Range(live)
      <4>1. InRewrite \subseteq InRewrite' \cup Range(live')
        BY <3>1, <3>2, <3>4 DEF InRewrite
      <4>2. r \in Range(live)
        BY <3>4, <4>1 DEF Held
      <4>3. live # <<>>
        BY <4>2 DEF Range
      <4>. QED
        BY <3>2, <4>2, <4>3 DEF VInv, TInv, TypeOK
    <3>7. VanishStep
      BY <3>2, <3>6 DEF VanishStep
    <3>. QED
      BY <3>5, <3>7
  <2>9. CASE AppendLine(p)
    <3>1. pc'[p] = "appended" /\ \A q \in Procs \ {p} : pc'[q] = pc[q]
      BY <1>g, <2>9 DEF AppendLine
    <3>2. pc[p] = "appending" /\ UNCHANGED <<snap, taken>>
      BY <2>9 DEF AppendLine
    <3>3. Receipt(p) \in Receipts
      BY <1>0, <3>2, HeadTailProperties DEF TInv, Begun, Receipt
    <3> DEFINE line == <<Receipt(p)>>
    <3>4. line \in Seq(Lines) /\ AddToLive(Whole(line))
      BY <2>9, <3>3, BrokenLines DEF AppendLine
    <3>. HIDE DEF line
    <3>5. /\ UNCHANGED archived /\ FirmArchived' = FirmArchived
          /\ FirmLive \subseteq FirmLive'
      BY <3>4, WholeWrite, AddedToLive
    <3>6. VInv'
      <4>1. ~ taken => \A q \in Procs \ {p} : pc[q] # "rewriting"
        BY <3>2, OneWriter DEF Writing
      <4>. QED
        BY <1>v, <3>1, <3>2, <3>5, <4>1
    <3>7. VanishStep
      BY <1>l, <3>1, <3>2, <3>5
    <3>. QED
      BY <3>6, <3>7
  <2>10. CASE Mirror(p)
    BY <1>e, <2>10 DEF Mirror, TInv, Begun
  <2>. QED
    BY <1>1, <2>1, <2>2, <2>3, <2>4, <2>5, <2>6, <2>7, <2>8, <2>9, <2>10 DEF Progress
<1>k. ASSUME UNCHANGED <<live, archived, cut, pc, snap>>, taken => taken'
      PROVE  VInv' /\ VanishStep
  <2>1. VInv' /\ Held \ Held' = {}
    BY <1>k, <1>u DEF VInv, Held, InRewrite
  <2>. QED
    BY <1>h, <2>1
<1>2. ASSUME NEW p \in Procs, Call(p) PROVE VInv' /\ VanishStep
  BY <1>2, <1>k DEF Call
<1>p. ASSUME NEW p \in Procs, PartWritten(p), pc'[p] \in {"idle", "dead"}, UNCHANGED taken,
             \A q \in Procs \ {p} : pc'[q] = pc[q] /\ snap'[q] = snap[q]
      PROVE  VInv' /\ VanishStep
  <2>1. /\ FirmArchived \subseteq FirmArchived'
        /\ Garbled \in Range(archived) => Garbled \in Range(archived')
        /\ pc[p] # "archiving" => UNCHANGED archived
        /\ pc[p] # "rewriting" => FirmLive \subseteq FirmLive'
        /\ pc[p] \notin {"rewriting", "appending"} => UNCHANGED live
    BY <1>p, PartWrittenLoses
  <2>2. VInv'
    <3>1. ~ taken /\ pc[p] \in {"rewriting", "appending"} =>
            \A q \in Procs \ {p} : pc[q] # "rewriting"
      BY OneWriter DEF Writing
    <3>. QED
      BY <1>p, <1>v, <2>1, <3>1
  <2>3. CASE pc[p] = "rewriting"
    BY <1>p, <2>2, <2>3 DEF VanishStep
  <2>4. CASE pc[p] = "archiving"
    BY <1>a, <1>p, <2>1, <2>2, <2>4
  <2>5. CASE pc[p] = "appending"
    BY <1>l, <1>p, <2>1, <2>2, <2>5
  <2>6. CASE pc[p] \notin {"rewriting", "archiving", "appending"}
    <3>1. Held \ Held' = {}
      BY <1>p, <2>1, <2>6, HeldStays
    <3>. QED
      BY <1>h, <2>2, <3>1
  <2>. QED
    BY <2>2, <2>3, <2>4, <2>5, <2>6
<1>3. ASSUME NEW p \in Procs, DiskFails(p) PROVE VInv' /\ VanishStep
  <2>1. queue[p] # <<>> /\ End(p, "rejected") /\ PartWritten(p) /\ UNCHANGED taken
    BY <1>3 DEF DiskFails, TInv, Begun
  <2>. QED
    BY <1>p, <2>1, EndType
<1>4. ASSUME NEW p \in Procs, MirrorFails(p) PROVE VInv' /\ VanishStep
  BY <1>4, <1>e DEF MirrorFails, TInv, Begun
<1>5. ASSUME NEW p \in Procs, Crash(p) PROVE VInv' /\ VanishStep
  <2>1. pc'[p] = "dead" /\ \A q \in Procs \ {p} : pc'[q] = pc[q]
    BY <1>5, <1>g DEF Crash
  <2>2. \A q \in Procs \ {p} : snap'[q] = snap[q]
    BY <1>5 DEF Crash, TInv, TypeOK
  <2>. QED
    BY <1>5, <1>p, <2>1, <2>2 DEF Crash
<1>6. ASSUME NEW r \in Receipts, Age(r) PROVE VInv' /\ VanishStep
  BY <1>6, <1>k DEF Age
<1>7. CASE TakeStaleLock
  BY <1>7, <1>k DEF TakeStaleLock
<1>8. CASE UNCHANGED vars
  BY <1>8, <1>k DEF vars
<1>. QED
  BY <1>1, <1>2, <1>3, <1>4, <1>5, <1>6, <1>7, <1>8 DEF Next

LEMMA InitVInv == Init => VInv
BY DEF Init, VInv

\* A receipt disappears from the files by the rewrite of a process that had not
\* read it or whose archive garbled it, as the last line of a file that was cut
\* before its newline, by a rewrite that was cut off, or by one that wrote over
\* it after a lock was taken from a process at work; and in no other way, with
\* any number of processes.
THEOREM NoOtherLoss == Spec => VanishesOnlyInRewrite
<1>1. VanishStep => [VanishStep]_vars
  OBVIOUS
<1>2. TInv /\ TInv' /\ VInv /\ [Next]_vars => VInv' /\ [VanishStep]_vars
  BY <1>1, NextVanishes
<1>. QED
  BY <1>2, InitTInv, NextTInv, InitVInv, PTL DEF Spec, VanishesOnlyInRewrite

-----------------------------------------------------------------------------
(* The order of the calls *)

\* The receipts in the files, and in the memory of a process that archives.
Seen == Receipts \cap (Range(live) \cup Range(archived)
          \cup UNION {Range(snap[p].keep) \cup Range(snap[p].archive) : p \in Procs})

\* A queue holds the receipts of its process in the order of the calls.
InOrder ==
  \A p \in Procs :
    /\ \A i \in DOMAIN queue[p] : queue[p][i].by = p /\ queue[p][i].n <= calls[p]
    /\ \A i, j \in DOMAIN queue[p] : i < j => queue[p][i].n < queue[p][j].n

\* r precedes what its process has yet to write.
Past(r) ==
  /\ r.n <= calls[r.by]
  /\ \A k \in DOMAIN queue[r.by] :
       \/ r.n < queue[r.by][k].n
       \/ k = 1 /\ pc[r.by] \in {"appended", "mirror"} /\ r.n = queue[r.by][1].n

OInv ==
  /\ InOrder
  /\ \A r \in Seen : Past(r)
  /\ Ordered(live)
  /\ \A p \in Procs : Ordered(snap[p].keep)

LEMMA InitOInv == Init => OInv
BY DEF Init, OInv, InOrder, Seen, Ordered, NoSnap, Range

LEMMA TailEntries ==
  ASSUME NEW W, NEW s \in Seq(W), s # <<>>
  PROVE  /\ \A k \in DOMAIN Tail(s) : k + 1 \in DOMAIN s /\ k + 1 # 1 /\ Tail(s)[k] = s[k + 1]
         /\ Head(s) = s[1] /\ 1 \in DOMAIN s
         /\ \A k \in DOMAIN s : k # 1 => 1 < k
         /\ \A k \in DOMAIN s : k \in Nat
<1>1. /\ Len(s) \in Nat \ {0} /\ DOMAIN s = 1 .. Len(s)
  BY EmptySeq, LenProperties
<1>2. /\ Tail(s) \in Seq(W) /\ Len(Tail(s)) = Len(s) - 1
      /\ \A i \in 1 .. Len(Tail(s)) : Tail(s)[i] = s[i + 1]
  BY HeadTailProperties
<1>3. DOMAIN Tail(s) = 1 .. Len(s) - 1
  BY <1>2
<1>4. \A k \in 1 .. Len(s) - 1 : k + 1 \in 1 .. Len(s) /\ k + 1 # 1
  BY <1>1
<1>. QED
  BY <1>1, <1>2, <1>3, <1>4

\* How the queues, the counts and the places of the appends change.

\* A step that leaves the queues alone.
SameQueues ==
  /\ UNCHANGED <<calls, queue>>
  /\ \A q \in Procs : pc[q] \in {"appended", "mirror"} => pc'[q] \in {"appended", "mirror"}

\* The append in progress of p is over, or all of p.
QueueEnds(p) ==
  /\ UNCHANGED calls
  /\ \/ queue'[p] = <<>>
     \/ queue[p] # <<>> /\ queue'[p] = Tail(queue[p])
  /\ \A q \in Procs \ {p} : pc'[q] = pc[q] /\ queue'[q] = queue[q]

LEMMA QueueSteps ==
  ASSUME TInv, InOrder, SameQueues \/ \E p \in Procs : QueueEnds(p) \/ Call(p)
  PROVE  InOrder' /\ \A r \in Receipts : Past(r) => Past(r)'
<1>0. /\ \A p \in Procs : queue[p] \in Seq(Receipts) /\ calls[p] \in Nat
      /\ \A r \in Receipts : r.by \in Procs /\ r.n \in Nat
  <2>1. \A p \in Procs : queue[p] \in Seq(Receipts) /\ calls[p] \in Nat
    BY DEF TInv, TypeOK
  <2>2. \A r \in Receipts : r.by \in Procs /\ r.n \in Nat
    BY DEF Receipts
  <2>. QED
    BY <2>1, <2>2
<1>1. CASE SameQueues
  BY <1>0, <1>1 DEF InOrder, Past, SameQueues
<1>2. ASSUME NEW p \in Procs, QueueEnds(p)
      PROVE  InOrder' /\ \A r \in Receipts : Past(r) => Past(r)'
  <2>1. ASSUME NEW k \in DOMAIN queue'[p]
        PROVE  /\ k + 1 \in DOMAIN queue[p] /\ k + 1 # 1 /\ queue'[p][k] = queue[p][k + 1]
               /\ k \in Nat
    <3>1. queue[p] # <<>> /\ queue'[p] = Tail(queue[p])
      BY <1>2, <2>1 DEF QueueEnds
    <3>2. Tail(queue[p]) \in Seq(Receipts)
      BY <1>0, <3>1
    <3>. QED
      BY <1>0, <2>1, <3>1, <3>2, TailEntries
  <2>2. InOrder'
    <3>1. ASSUME NEW q \in Procs
          PROVE  /\ \A i \in DOMAIN queue'[q] : queue'[q][i].by = q /\ queue'[q][i].n <= calls'[q]
                 /\ \A i, j \in DOMAIN queue'[q] : i < j => queue'[q][i].n < queue'[q][j].n
      <4>1. CASE q = p
        <5>1. \A i, j \in DOMAIN queue'[p] : i < j => i + 1 < j + 1
          BY <2>1
        <5>2. \A i, j \in DOMAIN queue'[p] : i < j => queue'[p][i].n < queue'[p][j].n
          BY <2>1, <5>1 DEF InOrder
        <5>3. \A i \in DOMAIN queue'[p] : queue'[p][i].by = p /\ queue'[p][i].n <= calls[p]
          BY <2>1 DEF InOrder
        <5>4. calls' = calls
          BY <1>2 DEF QueueEnds
        <5>. QED
          BY <4>1, <5>2, <5>3, <5>4
      <4>2. CASE q # p
        BY <1>2, <4>2 DEF InOrder, QueueEnds
      <4>. QED
        BY <4>1, <4>2
    <3>. QED
      BY <3>1 DEF InOrder
  <2>3. ASSUME NEW r \in Receipts, Past(r) PROVE Past(r)'
    <3>1. r.by \in Procs
      BY <1>0
    <3>2. CASE r.by = p
      BY <1>2, <2>1, <2>3, <3>2 DEF Past, QueueEnds
    <3>3. CASE r.by # p
      BY <1>2, <2>3, <3>1, <3>3 DEF Past, QueueEnds
    <3>. QED
      BY <3>2, <3>3
  <2>. QED
    BY <2>2, <2>3
<1>3. ASSUME NEW p \in Procs, Call(p)
      PROVE  InOrder' /\ \A r \in Receipts : Past(r) => Past(r)'
  <2> DEFINE new == [by |-> p, n |-> calls[p] + 1]
  <2>1. /\ queue' = [queue EXCEPT ![p] = Append(queue[p], new)]
        /\ calls' = [calls EXCEPT ![p] = calls[p] + 1]
        /\ pc' = pc
    BY <1>3 DEF Call, Enqueued
  <2>2. new.by = p /\ new.n = calls[p] + 1 /\ new \in Receipts
    BY <1>3 DEF Call, TInv, TypeOK, Receipts
  <2>. HIDE DEF new
  <2>3. /\ queue'[p] = Append(queue[p], new) /\ calls'[p] = calls[p] + 1
        /\ \A q \in Procs \ {p} : queue'[q] = queue[q] /\ calls'[q] = calls[q]
    BY <2>1 DEF TInv, TypeOK
  <2> DEFINE m == Len(queue[p])
  <2>4. m \in Nat /\ DOMAIN queue[p] = 1 .. m
    BY <1>0, LenProperties
  <2>5. /\ Append(queue[p], new) \in Seq(Receipts)
        /\ Len(Append(queue[p], new)) = m + 1
        /\ \A k \in 1 .. m : Append(queue[p], new)[k] = queue[p][k]
        /\ Append(queue[p], new)[m + 1] = new
    BY <1>0, <2>2, AppendProperties
  <2>6. DOMAIN Append(queue[p], new) = 1 .. m + 1
    BY <2>5, LenProperties
  <2>. HIDE DEF m
  <2>7. /\ DOMAIN queue'[p] = 1 .. m + 1
        /\ \A k \in 1 .. m : queue'[p][k] = queue[p][k] /\ queue[p][k] \in Receipts
        /\ queue'[p][m + 1] = new
        /\ \A k \in 1 .. m + 1 : k = m + 1 \/ k \in 1 .. m
    BY <1>0, <2>3, <2>4, <2>5, <2>6, ElementOfSeq
  <2>8. InOrder'
    <3>1. ASSUME NEW q \in Procs
          PROVE  /\ \A i \in DOMAIN queue'[q] : queue'[q][i].by = q /\ queue'[q][i].n <= calls'[q]
                 /\ \A i, j \in DOMAIN queue'[q] : i < j => queue'[q][i].n < queue'[q][j].n
      <4>1. CASE q = p
        <5>1. \A k \in 1 .. m : /\ queue[p][k].by = p /\ queue[p][k].n \in Nat
                                /\ queue[p][k].n < calls[p] + 1
          BY <1>0, <2>4, <2>7 DEF InOrder
        <5>2. \A i, j \in 1 .. m : i < j => queue[p][i].n < queue[p][j].n
          BY <2>4 DEF InOrder
        <5>3. ASSUME NEW i \in 1 .. m + 1, NEW j \in 1 .. m + 1, i < j
              PROVE  queue'[p][i].n < queue'[p][j].n
          <6>1. i \in 1 .. m
            BY <2>4, <5>3
          <6>2. CASE j = m + 1
            BY <2>2, <2>7, <5>1, <6>1, <6>2
          <6>3. CASE j # m + 1
            BY <2>7, <5>2, <5>3, <6>1, <6>3
          <6>. QED
            BY <6>2, <6>3
        <5>4. ASSUME NEW i \in 1 .. m + 1
              PROVE  queue'[p][i].by = p /\ queue'[p][i].n <= calls[p] + 1
          <6>1. CASE i = m + 1
            BY <1>0, <2>2, <2>7, <6>1
          <6>2. CASE i # m + 1
            BY <1>0, <2>7, <5>1, <6>2
          <6>. QED
            BY <6>1, <6>2
        <5>. QED
          BY <2>3, <2>7, <4>1, <5>3, <5>4
      <4>2. CASE q # p
        BY <2>3, <4>2 DEF InOrder
      <4>. QED
        BY <4>1, <4>2
    <3>. QED
      BY <3>1 DEF InOrder
  <2>9. ASSUME NEW r \in Receipts, Past(r) PROVE Past(r)'
    <3>1. r.by \in Procs /\ r.n \in Nat /\ r.n <= calls[r.by]
      BY <1>0, <2>9 DEF Past
    <3>2. CASE r.by = p
      <4>1. r.n < new.n /\ r.n <= calls'[p]
        BY <1>0, <2>2, <2>3, <3>1, <3>2
      <4>2. ASSUME NEW k \in 1 .. m + 1
            PROVE  \/ r.n < queue'[p][k].n
                   \/ k = 1 /\ pc'[p] \in {"appended", "mirror"} /\ r.n = queue'[p][1].n
        <5>1. CASE k = m + 1
          BY <2>7, <4>1, <5>1
        <5>2. CASE k # m + 1
          BY <2>1, <2>4, <2>7, <2>9, <3>2, <5>2 DEF Past
        <5>. QED
          BY <5>1, <5>2
      <4>. QED
        BY <2>7, <3>2, <4>1, <4>2 DEF Past
    <3>3. CASE r.by # p
      BY <2>1, <2>3, <2>9, <3>1, <3>3 DEF Past
    <3>. QED
      BY <3>2, <3>3
  <2>. QED
    BY <2>8, <2>9
<1>. QED
  BY <1>1, <1>2, <1>3

LEMMA SeenEntries ==
  /\ \A r \in Receipts : r \in Range(live) \/ r \in Range(archived) => r \in Seen
  /\ \A r \in Receipts, p \in Procs :
       r \in Range(snap[p].keep) \/ r \in Range(snap[p].archive) => r \in Seen
BY DEF Seen

\* The receipt that is written, or was not written to the end, precedes those
\* its process has yet to write.
LEMMA FrontIsPast ==
  ASSUME TInv, InOrder, NEW p \in Procs, queue[p] # <<>>, UNCHANGED calls,
         (UNCHANGED queue /\ pc'[p] = "appended") \/ QueueEnds(p),
         NEW x, x = Receipt(p)
  PROVE  x \in Receipts /\ Past(x)'
<1>0. queue[p] \in Seq(Receipts) /\ calls[p] \in Nat
  BY DEF TInv, TypeOK
<1>1. /\ x \in Receipts /\ x = queue[p][1] /\ 1 \in DOMAIN queue[p]
      /\ \A k \in DOMAIN queue[p] : k # 1 => 1 < k
  BY <1>0, ElementOfSeq, TailEntries DEF Receipt
<1>2. /\ x.by = p /\ x.n <= calls[p]
      /\ \A k \in DOMAIN queue[p] : k # 1 => x.n < queue[p][k].n
  BY <1>1 DEF InOrder
<1>3. CASE UNCHANGED queue /\ pc'[p] = "appended"
  BY <1>1, <1>2, <1>3 DEF Past
<1>4. CASE QueueEnds(p)
  <2>1. ASSUME NEW k \in DOMAIN queue'[p] PROVE x.n < queue'[p][k].n
    <3>1. queue'[p] = Tail(queue[p])
      BY <1>4, <2>1 DEF QueueEnds
    <3>2. k + 1 \in DOMAIN queue[p] /\ k + 1 # 1 /\ Tail(queue[p])[k] = queue[p][k + 1]
      BY <1>0, <2>1, <3>1, TailEntries
    <3>. QED
      BY <1>2, <3>1, <3>2
  <2>2. /\ x.n <= calls'[x.by]
        /\ \A k \in DOMAIN queue'[x.by] : x.n < queue'[x.by][k].n
    BY <1>2, <2>1
  <2>. QED
    BY <1>1, <2>2 DEF Past
<1>. QED
  BY <1>1, <1>3, <1>4

\* A write behind the file, which may not finish, keeps the order.
LEMMA AppendedKeeps ==
  ASSUME TInv, OInv, NEW p \in Procs, pc[p] = "appending",
         NEW write, write.lines \in {<<>>, <<Receipt(p)>>, <<Garbled>>},
         write.cut \in BOOLEAN, AddToLive(write)
  PROVE  /\ UNCHANGED archived /\ Ordered(live')
         /\ \A r \in Receipts \cap Range(live') : r \in Seen \/ r = Receipt(p)
<1>. PICK x : x = Receipt(p)
  OBVIOUS
<1>0. live \in Seq(Lines) /\ queue[p] \in Seq(Receipts) /\ queue[p] # <<>>
  BY DEF TInv, TypeOK, Begun
<1>1. /\ x \in Receipts /\ x = queue[p][1] /\ 1 \in DOMAIN queue[p]
  BY <1>0, ElementOfSeq, TailEntries DEF Receipt
<1>2. x.by = p
  BY <1>1 DEF OInv, InOrder
<1>3. \A r \in Range(live) \cap Receipts : r.by = x.by => r.n < x.n
  <2>1. ASSUME NEW r \in Range(live) \cap Receipts, r.by = x.by PROVE r.n < x.n
    <3>1. Past(r)
      BY SeenEntries DEF OInv
    <3>. QED
      BY <1>1, <1>2, <2>1, <3>1 DEF Past
  <2>. QED
    BY <2>1
<1>4. live' = WithLines(live, "live" \in cut, write.lines)
  BY DEF AddToLive
<1>. PICK isCut : isCut = ("live" \in cut)
  OBVIOUS
<1>5. isCut \in BOOLEAN /\ live' = WithLines(live, isCut, write.lines)
  BY <1>4
<1>6. <<>> \in Seq(Lines) /\ <<x>> \in Seq(Lines) /\ <<Garbled>> \in Seq(Lines)
  BY <1>1, BrokenLines
<1>7. write.lines \in Seq(Lines) /\ Range(write.lines) \subseteq {x, Garbled}
  <2>1. Range(<<>>) = {} /\ Range(<<x>>) = {x} /\ Range(<<Garbled>>) = {Garbled}
    BY DEF Range
  <2>. QED
    BY <1>6, <2>1
<1>8. /\ UNCHANGED archived
      /\ Range(live') \subseteq Range(live) \cup Range(write.lines) \cup {Garbled}
  BY <1>7, AddedToLive
<1>9. Ordered(live')
  <2>1. CASE write.lines = <<>>
    <3>1. live' = live
      BY <1>0, <1>4, <2>1, ConcatEmptySeq DEF WithLines
    <3>. QED
      BY <3>1 DEF OInv
  <2>2. CASE write.lines = <<x>>
    BY <1>0, <1>1, <1>3, <1>5, <2>2, OrderedBehind, BrokenLines DEF OInv
  <2>3. CASE write.lines = <<Garbled>>
    BY <1>0, <1>5, <2>3, OrderedBehind, BrokenLines DEF OInv
  <2>. QED
    BY <2>1, <2>2, <2>3
<1>. QED
  BY <1>7, <1>8, <1>9, BrokenLines, SeenEntries

\* So do the other writes, if no lock was taken from a process at work.
LEMMA PartWrittenKeeps ==
  ASSUME TInv, VInv, ~ taken, OInv, NEW p \in Procs, PartWritten(p)
  PROVE  /\ Ordered(live')
         /\ \A r \in Receipts \cap (Range(live') \cup Range(archived')) :
              r \in Seen \/ (queue[p] # <<>> /\ r = Receipt(p))
<1>1. /\ live \in Seq(Lines) /\ archived \in Seq(Lines)
      /\ snap[p].keep \in Seq(Receipts) /\ snap[p].archive \in Seq(Receipts)
  BY DEF TInv, TypeOK
<1>2. CASE UNCHANGED <<live, archived, cut>>
  BY <1>2, SeenEntries DEF OInv
<1>3. CASE pc[p] = "archiving" /\ \E part \in Parts(snap[p].archive) : AddToArchive(part)
  <2>1. PICK part \in Parts(snap[p].archive) : AddToArchive(part)
    BY <1>3
  <2>2. /\ part.lines \in Seq(Lines) /\ part.cut \in BOOLEAN
        /\ \A i \in DOMAIN part.lines :
             part.lines[i] # Garbled =>
               i \in DOMAIN snap[p].archive /\ part.lines[i] = snap[p].archive[i]
    BY <1>1, PartsAreParts
  <2>3. \A r \in Range(part.lines) \cap Receipts : r \in Range(snap[p].archive)
    BY <2>2, BrokenLines DEF Range
  <2>4. /\ Range(archived') \subseteq Range(archived) \cup Range(part.lines) \cup {Garbled}
        /\ UNCHANGED live
    BY <2>1, <2>2, AddedToArchive
  <2>. QED
    BY <2>3, <2>4, BrokenLines, SeenEntries DEF OInv
<1>4. CASE pc[p] = "rewriting" /\ \E part \in Parts(snap[p].keep) : WriteOverLive(part)
  <2>1. PICK part \in Parts(snap[p].keep) : WriteOverLive(part)
    BY <1>4
  <2>2. /\ part.lines \in Seq(Lines) /\ part.cut \in BOOLEAN
        /\ \A i \in DOMAIN part.lines :
             part.lines[i] # Garbled =>
               i \in DOMAIN snap[p].keep /\ part.lines[i] = snap[p].keep[i]
    BY <1>1, PartsAreParts
  <2>3. live' = part.lines /\ UNCHANGED archived
    BY <1>4, <2>1, <2>2, WrittenOverLive DEF VInv
  <2>4. \A r \in Range(part.lines) \cap Receipts : r \in Range(snap[p].keep)
    BY <2>2, BrokenLines DEF Range
  <2>5. Ordered(live')
    BY <1>1, <2>3, OrderedPart DEF OInv
  <2>. QED
    BY <2>3, <2>4, <2>5, SeenEntries
<1>5. CASE pc[p] = "appending" /\ \E part \in Parts(<<Receipt(p)>>) : AddToLive(part)
  <2>1. queue[p] # <<>> /\ Receipt(p) \in Receipts
    BY <1>5, HeadTailProperties DEF TInv, TypeOK, Begun, Receipt
  <2>2. PICK part \in Parts(<<Receipt(p)>>) : AddToLive(part)
    BY <1>5
  <2>3. part.lines \in {<<>>, <<Receipt(p)>>, <<Garbled>>} /\ part.cut \in BOOLEAN
    BY <2>1, <2>2, PartsOfOne
  <2>. QED
    BY <1>5, <2>1, <2>2, <2>3, AppendedKeeps, SeenEntries
<1>. QED
  BY <1>2, <1>3, <1>4, <1>5 DEF PartWritten

LEMMA NextOInv ==
  ASSUME "stall" \notin Faults
  PROVE  TInv /\ VInv /\ OInv /\ [Next]_vars => OInv'
<1>. SUFFICES ASSUME TInv, VInv, OInv, [Next]_vars PROVE OInv'
  OBVIOUS
<1>t. ~ taken
  BY DEF TInv
<1>0. /\ live \in Seq(Lines) /\ archived \in Seq(Lines)
      /\ \A p \in Procs : /\ snap[p].keep \in Seq(Receipts) /\ snap[p].archive \in Seq(Receipts)
                          /\ queue[p] \in Seq(Receipts)
  BY DEF TInv, TypeOK
<1>q. SameQueues \/ (\E p \in Procs : QueueEnds(p) \/ Call(p))
      => InOrder' /\ \A r \in Receipts : Past(r) => Past(r)'
  BY QueueSteps DEF OInv
<1>s. ASSUME SameQueues \/ \E p \in Procs : QueueEnds(p) \/ Call(p),
             \A r \in Receipts \cap (Range(live') \cup Range(archived')) : r \in Seen \/ Past(r)',
             Ordered(live'),
             \A p \in Procs :
               \/ snap'[p] = snap[p] \/ snap'[p] = NoSnap
               \/ /\ Receipts \cap (Range(snap'[p].keep) \cup Range(snap'[p].archive)) \subseteq Seen
                  /\ Ordered(snap'[p].keep)
      PROVE  OInv'
  <2>1. Range(NoSnap.keep) = {} /\ Range(NoSnap.archive) = {} /\ Ordered(NoSnap.keep)
    BY DEF NoSnap, Range, Ordered
  <2>2. \A p \in Procs :
          /\ Receipts \cap (Range(snap'[p].keep) \cup Range(snap'[p].archive)) \subseteq Seen
          /\ Ordered(snap'[p].keep)
    <3>1. \A p \in Procs : snap'[p] = snap[p] =>
            /\ Receipts \cap (Range(snap'[p].keep) \cup Range(snap'[p].archive)) \subseteq Seen
            /\ Ordered(snap'[p].keep)
      BY SeenEntries DEF OInv
    <3>. QED
      BY <1>s, <2>1, <3>1
  <2>3. \A r \in Seen' : r \in Seen \/ Past(r)'
    BY <1>s, <2>2 DEF Seen
  <2>4. Seen \subseteq Receipts
    BY DEF Seen
  <2>5. \A r \in Seen' : Past(r)'
    BY <1>s, <1>q, <2>3, <2>4 DEF OInv
  <2>. QED
    BY <1>s, <1>q, <2>2, <2>5 DEF OInv
<1>e. ASSUME NEW p \in Procs, queue[p] # <<>>, NEW how \in {"resolved", "rejected"},
             End(p, how), UNCHANGED calls, Ordered(live'),
             \A r \in Receipts \cap (Range(live') \cup Range(archived')) :
               r \in Seen \/ r = Receipt(p)
      PROVE  OInv'
  <2>1. /\ queue'[p] = Tail(queue[p]) /\ snap'[p] = NoSnap
        /\ \A q \in Procs \ {p} : pc'[q] = pc[q] /\ queue'[q] = queue[q] /\ snap'[q] = snap[q]
    BY <1>e, EndType
  <2>2. QueueEnds(p)
    BY <1>e, <2>1 DEF QueueEnds
  <2>3. \A x : x = Receipt(p) => Past(x)'
    BY <1>e, <2>2, FrontIsPast DEF OInv
  <2>. QED
    BY <1>e, <1>s, <2>1, <2>2, <2>3
<1>k. ASSUME UNCHANGED <<live, archived>>
      PROVE  /\ Receipts \cap (Range(live') \cup Range(archived')) \subseteq Seen
             /\ Ordered(live')
  BY <1>k, SeenEntries DEF OInv
<1>g. ASSUME NEW p \in Procs, NEW step, Goto(p, step), UNCHANGED <<calls, queue>>,
             pc[p] \notin {"appended", "mirror"} \/ step \in {"appended", "mirror"}
      PROVE  SameQueues
  BY <1>g DEF Goto, SameQueues, TInv, TypeOK
<1>1. ASSUME NEW p \in Procs, Progress(p) PROVE OInv'
  <2>1. CASE Read(p)
    <3>1. SameQueues
      BY <2>1, <1>g DEF Read
    <3>2. /\ Range(Keep(live)) \subseteq Range(live) /\ Range(Old(live)) \subseteq Range(live)
          /\ Keep(live) \in Seq(Receipts) /\ live \in Seq(Receipts)
          /\ \E f : Places(Keep(live), live, f)
      BY <1>0, <2>1, ReadType DEF Read
    <3>3. Ordered(Keep(live))
      BY <3>2, OrderedPlaces DEF OInv
    <3>4. snap' = [snap EXCEPT ![p] = [keep |-> Keep(live), archive |-> Old(live)]]
      BY <2>1 DEF Read
    <3>5. /\ snap'[p].keep = Keep(live) /\ snap'[p].archive = Old(live)
          /\ \A q \in Procs \ {p} : snap'[q] = snap[q]
      BY <3>4 DEF TInv, TypeOK
    <3>6. Receipts \cap (Range(snap'[p].keep) \cup Range(snap'[p].archive)) \subseteq Seen
      BY <3>2, <3>5, SeenEntries
    <3>7. UNCHANGED <<live, archived>>
      BY <2>1 DEF Read
    <3>8. Ordered(snap'[p].keep)
      BY <3>3, <3>5
    <3>. QED
      BY <1>k, <1>s, <3>1, <3>5, <3>6, <3>7, <3>8
  <2>2. CASE ReadRejected(p)
    BY <1>e, <1>k, <2>2 DEF ReadRejected
  <2>3. CASE Lock(p)
    BY <1>g, <1>k, <1>s, <2>3 DEF Lock
  <2>4. CASE LockRejected(p)
    BY <1>e, <1>k, <2>4 DEF LockRejected, TInv, Begun
  <2>5. CASE Unlock(p)
    <3>1. SameQueues
      BY <1>g, <2>5 DEF Unlock
    <3>. QED
      BY <1>k, <1>s, <2>5, <3>1 DEF Unlock
  <2>6. CASE Archive(p)
    <3>1. SameQueues
      BY <1>g, <2>6 DEF Archive
    <3> DEFINE old == snap[p].archive
    <3>3. old \in Seq(Lines) /\ AddToArchive(Whole(old))
      BY <1>0, <2>6, SeqMonotonic, BrokenLines DEF Archive, AppendArchive
    <3>4. /\ Range(archived') \subseteq Range(archived) \cup Range(old) \cup {Garbled}
          /\ UNCHANGED live
      <4>. HIDE DEF old
      <4>. QED
        BY <3>3, WholeWrite, AddedToArchive
    <3>5. Receipts \cap (Range(live') \cup Range(archived')) \subseteq Seen
      BY <3>4, SeenEntries, BrokenLines
    <3>6. Ordered(live') /\ UNCHANGED snap
      BY <2>6, <3>4 DEF Archive, OInv
    <3>. QED
      BY <1>s, <3>1, <3>5, <3>6
  <2>7. CASE Truncate(p)
    <3>1. SameQueues
      BY <1>g, <2>7 DEF Truncate
    <3>2. Range(live') = {} /\ Ordered(live')
      BY <2>7 DEF Truncate, Range, Ordered
    <3>. QED
      BY <1>s, <2>7, <3>1, <3>2, SeenEntries DEF Truncate
  <2>8. CASE Rewrite(p)
    <3>1. SameQueues
      BY <1>g, <2>8 DEF Rewrite
    <3> DEFINE keep == snap[p].keep
    <3>4. keep \in Seq(Lines) /\ WriteOverLive(Whole(keep)) /\ live = <<>>
      BY <1>0, <1>t, <2>8, SeqMonotonic, BrokenLines DEF Rewrite, VInv
    <3>5. live' = keep /\ UNCHANGED archived
      <4>. HIDE DEF keep
      <4>. QED
        BY <3>4, WholeWrite, WrittenOverLive
    <3>2. live' = snap[p].keep /\ Ordered(live')
      BY <3>5 DEF OInv
    <3>3. Receipts \cap (Range(live') \cup Range(archived')) \subseteq Seen
      BY <3>2, <3>5, SeenEntries
    <3>. QED
      BY <1>s, <2>8, <3>1, <3>2, <3>3 DEF Rewrite
  <2>9. CASE AppendLine(p)
    <3>1. SameQueues
      BY <1>g, <2>9 DEF AppendLine
    <3>2. pc'[p] = "appended" /\ UNCHANGED <<calls, queue, snap>>
      BY <2>9 DEF AppendLine, Goto, TInv, TypeOK
    <3> DEFINE line == <<Receipt(p)>>
    <3>3. line \in {<<>>, <<Receipt(p)>>, <<Garbled>>} /\ AddToLive(Whole(line))
      BY <2>9 DEF AppendLine
    <3>4. /\ UNCHANGED archived /\ Ordered(live')
          /\ \A r \in Receipts \cap Range(live') : r \in Seen \/ r = Receipt(p)
      <4> DEFINE write == Whole(line)
      <4>1. /\ write.lines \in {<<>>, <<Receipt(p)>>, <<Garbled>>} /\ write.cut \in BOOLEAN
            /\ AddToLive(write) /\ pc[p] = "appending"
        BY <2>9 DEF AppendLine, Whole
      <4>. HIDE DEF write, line
      <4>. QED
        BY <4>1, AppendedKeeps
    <3>5. \A x : x = Receipt(p) => Past(x)'
      BY <2>9, <3>2, FrontIsPast DEF AppendLine, TInv, Begun, OInv
    <3>. QED
      BY <1>s, <3>1, <3>2, <3>4, <3>5, SeenEntries
  <2>10. CASE Mirror(p)
    BY <1>e, <1>k, <2>10 DEF Mirror, TInv, Begun
  <2>. QED
    BY <1>1, <2>1, <2>2, <2>3, <2>4, <2>5, <2>6, <2>7, <2>8, <2>9, <2>10 DEF Progress
<1>2. ASSUME NEW p \in Procs, Call(p) PROVE OInv'
  BY <1>2, <1>k, <1>s DEF Call
<1>3. ASSUME NEW p \in Procs, DiskFails(p) PROVE OInv'
  <2>1. queue[p] # <<>>
    BY <1>3 DEF DiskFails, TInv, Begun
  <2>. QED
    BY <1>3, <1>e, <1>t, <2>1, PartWrittenKeeps DEF DiskFails
<1>4. ASSUME NEW p \in Procs, MirrorFails(p) PROVE OInv'
  BY <1>4, <1>e, <1>k DEF MirrorFails, TInv, Begun
<1>5. ASSUME NEW p \in Procs, Crash(p) PROVE OInv'
  <2>1. /\ pc' = [pc EXCEPT ![p] = "dead"]
        /\ queue' = [queue EXCEPT ![p] = <<>>]
        /\ snap' = [snap EXCEPT ![p] = NoSnap]
    BY <1>5 DEF Crash, Goto
  <2>2. /\ queue'[p] = <<>> /\ snap'[p] = NoSnap
        /\ \A q \in Procs \ {p} : pc'[q] = pc[q] /\ queue'[q] = queue[q] /\ snap'[q] = snap[q]
    BY <2>1 DEF TInv, TypeOK
  <2>3. QueueEnds(p)
    BY <1>5, <2>2 DEF QueueEnds, Crash
  <2>4. /\ Ordered(live')
        /\ \A r \in Receipts \cap (Range(live') \cup Range(archived')) :
             r \in Seen \/ (queue[p] # <<>> /\ r = Receipt(p))
    BY <1>5, <1>t, PartWrittenKeeps DEF Crash
  <2>5. queue[p] # <<>> => \A x : x = Receipt(p) => Past(x)'
    BY <1>5, <2>3, FrontIsPast DEF Crash, OInv
  <2>. QED
    BY <1>s, <2>2, <2>3, <2>4, <2>5
<1>6. ASSUME NEW r \in Receipts, Age(r) PROVE OInv'
  BY <1>6, <1>k, <1>s DEF Age, SameQueues
<1>7. CASE TakeStaleLock
  BY <1>7, <1>k, <1>s DEF TakeStaleLock, SameQueues
<1>8. CASE UNCHANGED vars
  BY <1>8, <1>k, <1>s DEF vars, SameQueues
<1>. QED
  BY <1>1, <1>2, <1>3, <1>4, <1>5, <1>6, <1>7, <1>8 DEF Next

LEMMA AlwaysOInv ==
  ASSUME "stall" \notin Faults
  PROVE  Spec => [](TInv /\ OInv)
<1>1. TInv /\ TInv' /\ VInv /\ OInv /\ [Next]_vars => VInv' /\ OInv'
  BY NextVanishes, NextOInv
<1>. QED
  BY <1>1, InitTInv, NextTInv, InitVInv, InitOInv, PTL DEF Spec

\* The file of this week keeps the appends of a process in the order of its
\* calls, whatever is rejected, archived or cut off on the way, while no lock is
\* taken from a process at work.
THEOREM OrderOfCalls ==
  ASSUME "stall" \notin Faults
  PROVE  Spec => []CallOrder
<1>1. OInv => CallOrder
  BY DEF OInv, Ordered, CallOrder
<1>2. Spec => [](TInv /\ OInv)
  BY AlwaysOInv
<1>. QED
  BY <1>1, <1>2, PTL

-----------------------------------------------------------------------------
(* One process, whose writes do not fail *)

OneProcess == /\ \E p : Procs = {p}
              /\ Faults \subseteq {"mirror"}

\* No receipt is in s and t twice.
Once(s, t) == IsInjective(s) /\ IsInjective(t) /\ Range(s) \cap Range(t) = {}

\* While p archives, what it has read is what there is.
Archives(p) ==
  /\ pc[p] # "truncating" => Once(live, archived)
  /\ pc[p] \in {"archive_lock", "archiving"} =>
       /\ Once(snap[p].keep, snap[p].archive)
       /\ Range(live) = Range(snap[p].keep) \cup Range(snap[p].archive)
  /\ pc[p] \in {"truncating", "rewriting"} => Once(snap[p].keep, archived)
  /\ pc[p] = "truncating" => Range(live) \subseteq Range(snap[p].keep) \cup Range(archived)
  /\ pc[p] = "rewriting" => live = <<>>
  /\ pc[p] \in {"appended", "mirror"} => Receipt(p) \in Range(live)

AInv ==
  /\ live \in Seq(Receipts) /\ archived \in Seq(Receipts) /\ cut = {}
  /\ \A p \in Procs : Archives(p)
  /\ ended.resolved \subseteq Held

LEMMA InjectiveConcat ==
  ASSUME NEW W, NEW s \in Seq(W), NEW t \in Seq(W), Once(s, t)
  PROVE  IsInjective(s \o t)
<1>1. /\ Len(s) \in Nat /\ Len(t) \in Nat
      /\ DOMAIN s = 1 .. Len(s) /\ DOMAIN t = 1 .. Len(t)
  BY LenProperties
<1>2. /\ s \o t \in Seq(W) /\ Len(s \o t) = Len(s) + Len(t)
      /\ \A i \in 1 .. Len(s) + Len(t) :
           (s \o t)[i] = IF i <= Len(s) THEN s[i] ELSE t[i - Len(s)]
  BY ConcatProperties
<1>3. DOMAIN (s \o t) = 1 .. Len(s) + Len(t)
  BY <1>2, LenProperties
<1>4. SUFFICES ASSUME NEW i \in 1 .. Len(s) + Len(t), NEW j \in 1 .. Len(s) + Len(t),
                      (s \o t)[i] = (s \o t)[j]
               PROVE  i = j
  BY <1>3 DEF IsInjective
<1>5. CASE i <= Len(s) /\ j <= Len(s)
  <2>1. i \in DOMAIN s /\ j \in DOMAIN s /\ s[i] = s[j]
    BY <1>1, <1>2, <1>4, <1>5
  <2>. QED
    BY <2>1 DEF Once, IsInjective
<1>6. CASE ~ (i <= Len(s)) /\ ~ (j <= Len(s))
  <2>1. /\ i - Len(s) \in DOMAIN t /\ j - Len(s) \in DOMAIN t
        /\ t[i - Len(s)] = t[j - Len(s)]
    BY <1>1, <1>2, <1>4, <1>6
  <2>2. i - Len(s) = j - Len(s)
    BY <2>1 DEF Once, IsInjective
  <2>. QED
    BY <1>1, <2>2
<1>7. ASSUME NEW k \in 1 .. Len(s) + Len(t), NEW l \in 1 .. Len(s) + Len(t),
             k <= Len(s), ~ (l <= Len(s))
      PROVE  (s \o t)[k] # (s \o t)[l]
  <2>1. k \in DOMAIN s /\ l - Len(s) \in DOMAIN t
    BY <1>1, <1>7
  <2>2. (s \o t)[k] = s[k] /\ (s \o t)[l] = t[l - Len(s)]
    BY <1>2, <1>7
  <2>3. s[k] \in Range(s) /\ t[l - Len(s)] \in Range(t)
    BY <2>1 DEF Range
  <2>. QED
    BY <2>2, <2>3 DEF Once
<1>. QED
  BY <1>4, <1>5, <1>6, <1>7

LEMMA InjectivePlaces ==
  ASSUME NEW W, NEW s \in Seq(W), IsInjective(s), NEW t \in Seq(W), NEW f, Places(t, s, f)
  PROVE  IsInjective(t)
<1>1. SUFFICES ASSUME NEW i \in DOMAIN t, NEW j \in DOMAIN t, t[i] = t[j] PROVE i = j
  BY DEF IsInjective
<1>2. f[i] = f[j] /\ f[i] \in DOMAIN s /\ f[j] \in DOMAIN s
  BY <1>1 DEF Places, IsInjective
<1>3. ~ (i < j) /\ ~ (j < i)
  BY <1>2 DEF Places
<1>. QED
  BY <1>3

\* A new line behind a file.
LEMMA OnceBehind ==
  ASSUME NEW s \in Seq(Receipts), NEW t \in Seq(Receipts), Once(s, t),
         NEW x \in Receipts, x \notin Range(s), x \notin Range(t)
  PROVE  /\ s \o <<x>> \in Seq(Receipts)
         /\ Range(s \o <<x>>) = Range(s) \cup {x}
         /\ Once(s \o <<x>>, t)
<1> DEFINE line == <<x>>
<1>1. line \in Seq(Receipts) /\ Range(line) = {x} /\ IsInjective(line)
  BY DEF Range, IsInjective
<1>. HIDE DEF line
<1>2. Once(s, line)
  BY <1>1 DEF Once
<1>3. /\ s \o line \in Seq(Receipts) /\ IsInjective(s \o line)
      /\ Range(s \o line) = Range(s) \cup Range(line)
  BY <1>1, <1>2, InjectiveConcat, ConcatProperties, RangeConcatenation
<1>4. Once(s \o line, t)
  BY <1>1, <1>3 DEF Once
<1>. QED
  BY <1>1, <1>3, <1>4 DEF line

\* Writes that finish, to files of which none is cut.
LEMMA UncutWrites ==
  ASSUME cut = {}, NEW lines
  PROVE  /\ AddToLive(Whole(lines)) =>
              live' = live \o lines /\ cut' = {} /\ UNCHANGED archived
         /\ AddToArchive(Whole(lines)) =>
              archived' = archived \o lines /\ cut' = {} /\ UNCHANGED live
         /\ WriteOverLive(Whole(lines)) => cut' = {}
<1>1. Whole(lines).lines = lines /\ Whole(lines).cut = FALSE
  BY WholeWrite
<1>2. \A file : CutBy(file, Whole(lines)) = {}
  BY <1>1 DEF CutBy
<1>3. \A file, name : name \in cut => FALSE
  OBVIOUS
<1>4. \A file : /\ WithLines(file, "live" \in cut, lines) = file \o lines
                /\ WithLines(file, "archived" \in cut, lines) = file \o lines
  BY <1>3 DEF WithLines
<1>. QED
  BY <1>1, <1>2, <1>4 DEF AddToLive, AddToArchive, WriteOverLive

\* What a process has yet to write is nowhere.
LEMMA FreshReceipt ==
  ASSUME TInv, OInv, NEW p \in Procs, queue[p] # <<>>, pc[p] \notin {"appended", "mirror"}
  PROVE  Receipt(p) \in Receipts /\ Receipt(p) \notin Seen
<1>1. queue[p] \in Seq(Receipts)
  BY DEF TInv, TypeOK
<1>2. /\ 1 \in DOMAIN queue[p] /\ Receipt(p) = queue[p][1] /\ queue[p][1] \in Receipts
  BY <1>1, TailEntries, ElementOfSeq DEF Receipt
<1>3. queue[p][1].by = p
  BY <1>2 DEF OInv, InOrder
<1>4. ASSUME queue[p][1] \in Seen PROVE FALSE
  <2>1. Past(queue[p][1])
    BY <1>4 DEF OInv
  <2>2. queue[p][1].n < queue[p][1].n
    BY <1>2, <1>3, <2>1 DEF Past
  <2>3. queue[p][1].n \in Nat
    BY <1>2 DEF Receipts
  <2>. QED
    BY <2>2, <2>3
<1>. QED
  BY <1>2, <1>4

\* A call leaves the append in progress where it is.
LEMMA CalledLater ==
  ASSUME TInv, NEW p \in Procs, Call(p), queue[p] # <<>>
  PROVE  Receipt(p)' = Receipt(p)
<1>0. queue[p] \in Seq(Receipts)
  BY DEF TInv, TypeOK
<1>1. PICK new \in Receipts : queue'[p] = Append(queue[p], new)
  <2>1. calls[p] + 1 \in 1 .. MaxCalls
    BY DEF Call, TInv, TypeOK
  <2>2. [by |-> p, n |-> calls[p] + 1] \in Receipts
    BY <2>1 DEF Receipts
  <2>. QED
    BY <2>2 DEF Call, Enqueued, TInv, TypeOK
<1>2. 1 \in 1 .. Len(queue[p])
  BY <1>0, EmptySeq, LenProperties
<1>3. /\ Append(queue[p], new) \in Seq(Receipts) /\ Append(queue[p], new) # <<>>
      /\ Append(queue[p], new)[1] = queue[p][1]
  BY <1>0, <1>2, AppendProperties
<1>. QED
  BY <1>0, <1>1, <1>3, TailEntries DEF Receipt

LEMMA NextAInv ==
  ASSUME OneProcess, TInv, TInv', OInv, AInv, [Next]_vars
  PROVE  AInv'
<1>. PICK p \in Procs : Procs = {p}
  BY DEF OneProcess
<1>0. /\ live \in Seq(Receipts) /\ archived \in Seq(Receipts)
      /\ snap[p].keep \in Seq(Receipts) /\ snap[p].archive \in Seq(Receipts)
      /\ queue[p] \in Seq(Receipts) /\ cut = {}
  BY DEF TInv, TypeOK, AInv
<1>a. Archives(p)
  BY DEF AInv
<1>r. Range(live) \subseteq Receipts /\ Range(archived) \subseteq Receipts
      /\ Range(snap[p].keep) \subseteq Receipts
  BY <1>0, RangeEntries
<1>n. Garbled \notin Receipts
  BY BrokenLines
<1>i. ASSUME live' \in Seq(Receipts), archived' \in Seq(Receipts), cut' = {}, Archives(p)',
             Held \ Held' = {},
             ended'.resolved \subseteq ended.resolved \cup Range(live')
      PROVE  AInv'
  <2>1. Range(live') \subseteq Receipts
    BY <1>i, RangeEntries
  <2>2. Range(live') \subseteq Held'
    BY <1>n, <2>1 DEF Held
  <2>. QED
    BY <1>i, <2>2 DEF AInv
\* A step that writes nothing.
<1>k. ASSUME UNCHANGED <<live, archived, cut>>, Archives(p)',
             pc[p] = "rewriting" => pc'[p] = "rewriting" /\ snap'[p] = snap[p],
             ended'.resolved \subseteq ended.resolved \cup Range(live)
      PROVE  AInv'
  <2>1. Held \ Held' = {}
    BY <1>k, HeldStays
  <2>. QED
    BY <1>0, <1>i, <1>k, <2>1
<1>e. ASSUME queue[p] # <<>>, NEW how \in {"resolved", "rejected"}, End(p, how),
             UNCHANGED <<live, archived, cut>>, pc[p] \notin {"truncating", "rewriting"},
             how = "resolved" => Receipt(p) \in Range(live)
      PROVE  AInv'
  <2>1. pc'[p] = "idle"
    BY <1>e, EndType
  <2>2. Archives(p)'
    BY <1>a, <1>e, <2>1 DEF Archives
  <2>3. ended'.resolved \subseteq ended.resolved \cup Range(live)
    BY <1>e DEF End, TInv, TypeOK
  <2>. QED
    BY <1>e, <1>k, <2>2, <2>3
<1>g. ASSUME NEW step, Goto(p, step) PROVE pc'[p] = step
  BY <1>g DEF Goto, TInv, TypeOK
<1>1. CASE Progress(p)
  <2>1. CASE Read(p)
    <3>1. /\ Keep(live) \in Seq(Receipts) /\ Old(live) \in Seq(Receipts)
          /\ Range(Keep(live)) = Range(live) \ aged
          /\ Range(Old(live)) = Range(live) \cap aged
          /\ \E f : Places(Keep(live), live, f)
          /\ \E f : Places(Old(live), live, f)
      <4>1. live \in Seq(Lines) /\ Readable(live)
        BY <2>1 DEF Read, TInv, TypeOK
      <4>. QED
        BY <4>1, ReadType
    <3>2. snap'[p].keep = Keep(live) /\ snap'[p].archive = Old(live)
      BY <2>1 DEF Read, TInv, TypeOK
    <3>3. pc'[p] \in {"append_lock", "archive_lock"} /\ pc[p] = "idle"
      BY <1>g, <2>1 DEF Read
    <3>4. Once(live, archived)
      BY <1>a, <3>3 DEF Archives
    <3>5. Once(Keep(live), Old(live))
      <4>1. IsInjective(Keep(live)) /\ IsInjective(Old(live))
        BY <1>0, <3>1, <3>4, InjectivePlaces DEF Once
      <4>. QED
        BY <3>1, <4>1 DEF Once
    <3>6. UNCHANGED <<live, archived, cut, ended>>
      BY <2>1 DEF Read
    <3>7. Archives(p)'
      BY <3>1, <3>2, <3>3, <3>4, <3>5, <3>6 DEF Archives
    <3>. QED
      BY <1>k, <3>3, <3>6, <3>7
  <2>2. CASE ReadRejected(p)
    BY <1>e, <2>2 DEF ReadRejected
  <2>3. CASE Lock(p)
    <3>1. \/ pc[p] = "archive_lock" /\ pc'[p] = "archiving"
          \/ pc[p] = "append_lock" /\ pc'[p] = "appending"
      BY <1>g, <2>3 DEF Lock
    <3>2. UNCHANGED <<live, archived, cut, snap, ended>>
      BY <2>3 DEF Lock
    <3>3. Archives(p)'
      BY <1>a, <3>1, <3>2 DEF Archives
    <3>. QED
      BY <1>k, <3>1, <3>2, <3>3
  <2>4. CASE LockRejected(p)
    BY <1>e, <2>4 DEF LockRejected, TInv, Begun
  <2>5. CASE Unlock(p)
    <3>1. \/ pc[p] = "archived" /\ pc'[p] = "append_lock"
          \/ pc[p] = "appended" /\ pc'[p] = "mirror"
      BY <1>g, <2>5 DEF Unlock
    <3>2. UNCHANGED <<live, archived, cut, snap, queue, ended>>
      BY <2>5 DEF Unlock
    <3>3. Archives(p)'
      BY <1>a, <3>1, <3>2 DEF Archives, Receipt
    <3>. QED
      BY <1>k, <3>1, <3>2, <3>3
  <2>6. CASE Archive(p)
    <3> DEFINE old == snap[p].archive
    <3>1. pc[p] = "archiving" /\ pc'[p] = "truncating"
      BY <1>g, <2>6 DEF Archive
    <3>2. AddToArchive(Whole(old)) /\ UNCHANGED <<snap, ended>>
      BY <2>6 DEF Archive, AppendArchive
    <3>3. old \in Seq(Receipts)
      BY <1>0
    <3>4. /\ Once(live, archived) /\ Once(snap[p].keep, old)
          /\ Range(live) = Range(snap[p].keep) \cup Range(old)
      BY <1>a, <3>1 DEF Archives
    <3>. HIDE DEF old
    <3>5. archived' = archived \o old /\ cut' = {} /\ UNCHANGED live
      BY <1>0, <3>2, UncutWrites
    <3>6. Once(archived, old)
      BY <3>4 DEF Once
    <3>7. /\ archived' \in Seq(Receipts) /\ IsInjective(archived')
          /\ Range(archived') = Range(archived) \cup Range(old)
      BY <1>0, <3>3, <3>5, <3>6, InjectiveConcat, ConcatProperties, RangeConcatenation
    <3>8. Once(snap[p].keep, archived')
      BY <3>4, <3>7 DEF Once
    <3>9. Archives(p)'
      BY <3>1, <3>2, <3>4, <3>5, <3>7, <3>8 DEF Archives
    <3>10. Held \ Held' = {}
      BY <3>1, <3>2, <3>5, <3>7, HeldStays
    <3>. QED
      BY <1>0, <1>i, <3>2, <3>5, <3>7, <3>9, <3>10
  <2>7. CASE Truncate(p)
    <3>1. pc[p] = "truncating" /\ pc'[p] = "rewriting"
      BY <1>g, <2>7 DEF Truncate
    <3>2. live' = <<>> /\ cut' = {} /\ UNCHANGED <<archived, snap, ended>>
      BY <1>0, <2>7 DEF Truncate
    <3>3. /\ Once(snap[p].keep, archived)
          /\ Range(live) \subseteq Range(snap[p].keep) \cup Range(archived)
      BY <1>a, <3>1 DEF Archives
    <3>4. live' \in Seq(Receipts) /\ Once(live', archived)
      BY <3>2, <3>3 DEF Once, IsInjective, Range
    <3>5. Archives(p)'
      BY <3>1, <3>2, <3>3, <3>4 DEF Archives
    <3>6. InRewrite = {} /\ InRewrite' = Range(snap[p].keep)
      BY <3>1, <3>2 DEF InRewrite
    <3>7. Held \ Held' = {}
      BY <3>2, <3>3, <3>6 DEF Held
    <3>. QED
      BY <1>0, <1>i, <3>2, <3>4, <3>5, <3>7
  <2>8. CASE Rewrite(p)
    <3>1. pc[p] = "rewriting" /\ pc'[p] = "archived"
      BY <1>g, <2>8 DEF Rewrite
    <3>3. Once(snap[p].keep, archived) /\ live = <<>>
      BY <1>a, <3>1 DEF Archives
    <3> DEFINE keep == snap[p].keep
    <3>7. /\ keep \in Seq(Lines) /\ WriteOverLive(Whole(keep))
          /\ UNCHANGED <<snap, ended>>
      BY <1>0, <2>8, SeqMonotonic, BrokenLines DEF Rewrite
    <3>8. live' = keep /\ UNCHANGED archived /\ cut' = {}
      <4>. HIDE DEF keep
      <4>. QED
        BY <1>0, <3>3, <3>7, WholeWrite, WrittenOverLive, UncutWrites
    <3>2. live' = snap[p].keep /\ cut' = {} /\ UNCHANGED <<archived, snap, ended>>
      BY <3>7, <3>8
    <3>4. Archives(p)'
      BY <3>1, <3>2, <3>3 DEF Archives
    <3>5. Range(live) = {} /\ InRewrite = Range(snap[p].keep)
      BY <3>1, <3>3 DEF InRewrite, Range
    <3>6. Held \ Held' = {}
      BY <3>2, <3>5 DEF Held
    <3>. QED
      BY <1>0, <1>i, <3>2, <3>4, <3>6
  <2>9. CASE AppendLine(p)
    <3>. PICK x : x = Receipt(p)
      OBVIOUS
    <3>1. pc[p] = "appending" /\ pc'[p] = "appended"
      BY <1>g, <2>9 DEF AppendLine
    <3>2. /\ live' = live \o <<x>> /\ cut' = {}
          /\ UNCHANGED <<archived, snap, queue, ended>>
      BY <1>0, <2>9, UncutWrites DEF AppendLine
    <3>3. queue[p] # <<>>
      BY <3>1 DEF TInv, Begun
    <3>4. x \in Receipts /\ x \notin Range(live) /\ x \notin Range(archived)
      BY <3>1, <3>3, FreshReceipt, SeenEntries
    <3>5. Once(live, archived)
      BY <1>a, <3>1 DEF Archives
    <3>6. /\ live' \in Seq(Receipts) /\ Once(live', archived)
          /\ Range(live') = Range(live) \cup {x}
      BY <1>0, <3>2, <3>4, <3>5, OnceBehind
    <3>7. Archives(p)'
      BY <3>1, <3>2, <3>6 DEF Archives, Receipt
    <3>8. Held \ Held' = {}
      BY <3>1, <3>2, <3>6, HeldStays
    <3>. QED
      BY <1>0, <1>i, <3>2, <3>6, <3>7, <3>8
  <2>10. CASE Mirror(p)
    <3>1. Receipt(p) \in Range(live) /\ queue[p] # <<>>
      BY <1>a, <2>10 DEF Mirror, Archives, TInv, Begun
    <3>. QED
      BY <1>e, <2>10, <3>1 DEF Mirror
  <2>. QED
    BY <1>1, <2>1, <2>2, <2>3, <2>4, <2>5, <2>6, <2>7, <2>8, <2>9, <2>10 DEF Progress
<1>2. CASE Call(p)
  <2>1. UNCHANGED <<live, archived, cut, pc, snap, ended>>
    BY <1>2 DEF Call
  <2>2. ASSUME queue[p] # <<>> PROVE Receipt(p)' = Receipt(p)
    BY <1>2, <2>2, CalledLater
  <2>3. Archives(p)'
    BY <1>a, <2>1, <2>2 DEF Archives, TInv, Begun
  <2>. QED
    BY <1>k, <2>1, <2>3
<1>3. ~ DiskFails(p) /\ ~ Crash(p)
  BY DEF OneProcess, DiskFails, Crash, TInv, TypeOK
<1>4. CASE MirrorFails(p)
  BY <1>4, <1>e DEF MirrorFails, TInv, Begun
<1>5. ASSUME UNCHANGED <<live, archived, cut, pc, snap, queue, ended>> PROVE AInv'
  <2>1. Archives(p)'
    BY <1>a, <1>5 DEF Archives, Receipt
  <2>. QED
    BY <1>k, <1>5, <2>1
<1>6. ASSUME NEW r \in Receipts, Age(r) PROVE AInv'
  BY <1>5, <1>6 DEF Age
<1>7. CASE TakeStaleLock
  BY <1>5, <1>7 DEF TakeStaleLock
<1>8. CASE UNCHANGED vars
  BY <1>5, <1>8 DEF vars
<1>. QED
  BY <1>1, <1>2, <1>3, <1>4, <1>6, <1>7, <1>8 DEF Next

LEMMA InitAInv == Init => AInv
BY DEF Init, AInv, Archives, Once, IsInjective, Range

LEMMA AlwaysAInv == ASSUME OneProcess PROVE Spec => []AInv
<1>1. TInv /\ TInv' /\ OInv /\ AInv /\ [Next]_vars => AInv'
  BY NextAInv
<1>2. Spec => [](TInv /\ OInv)
  BY AlwaysOInv DEF OneProcess
<1>. QED
  BY <1>1, <1>2, InitAInv, PTL DEF Spec

\* An append of the only process that resolved can be read back from the file
\* of this week or from its archive.
THEOREM NothingIsLost == ASSUME OneProcess PROVE Spec => []NothingLost
<1>1. AInv => NothingLost
  BY DEF AInv, NothingLost
<1>. QED
  BY <1>1, AlwaysAInv, PTL

\* Archiving moves the receipts of the only process, and doubles none.
THEOREM NothingIsTwice == ASSUME OneProcess PROVE Spec => []ExactlyOnce
<1>1. AInv => ExactlyOnce
  <2>. SUFFICES ASSUME AInv, \A q \in Procs : pc[q] # "truncating"
                PROVE  IsInjective(live \o archived)
    BY DEF ExactlyOnce
  <2>1. Once(live, archived)
    BY DEF AInv, Archives, OneProcess
  <2>. QED
    BY <2>1, InjectiveConcat DEF AInv
<1>. QED
  BY <1>1, AlwaysAInv, PTL

-----------------------------------------------------------------------------
(* Several processes, while nothing is archived *)

\* No receipt is old enough to be archived, and every process has only appended.
OnlyAppends ==
  /\ live \in Seq(Receipts) /\ IsInjective(live) /\ archived = <<>> /\ cut = {}
  /\ \A p \in Procs :
       /\ pc[p] \in {"idle", "append_lock", "appending", "appended", "mirror"}
       /\ pc[p] \in {"appended", "mirror"} => Receipt(p) \in Range(live)
  /\ ended.resolved \subseteq Range(live)

SInv == aged = {} => OnlyAppends

\* A step of p that writes nothing: p goes on in its append, or ends it.
LEMMA NothingWritten ==
  ASSUME TInv, OnlyAppends, NEW p \in Procs, UNCHANGED <<live, archived, cut>>,
         \A q \in Procs \ {p} : pc'[q] = pc[q] /\ queue'[q] = queue[q],
         pc'[p] \in {"idle", "append_lock", "appending", "mirror"},
         pc'[p] = "mirror" => pc[p] \in {"appended", "mirror"} /\ Receipt(p)' = Receipt(p),
         ended'.resolved \subseteq ended.resolved \cup Range(live)
  PROVE  OnlyAppends'
<1>1. \A q \in Procs \ {p} : Receipt(q)' = Receipt(q)
  BY DEF Receipt
<1>. QED
  BY <1>1 DEF OnlyAppends

LEMMA NextSInv ==
  ASSUME Faults \subseteq {"mirror"}, TInv, OInv, SInv, [Next]_vars
  PROVE  SInv'
<1>. SUFFICES ASSUME aged' = {} PROVE OnlyAppends'
  BY DEF SInv
<1>0. aged = {}
  BY DEF Next, Age, Progress, Read, ReadRejected, Lock, LockRejected, Unlock, Archive, Truncate,
         Rewrite, AppendLine, Mirror, Call, DiskFails, MirrorFails, Crash, TakeStaleLock, vars
<1>. USE <1>0 DEF SInv
<1>t. /\ OnlyAppends /\ live \in Seq(Lines) /\ live \in Seq(Receipts)
      /\ \A p \in Procs : queue[p] \in Seq(Receipts)
  BY DEF OnlyAppends, TInv, TypeOK
<1>g. ASSUME NEW p \in Procs, NEW step, Goto(p, step)
      PROVE  pc'[p] = step /\ \A q \in Procs \ {p} : pc'[q] = pc[q]
  BY <1>g DEF Goto, TInv, TypeOK
<1>e. ASSUME NEW p \in Procs, queue[p] # <<>>, NEW how \in {"resolved", "rejected"}, End(p, how),
             UNCHANGED <<live, archived, cut>>, how = "resolved" => Receipt(p) \in Range(live)
      PROVE  OnlyAppends'
  <2>1. /\ pc'[p] = "idle"
        /\ \A q \in Procs \ {p} : pc'[q] = pc[q] /\ queue'[q] = queue[q]
    BY <1>e, EndType
  <2>2. ended'.resolved \subseteq ended.resolved \cup Range(live)
    BY <1>e DEF End, TInv, TypeOK
  <2>. QED
    BY <1>e, <1>t, <2>1, <2>2, NothingWritten
<1>1. ASSUME NEW p \in Procs, Progress(p) PROVE OnlyAppends'
  <2>1. CASE Read(p)
    <3>1. Range(Old(live)) = {} /\ Old(live) \in Seq(Receipts)
      BY <1>t, <2>1, ReadType DEF Read
    <3>2. Old(live) = <<>>
      <4>. PICK old : old = Old(live)
        OBVIOUS
      <4>1. old \in Seq(Receipts) /\ Range(old) = {}
        BY <3>1
      <4>2. old[1] \in Range(old) \/ 1 \notin DOMAIN old
        BY DEF Range
      <4>. QED
        BY <4>1, <4>2, TailEntries
    <3>3. /\ Goto(p, "append_lock")
          /\ UNCHANGED <<live, archived, cut, queue, ended>>
      BY <2>1, <3>2 DEF Read
    <3>. QED
      BY <1>g, <1>t, <3>3, NothingWritten
  <2>2. CASE ReadRejected(p)
    BY <1>e, <2>2 DEF ReadRejected
  <2>3. CASE Lock(p)
    <3>1. Goto(p, "appending") /\ UNCHANGED <<live, archived, cut, queue, ended>>
      BY <1>t, <2>3 DEF Lock, OnlyAppends
    <3>. QED
      BY <1>g, <1>t, <3>1, NothingWritten
  <2>4. CASE LockRejected(p)
    BY <1>e, <2>4 DEF LockRejected, TInv, Begun
  <2>5. CASE Unlock(p)
    <3>1. /\ Goto(p, "mirror") /\ pc[p] = "appended"
          /\ UNCHANGED <<live, archived, cut, queue, ended>>
      BY <1>t, <2>5 DEF Unlock, OnlyAppends
    <3>2. Receipt(p)' = Receipt(p)
      BY <3>1 DEF Receipt
    <3>. QED
      BY <1>g, <1>t, <3>1, <3>2, NothingWritten
  <2>6. ~ Archive(p) /\ ~ Truncate(p) /\ ~ Rewrite(p)
    BY <1>t DEF Archive, Truncate, Rewrite, OnlyAppends
  <2>7. CASE AppendLine(p)
    <3>. PICK x : x = Receipt(p)
      OBVIOUS
    <3>1. /\ pc[p] = "appending" /\ pc'[p] = "appended"
          /\ \A q \in Procs \ {p} : pc'[q] = pc[q]
      BY <1>g, <2>7 DEF AppendLine
    <3>2. live' = live \o <<x>> /\ cut' = {} /\ UNCHANGED <<archived, queue, ended>>
      BY <1>t, <2>7, UncutWrites DEF AppendLine, OnlyAppends
    <3>3. queue[p] # <<>>
      BY <3>1 DEF TInv, Begun
    <3>4. x \in Receipts /\ x \notin Range(live) /\ x \notin Range(archived)
      BY <3>1, <3>3, FreshReceipt, SeenEntries
    <3>5. Once(live, archived) /\ archived \in Seq(Receipts)
      BY <1>t DEF Once, OnlyAppends, IsInjective, Range
    <3>6. /\ live' \in Seq(Receipts) /\ IsInjective(live')
          /\ Range(live') = Range(live) \cup {x}
      BY <1>t, <3>2, <3>4, <3>5, OnceBehind DEF Once
    <3>7. \A q \in Procs : Receipt(q)' = Receipt(q)
      BY <3>2 DEF Receipt
    <3>. QED
      BY <1>t, <3>1, <3>2, <3>6, <3>7 DEF OnlyAppends
  <2>8. CASE Mirror(p)
    <3>1. Receipt(p) \in Range(live) /\ queue[p] # <<>>
      BY <1>t, <2>8 DEF Mirror, OnlyAppends, TInv, Begun
    <3>. QED
      BY <1>e, <2>8, <3>1 DEF Mirror
  <2>. QED
    BY <1>1, <2>1, <2>2, <2>3, <2>4, <2>5, <2>6, <2>7, <2>8 DEF Progress
<1>2. ASSUME NEW p \in Procs, Call(p) PROVE OnlyAppends'
  <2>1. /\ UNCHANGED <<live, archived, cut, pc, ended>>
        /\ \A q \in Procs \ {p} : queue'[q] = queue[q]
    BY <1>2 DEF Call, TInv, TypeOK
  <2>2. ASSUME queue[p] # <<>> PROVE Receipt(p)' = Receipt(p)
    BY <1>2, <2>2, CalledLater
  <2>3. \A q \in Procs : pc[q] \in {"appended", "mirror"} => Receipt(q)' = Receipt(q)
    BY <2>1, <2>2 DEF Receipt, TInv, Begun
  <2>. QED
    BY <1>t, <2>1, <2>3 DEF OnlyAppends
<1>3. \A p \in Procs : ~ DiskFails(p) /\ ~ Crash(p)
  BY DEF DiskFails, Crash, TInv, TypeOK
<1>4. ASSUME NEW p \in Procs, MirrorFails(p) PROVE OnlyAppends'
  BY <1>4, <1>e DEF MirrorFails, TInv, Begun
<1>5. CASE UNCHANGED <<live, archived, cut, pc, queue, ended>>
  BY <1>t, <1>5 DEF OnlyAppends, Receipt
<1>. QED
  BY <1>1, <1>2, <1>3, <1>4, <1>5 DEF Next, Age, TakeStaleLock, vars

\* Until the first receipt is old enough to be archived, any number of processes
\* append to the file and nothing is lost or doubled: it is the archive, read
\* before the lock is taken, that makes sharing it unsafe, not the append.
THEOREM SharedUntilArchived ==
  ASSUME Faults \subseteq {"mirror"}
  PROVE  Spec => [](aged = {} => NothingLost /\ ExactlyOnce)
<1>1. Init => SInv
  BY DEF Init, SInv, OnlyAppends, IsInjective, Range
<1>2. TInv /\ OInv /\ SInv /\ [Next]_vars => SInv'
  BY NextSInv
<1>3. SInv => (aged = {} => NothingLost /\ ExactlyOnce)
  <2>. SUFFICES ASSUME OnlyAppends PROVE NothingLost /\ ExactlyOnce
    BY DEF SInv
  <2>1. NothingLost
    BY BrokenLines, RangeEntries DEF OnlyAppends, NothingLost, Held
  <2>2. live \o archived = live
    BY ConcatEmptySeq DEF OnlyAppends
  <2>. QED
    BY <2>1, <2>2 DEF OnlyAppends, ExactlyOnce
<1>4. Spec => [](TInv /\ OInv)
  BY AlwaysOInv
<1>. QED
  BY <1>1, <1>2, <1>3, <1>4, PTL DEF Spec
=============================================================================
