--------------------------- MODULE ReceiptRegistry ---------------------------
(***************************************************************************)
(* Appending receipts to the weekly JSONL file that several processes      *)
(* share: append, appendWithLock, archiveOldReceipts and appendDurable of  *)
(* src/core/receipt-registry.ts.                                           *)
(*                                                                         *)
(* A process appends one receipt at a time (the static appendQueues); each *)
(* action is the code between two awaits of that append.  A line of a file *)
(* is the receipt in it, or Garbled when it cannot be parsed; the last one *)
(* may be without its newline, and what is written next joins it.  The     *)
(* lock is that of proper-lockfile, which goes by the age of the lock: one *)
(* that its holder does not refresh is taken away, whether the holder is   *)
(* dead or only stands still.                                              *)
(***************************************************************************)
EXTENDS Naturals, FiniteSets, SequencesExt

CONSTANTS Procs,     \* the processes that append to the file of this week
          NoProc,    \* nobody holds the lock
          MaxCalls,  \* bound on the append calls of a process
          Postgres,  \* whether GTOM_RECEIPT_POSTGRES_URL is set
          Faults     \* the faults that may happen

ASSUME ReceiptAssumption ==
  /\ NoProc \notin Procs
  /\ MaxCalls \in Nat
  /\ Postgres \in BOOLEAN
  /\ Faults \subseteq {"crash", "disk", "mirror", "stall"}

VARIABLES live,      \* receipts-YYYY-Www.jsonl
          archived,  \* archive/receipts-YYYY-Www.jsonl
          cut,       \* the files whose last line is without its newline
          aged,      \* the receipts whose timestamp is before the cutoff by now
          lock,      \* the process that holds the lock of the file
          taken,     \* history: the lock was taken from a process at work
          pc,        \* where the append in progress of a process is
          snap,      \* what archiveOldReceipts has read: keep and archive
          calls,     \* how many appends a process has been asked for
          queue,     \* appendQueues: the receipts to append, the first in progress
          ended      \* how the appends ended: resolved or rejected

vars == <<live, archived, cut, aged, lock, taken, pc, snap, calls, queue, ended>>

\* The n-th receipt of a process.
Receipts == [by : Procs, n : 1 .. MaxCalls]

\* A line that is not one receipt: a piece of one, or two that were joined.
Garbled == [by |-> NoProc, n |-> 0]

Lines == Receipts \cup {Garbled}

Writing == {"archiving", "truncating", "rewriting", "archived", "appending", "appended"}

Pcs == {"idle", "archive_lock", "append_lock", "mirror", "dead"} \cup Writing

TypeOK ==
  /\ live \in Seq(Lines) /\ archived \in Seq(Lines)
  /\ cut \subseteq {"live", "archived"}
  /\ aged \subseteq Receipts
  /\ lock \in Procs \cup {NoProc}
  /\ taken \in BOOLEAN
  /\ pc \in [Procs -> Pcs]
  /\ snap \in [Procs -> [keep : Seq(Receipts), archive : Seq(Receipts)]]
  /\ calls \in [Procs -> 0 .. MaxCalls]
  /\ queue \in [Procs -> Seq(Receipts)]
  /\ ended \in [resolved : SUBSET Receipts, rejected : SUBSET Receipts]
  /\ ~ taken => \A p \in Procs : pc[p] \in Writing => lock = p

NoSnap == [keep |-> <<>>, archive |-> <<>>]

Init ==
  /\ live = <<>> /\ archived = <<>> /\ cut = {} /\ aged = {}
  /\ lock = NoProc /\ taken = FALSE
  /\ pc = [p \in Procs |-> "idle"]
  /\ snap = [p \in Procs |-> NoSnap]
  /\ calls = [p \in Procs |-> 0]
  /\ queue = [p \in Procs |-> <<>>]
  /\ ended = [resolved |-> {}, rejected |-> {}]

Goto(p, step) == pc' = [pc EXCEPT ![p] = step]

Receipt(p) == Head(queue[p])

\* Faulty variant: a rejected append is tried again.
AgainIfRejected(p, how) == IF how = "rejected" THEN queue[p] ELSE Tail(queue[p])

Settled(p, how) == Tail(queue[p])

\* The append in progress ends, and the next one in the queue may begin.
End(p, how) == /\ Goto(p, "idle")
               /\ queue' = [queue EXCEPT ![p] = Settled(p, how)]
               /\ snap' = [snap EXCEPT ![p] = NoSnap]
               /\ ended' = [ended EXCEPT ![how] = @ \cup {Receipt(p)}]

\* A receipt gets older than archiveAfterDays.
Age(r) == /\ r \in Range(live) \ aged
          /\ aged' = aged \cup {r}
          /\ UNCHANGED <<live, archived, cut, lock, taken, pc, snap, calls, queue, ended>>

-----------------------------------------------------------------------------
(* append *)

\* Faulty variant: the new append does not wait for those before it.
FirstInLine(p, r) == IF Len(queue[p]) < 2 THEN Append(queue[p], r)
                     ELSE InsertAt(queue[p], 2, r)

Enqueued(p, r) == Append(queue[p], r)

Call(p) ==
  /\ pc[p] # "dead" /\ calls[p] < MaxCalls
  /\ calls' = [calls EXCEPT ![p] = @ + 1]
  /\ queue' = [queue EXCEPT ![p] = Enqueued(p, [by |-> p, n |-> calls[p] + 1])]
  /\ UNCHANGED <<live, archived, cut, aged, lock, taken, pc, snap, ended>>

-----------------------------------------------------------------------------
(* archiveOldReceipts: the file is read before the lock is taken *)

\* Faulty variant: everything is kept, and what is old is archived as well.
KeepAll(content) == content

\* The lines of content at the indices in I, in their order.
LinesAt(content, I) ==
  [j \in 1 .. Cardinality(I) |->
     content[CHOOSE i \in I : Cardinality({k \in I : k <= i}) = j]]

Keep(content) == LinesAt(content, {i \in DOMAIN content : content[i] \notin aged})

Old(content) == LinesAt(content, {i \in DOMAIN content : content[i] \in aged})

Readable(content) == Garbled \notin Range(content)

Read(p) ==
  /\ pc[p] = "idle" /\ queue[p] # <<>>
  /\ Readable(live)
  /\ snap' = [snap EXCEPT ![p] = [keep |-> Keep(live), archive |-> Old(live)]]
  /\ Goto(p, IF Old(live) = <<>> THEN "append_lock" ELSE "archive_lock")
  /\ UNCHANGED <<live, archived, cut, aged, lock, taken, calls, queue, ended>>

\* A line that does not parse, or does not verify, rejects the append.
ReadRejected(p) ==
  /\ pc[p] = "idle" /\ queue[p] # <<>>
  /\ ~ Readable(live)
  /\ End(p, "rejected")
  /\ UNCHANGED <<live, archived, cut, aged, lock, taken, calls>>

-----------------------------------------------------------------------------
(* The lock, with its retries *)

MayLock(p) == lock = NoProc

Lock(p) ==
  /\ pc[p] \in {"archive_lock", "append_lock"}
  /\ MayLock(p)
  /\ lock' = p
  /\ Goto(p, IF pc[p] = "archive_lock" THEN "archiving" ELSE "appending")
  /\ UNCHANGED <<live, archived, cut, aged, taken, snap, calls, queue, ended>>

\* Five retries later it is still held.
LockRejected(p) ==
  /\ pc[p] \in {"archive_lock", "append_lock"}
  /\ ~ MayLock(p)
  /\ End(p, "rejected")
  /\ UNCHANGED <<live, archived, cut, aged, lock, taken, calls>>

\* The release removes the lock, whoever may have taken it meanwhile.
Unlock(p) ==
  /\ pc[p] \in {"archived", "appended"}
  /\ lock' = NoProc
  /\ Goto(p, IF pc[p] = "archived" THEN "append_lock" ELSE "mirror")
  /\ UNCHANGED <<live, archived, cut, aged, taken, snap, calls, queue, ended>>

-----------------------------------------------------------------------------
(* The files *)

\* Lines behind a file: the first joins the last line of a file that was cut.
WithLines(file, isCut, lines) ==
  IF isCut /\ file # <<>> /\ lines # <<>>
    THEN Front(file) \o <<Garbled>> \o Tail(lines)
    ELSE file \o lines

\* A write is the lines that reach the file, the last perhaps without its newline.
Whole(lines) == [lines |-> lines, cut |-> FALSE]

\* The files that are cut after a write to the end of this one.
CutBy(file, write) ==
  IF write.lines = <<>> THEN cut ELSE IF write.cut THEN cut \cup {file} ELSE cut \ {file}

AddToLive(write) ==
  /\ live' = WithLines(live, "live" \in cut, write.lines)
  /\ cut' = CutBy("live", write)
  /\ UNCHANGED archived

AddToArchive(write) ==
  /\ archived' = WithLines(archived, "archived" \in cut, write.lines)
  /\ cut' = CutBy("archived", write)
  /\ UNCHANGED live

\* What another process has appended since the file was truncated, and what is
\* left of it behind a write to the start of the file: whole lines, or before
\* them the rest of one that was written over.
Rests ==
  {<<>>} \cup {SubSeq(live, k + 1, Len(live)) : k \in DOMAIN live}
         \cup {<<Garbled>> \o SubSeq(live, k + 1, Len(live)) : k \in DOMAIN live}

WriteOverLive(write) ==
  /\ \E rest \in IF write.lines = <<>> THEN {live} ELSE Rests :
       /\ live' = WithLines(write.lines, write.cut, rest)
       /\ cut' = IF rest = <<>> THEN CutBy("live", write) ELSE cut
  /\ UNCHANGED archived

\* Faulty variant: the archive file is overwritten.
OverwriteArchive(p) == /\ archived' = snap[p].archive
                       /\ cut' = cut \ {"archived"}
                       /\ UNCHANGED live

AppendArchive(p) == AddToArchive(Whole(snap[p].archive))

Archive(p) ==
  /\ pc[p] = "archiving"
  /\ AppendArchive(p)
  /\ Goto(p, "truncating")
  /\ UNCHANGED <<aged, lock, taken, snap, calls, queue, ended>>

\* writeFile truncates the file, then writes what is kept to its start
Truncate(p) ==
  /\ pc[p] = "truncating"
  /\ live' = <<>> /\ cut' = cut \ {"live"}
  /\ Goto(p, "rewriting")
  /\ UNCHANGED <<archived, aged, lock, taken, snap, calls, queue, ended>>

Rewrite(p) ==
  /\ pc[p] = "rewriting"
  /\ WriteOverLive(Whole(snap[p].keep))
  /\ Goto(p, "archived")
  /\ UNCHANGED <<aged, lock, taken, snap, calls, queue, ended>>

AppendLine(p) ==
  /\ pc[p] = "appending"
  /\ AddToLive(Whole(<<Receipt(p)>>))
  /\ Goto(p, "appended")
  /\ UNCHANGED <<aged, lock, taken, snap, calls, queue, ended>>

\* What a write of lines leaves that does not finish: some of them whole, and
\* perhaps the next without its newline, or only the beginning of that one.
Parts(lines) ==
  {Whole(SubSeq(lines, 1, n)) : n \in 0 .. Len(lines) - 1}
    \cup [lines : {SubSeq(lines, 1, n) : n \in DOMAIN lines}
                    \cup {Append(SubSeq(lines, 1, n - 1), Garbled) : n \in DOMAIN lines},
          cut : {TRUE}]

PartWritten(p) ==
  \/ UNCHANGED <<live, archived, cut>>
  \/ pc[p] = "archiving" /\ \E part \in Parts(snap[p].archive) : AddToArchive(part)
  \/ pc[p] = "rewriting" /\ \E part \in Parts(snap[p].keep) : WriteOverLive(part)
  \/ pc[p] = "appending" /\ \E part \in Parts(<<Receipt(p)>>) : AddToLive(part)

\* A full disk: the finally block unlocks, and append rejects.
DiskFails(p) ==
  /\ "disk" \in Faults
  /\ pc[p] \in {"archiving", "truncating", "rewriting", "appending"}
  /\ PartWritten(p)
  /\ lock' = NoProc
  /\ End(p, "rejected")
  /\ UNCHANGED <<aged, taken, calls>>

-----------------------------------------------------------------------------
(* appendDurable: the mirror in Postgres, if there is one *)

Mirror(p) ==
  /\ pc[p] = "mirror"
  /\ End(p, "resolved")
  /\ UNCHANGED <<live, archived, cut, aged, lock, taken, calls>>

MirrorFails(p) ==
  /\ Postgres /\ "mirror" \in Faults
  /\ pc[p] = "mirror"
  /\ End(p, "rejected")
  /\ UNCHANGED <<live, archived, cut, aged, lock, taken, calls>>

-----------------------------------------------------------------------------
(* Crashes, and processes that stand still *)

\* A process is killed; or it finds that its lock was taken, of which
\* proper-lockfile tells it by an exception that nobody catches.
Crash(p) ==
  /\ pc[p] # "dead"
  /\ "crash" \in Faults \/ (pc[p] \in Writing /\ lock # p)
  /\ Goto(p, "dead")
  /\ queue' = [queue EXCEPT ![p] = <<>>]
  /\ snap' = [snap EXCEPT ![p] = NoSnap]
  /\ PartWritten(p)
  /\ UNCHANGED <<aged, lock, taken, calls, ended>>

\* proper-lockfile takes away a lock that was not refreshed for ten seconds: that
\* of a dead process, or of one that is suspended or blocked in its work.
TakeStaleLock ==
  /\ lock # NoProc
  /\ pc[lock] = "dead" \/ "stall" \in Faults
  /\ lock' = NoProc
  /\ taken' = (taken \/ pc[lock] # "dead")
  /\ UNCHANGED <<live, archived, cut, aged, pc, snap, calls, queue, ended>>

-----------------------------------------------------------------------------

Progress(p) == \/ Read(p) \/ ReadRejected(p)
               \/ Lock(p) \/ LockRejected(p) \/ Unlock(p)
               \/ Archive(p) \/ Truncate(p) \/ Rewrite(p) \/ AppendLine(p)
               \/ Mirror(p)

Next == \/ \E p \in Procs : Progress(p) \/ Call(p) \/ DiskFails(p) \/ MirrorFails(p) \/ Crash(p)
        \/ \E r \in Receipts : Age(r)
        \/ TakeStaleLock

Spec == Init /\ [][Next]_vars

\* Every await of a process that is alive comes back.
FairSpec == Spec /\ \A p \in Procs : WF_vars(Progress(p))

-----------------------------------------------------------------------------
(* Properties *)

\* While a file is rewritten, what is to be kept is only in the memory of the
\* process that rewrites it.
InRewrite == UNION {Range(snap[p].keep) : p \in {q \in Procs : pc[q] = "rewriting"}}

Held == (Range(live) \cup Range(archived) \cup InRewrite) \ {Garbled}

\* An append that resolved can be read back, whatever was archived meanwhile.
NothingLost == ended.resolved \subseteq Held

\* No receipt is in the files twice: archiving moves it.  Between the append
\* to the archive and the rewrite of the file it is in both.
ExactlyOnce ==
  (\A p \in Procs : pc[p] # "truncating") => IsInjective(live \o archived)

\* The file keeps the appends of a process in the order of the calls, also
\* when some of them were rejected.
CallOrder ==
  \A i, j \in DOMAIN live :
    i < j /\ {live[i], live[j]} \subseteq Receipts /\ live[i].by = live[j].by
      => live[i].n < live[j].n

\* A receipt disappears from the files only
\*   - by the rewrite of a process that had read the file before the receipt was
\*     there, or whose archive garbled it behind an archive file that was cut;
\*   - as the last line of a file that was cut before its newline, which the next
\*     write to that file joins;
\*   - by a rewrite that is cut off, or that writes over what was appended when
\*     the lock had been taken from a process at work.
\* (These follow from reading before locking, from appending without looking at
\* the end of the file, from rewriting in place, and from a lock that expires.)
VanishStep ==
  \A r \in Held \ Held' : \E p \in Procs :
    \/ /\ pc[p] = "truncating" /\ r \notin Range(snap[p].keep)
       /\ \/ r \notin Range(snap[p].archive)
          \/ r = Head(snap[p].archive) /\ Garbled \in Range(archived)
    \/ pc[p] = "appending" /\ "live" \in cut /\ r = Last(live)
    \/ pc[p] = "archiving" /\ "archived" \in cut /\ r = Last(archived)
    \/ /\ pc[p] = "rewriting"
       /\ pc'[p] \in {"idle", "dead"} \/ (taken /\ r \in Range(live))

VanishesOnlyInRewrite == [][VanishStep]_vars

\* Every append of a process that stays alive resolves or rejects, also when
\* the holder of the lock has died: the queue always runs empty again (the
\* calls are bounded).
AppendsEnd == \A p \in Procs : []<>(queue[p] = <<>>)
=============================================================================
