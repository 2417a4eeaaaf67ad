-------------------------- MODULE HttpServerProofs --------------------------
(***************************************************************************)
(* HttpServer for any number of requests, clients, calls of shutdown and   *)
(* handlers, and any limits and lengths of windows.                        *)
(*                                                                         *)
(* First the graceful shutdown, whatever the limiters decide (IInv), then  *)
(* the limiters, whatever the shutdown does (LimitInv): a window that has  *)
(* begun at s and has counted k tells when the requests of its client      *)
(* passed, in terms of s and k alone (Fits), and dropping a window that    *)
(* has run out is no other than beginning it anew.                         *)
(* The server's theorems are about the server by itself; one is about the  *)
(* process of serve.ts, which may exit while the server shuts down.        *)
(***************************************************************************)
EXTENDS Serve, FiniteSetTheorems, SequenceTheorems, TLAPS

Types ==
  /\ clock \in Nat /\ request \in Seq(Request) /\ active \in Nat
  /\ draining \in BOOLEAN /\ open \in BOOLEAN
  /\ call \in [Calls -> Call] /\ ran \in Seq(Nat)

Busy(c) == call[c].pc \in {"draining", "closing", "handling"}

Unfinished == {r \in DOMAIN request : request[r].pc # "finished"}

\* Every answer that is out has been counted off, once.
ActiveCounts == active = Cardinality(Unfinished)

\* The first call of shutdown closes the door for operations, and does the rest.
OneShutdown ==
  /\ \A c \in Calls : Busy(c) => draining /\ open
  /\ \A c, d \in Calls : Busy(c) /\ Busy(d) => c = d

\* The handlers that ran are those before the next one.
RanSoFar ==
  /\ \A i \in DOMAIN ran : ran[i] = i
  /\ ~ draining => ran = <<>> /\ open
  /\ ~ open => Len(ran) = Handlers
  /\ \A c \in Calls :
       /\ call[c].pc = "draining" => call[c].next = 1 /\ Len(ran) = 0
       /\ call[c].pc = "closing" =>
            Len(ran) = call[c].next - 1 /\ call[c].next <= Handlers + 1
       /\ call[c].pc = "handling" => Len(ran) = call[c].next /\ call[c].next <= Handlers

IInv == Types /\ ActiveCounts /\ OneShutdown /\ RanSoFar /\ HandlersAfterOperations

-----------------------------------------------------------------------------
(* Requests *)

LEMMA UnfinishedFinite ==
  ASSUME Types
  PROVE  IsFiniteSet(Unfinished) /\ Cardinality(Unfinished) \in Nat
<1>1. DOMAIN request = 1 .. Len(request) /\ Len(request) \in Nat
  BY DEF Types
<1>2. IsFiniteSet(1 .. Len(request))
  BY <1>1, FS_Interval
<1>. QED
  BY <1>1, <1>2, FS_Subset, FS_CardinalityType DEF Unfinished

\* A request that arrives is one more, and no operation once the server drains.
LEMMA EnterPreserves ==
  ASSUME IInv, NEW pc \in {"operating", "answered"}, NEW c \in Client \cup {"nobody"},
         NEW passed \in BOOLEAN, Enter(pc, c, passed), pc = "operating" => ~ draining
  PROVE  IInv'
<1> DEFINE n == Len(request)
           r == [pc |-> pc, client |-> c, passed |-> passed,
                 at |-> IF c = "nobody" THEN 0 ELSE clock]
<1>1. /\ request' = Append(request, r) /\ active' = active + 1
      /\ UNCHANGED <<clock, draining, open, call, ran>>
  BY DEF Enter, shutdownVars
<1>2. r \in Request /\ r.pc = pc
  BY DEF IInv, Types, Request
<1> HIDE DEF r
<1>3. /\ n \in Nat /\ request' \in Seq(Request) /\ Len(request') = n + 1
      /\ \A i \in 1 .. n : request'[i] = request[i]
      /\ request'[n + 1] = r
      /\ DOMAIN request = 1 .. n /\ DOMAIN request' = 1 .. n + 1
  BY <1>1, <1>2 DEF IInv, Types
<1>4. Types'
  BY <1>1, <1>3 DEF IInv, Types
<1>5. ActiveCounts'
  <2>1. Unfinished' = Unfinished \cup {n + 1} /\ n + 1 \notin Unfinished
    BY <1>2, <1>3 DEF Unfinished
  <2>. QED
    BY <1>1, <2>1, UnfinishedFinite, FS_AddElement DEF IInv, ActiveCounts
<1>6. OneShutdown' /\ RanSoFar'
  BY <1>1 DEF IInv, OneShutdown, RanSoFar, Busy
<1>7. HandlersAfterOperations'
  BY <1>1, <1>2, <1>3 DEF IInv, HandlersAfterOperations, OneShutdown, Busy
<1>. QED
  BY <1>4, <1>5, <1>6, <1>7 DEF IInv

\* A request that is answered before the limiters are asked.
LEMMA UnlimitedPreserve ==
  ASSUME IInv, Options \/ Draining
  PROVE  IInv'
BY EnterPreserves DEF Options, Draining

LEMMA ArrivalsPreserve ==
  ASSUME IInv, NEW c \in Client, NEW health \in BOOLEAN,
         \/ Operation(c)
         \/ ClientRefused(c, health) \/ BadTenant(c, health)
         \/ TenantRefused(c, health) \/ AnsweredAtOnce(c, health)
  PROVE  IInv'
<1>1. CASE Operation(c)
  BY <1>1, EnterPreserves DEF Operation, Admits
<1>2. CASE ClientRefused(c, health) \/ BadTenant(c, health)
           \/ TenantRefused(c, health) \/ AnsweredAtOnce(c, health)
  <2>1. \E passed \in BOOLEAN : Enter("answered", c, passed)
    BY <1>2 DEF ClientRefused, BadTenant, TenantRefused, AnsweredAtOnce
  <2>. QED
    BY <2>1, EnterPreserves
<1>. QED
  BY <1>1, <1>2

\* An operation that ends, an answer that is out: the request with number r
\* becomes pc, and every other is what it was.
LEMMA RequestChange ==
  ASSUME Types, NEW r \in DOMAIN request, NEW pc \in {"answered", "finished"},
         request' = [request EXCEPT ![r].pc = pc]
  PROVE  /\ request' \in Seq(Request) /\ DOMAIN request' = DOMAIN request
         /\ request'[r].pc = pc
         /\ \A q \in DOMAIN request : q # r => request'[q] = request[q]
<1>1. request[r] \in Request /\ DOMAIN request = 1 .. Len(request) /\ Len(request) \in Nat
  BY DEF Types
<1> DEFINE s == [request[r] EXCEPT !.pc = pc]
<1>2. s \in Request /\ s.pc = pc
  BY <1>1 DEF Request
<1>3. request' = [request EXCEPT ![r] = s]
  OBVIOUS
<1> HIDE DEF s
<1>4. [request EXCEPT ![r] = s] \in Seq(Request)
  <2>1. request \in Seq(Request) /\ r \in 1 .. Len(request)
    BY <1>1 DEF Types
  <2>. QED
    BY <1>2, <2>1, ExceptSeq, Zenon
<1>5. request \in [1 .. Len(request) -> Request]
  BY DEF Types
<1>. QED
  BY <1>1, <1>2, <1>3, <1>4, <1>5

LEMMA AnswerPreserves ==
  ASSUME IInv, NEW r \in DOMAIN request, Answer(r)
  PROVE  IInv'
<1>1. /\ request[r].pc = "operating" /\ request' = [request EXCEPT ![r].pc = "answered"]
      /\ UNCHANGED <<clock, active, draining, open, call, ran>>
  BY DEF Answer, shutdownVars
<1>2. /\ request' \in Seq(Request) /\ DOMAIN request' = DOMAIN request
      /\ request'[r].pc = "answered"
      /\ \A q \in DOMAIN request : q # r => request'[q] = request[q]
  BY <1>1, RequestChange DEF IInv
<1>3. Types'
  BY <1>1, <1>2 DEF IInv, Types
<1>4. Unfinished' = Unfinished
  BY <1>1, <1>2 DEF Unfinished
<1>5. ActiveCounts'
  BY <1>1, <1>4 DEF IInv, ActiveCounts
<1>6. OneShutdown' /\ RanSoFar'
  BY <1>1 DEF IInv, OneShutdown, RanSoFar, Busy
<1>7. HandlersAfterOperations'
  BY <1>1, <1>2 DEF IInv, HandlersAfterOperations
<1>. QED
  BY <1>3, <1>5, <1>6, <1>7 DEF IInv

LEMMA FinishPreserves ==
  ASSUME IInv, NEW r \in DOMAIN request, Finish(r)
  PROVE  IInv'
<1>1. /\ request[r].pc = "answered" /\ request' = [request EXCEPT ![r].pc = "finished"]
      /\ active' = Finished
      /\ UNCHANGED <<clock, draining, open, call, ran>>
  BY DEF Finish, shutdownVars
<1>2. /\ request' \in Seq(Request) /\ DOMAIN request' = DOMAIN request
      /\ request'[r].pc = "finished"
      /\ \A q \in DOMAIN request : q # r => request'[q] = request[q]
  BY <1>1, RequestChange DEF IInv
<1>3. ActiveCounts' /\ active' \in Nat
  <2>1. r \in Unfinished /\ Unfinished' = Unfinished \ {r}
    BY <1>1, <1>2 DEF Unfinished
  <2>2. /\ Cardinality(Unfinished') = Cardinality(Unfinished) - 1
        /\ Cardinality(Unfinished) \in Nat
    BY <2>1, UnfinishedFinite, FS_RemoveElement DEF IInv
  <2>3. Cardinality(Unfinished) # 0
    BY <2>1, UnfinishedFinite, FS_EmptySet DEF IInv
  <2>. QED
    BY <1>1, <2>2, <2>3 DEF IInv, ActiveCounts, Finished
<1>4. Types'
  BY <1>1, <1>2, <1>3 DEF IInv, Types
<1>5. OneShutdown' /\ RanSoFar'
  BY <1>1 DEF IInv, OneShutdown, RanSoFar, Busy
<1>6. HandlersAfterOperations'
  BY <1>1, <1>2 DEF IInv, HandlersAfterOperations
<1>. QED
  BY <1>3, <1>4, <1>5, <1>6 DEF IInv

-----------------------------------------------------------------------------
(* Calls of shutdown *)

\* The call with number c becomes k, and every other is what it was.
LEMMA CallChange ==
  ASSUME Types, NEW c \in Calls, NEW k \in Call, call' = [call EXCEPT ![c] = k]
  PROVE  /\ call' \in [Calls -> Call] /\ call'[c] = k
         /\ \A d \in Calls : d # c => call'[d] = call[d]
BY DEF Types

\* Becomes changes the progress of the call, and nothing else of it.
LEMMA CallBecomes ==
  ASSUME Types, NEW c \in Calls,
         NEW pc \in {"draining", "closing", "handling", "returned"}, Becomes(c, pc)
  PROVE  /\ call' \in [Calls -> Call] /\ call[c] \in Call
         /\ call'[c].pc = pc
         /\ call'[c].next = call[c].next /\ call'[c].deadline = call[c].deadline
         /\ \A d \in Calls : d # c => call'[d] = call[d]
<1> DEFINE k == [call[c] EXCEPT !.pc = pc]
<1>1. call[c] \in Call
  BY DEF Types
<1>2. k \in Call /\ k.pc = pc /\ k.next = call[c].next /\ k.deadline = call[c].deadline
  BY <1>1 DEF Call
<1>3. call' = [call EXCEPT ![c] = k]
  BY DEF Becomes
<1> HIDE DEF k
<1>. QED
  BY <1>1, <1>2, <1>3, CallChange

\* Only the call that finds nobody before it drains; the others return at once.
LEMMA ShutdownPreserves ==
  ASSUME IInv, NEW c \in Calls, Shutdown(c)
  PROVE  IInv'
<1>1. call[c].pc = "none" /\ UNCHANGED <<clock, request, active, open, ran>>
  BY DEF Shutdown, requestVars
<1>2. ActiveCounts'
  BY <1>1 DEF IInv, ActiveCounts, Unfinished
<1>3. CASE ~ draining
  <2> DEFINE k == [pc |-> "draining", next |-> 1, deadline |-> clock + DrainTime]
  <2>1. k \in Call /\ k.pc = "draining" /\ k.next = 1
    BY ServerAssumption DEF IInv, Types, Call
  <2>2. draining' = TRUE /\ call' = [call EXCEPT ![c] = k]
    BY <1>3 DEF Shutdown, FirstCall
  <2> HIDE DEF k
  <2>3. /\ call' \in [Calls -> Call] /\ call'[c] = k
        /\ \A d \in Calls : d # c => call'[d] = call[d]
    BY <2>1, <2>2, CallChange DEF IInv
  <2>4. Types'
    BY <1>1, <2>2, <2>3 DEF IInv, Types
  <2>5. /\ \A d \in Calls : ~ Busy(d)
        /\ ran = <<>> /\ open
    BY <1>3 DEF IInv, OneShutdown, RanSoFar
  <2>6. OneShutdown'
    BY <1>1, <2>2, <2>3, <2>5 DEF OneShutdown, Busy
  <2>7. RanSoFar'
    BY <1>1, <2>1, <2>2, <2>3, <2>5 DEF IInv, RanSoFar, Busy
  <2>8. HandlersAfterOperations'
    BY <1>1, <2>1, <2>3, <2>5 DEF HandlersAfterOperations, Busy
  <2>. QED
    BY <1>2, <2>4, <2>6, <2>7, <2>8 DEF IInv
<1>4. CASE draining
  <2>1. Becomes(c, "returned") /\ draining' = draining
    BY <1>4 DEF Shutdown, FirstCall
  <2>2. /\ call' \in [Calls -> Call] /\ call'[c].pc = "returned"
        /\ \A d \in Calls : d # c => call'[d] = call[d]
    BY <2>1, CallBecomes DEF IInv
  <2>3. Types'
    BY <1>1, <2>1, <2>2 DEF IInv, Types
  <2>4. OneShutdown'
    BY <1>1, <2>1, <2>2 DEF IInv, OneShutdown, Busy
  <2>5. RanSoFar'
    BY <1>1, <2>1, <2>2 DEF IInv, RanSoFar
  <2>6. HandlersAfterOperations'
    BY <1>1, <2>2 DEF IInv, HandlersAfterOperations
  <2>. QED
    BY <1>2, <2>1, <2>3, <2>4, <2>5, <2>6 DEF IInv
<1>. QED
  BY <1>3, <1>4

\* When the wait ends before the deadline, no answer is owed any more.
LEMMA DrainedPreserves ==
  ASSUME IInv, NEW c \in Calls, Drained(c)
  PROVE  IInv'
<1>1. /\ call[c].pc = "draining" /\ DrainOver(c) /\ Becomes(c, "closing")
      /\ UNCHANGED <<clock, request, active, draining, open, ran>>
  BY DEF Drained, requestVars
<1>2. /\ call' \in [Calls -> Call] /\ call'[c].pc = "closing"
      /\ call'[c].next = call[c].next /\ call'[c].deadline = call[c].deadline
      /\ \A d \in Calls : d # c => call'[d] = call[d]
  BY <1>1, CallBecomes DEF IInv
<1>3. Types' /\ ActiveCounts'
  BY <1>1, <1>2 DEF IInv, Types, ActiveCounts, Unfinished
<1>4. OneShutdown'
  BY <1>1, <1>2 DEF IInv, OneShutdown, Busy
<1>5. RanSoFar'
  BY <1>1, <1>2, ServerAssumption DEF IInv, RanSoFar
<1>6. HandlersAfterOperations'
  <2>1. active = 0 => \A r \in DOMAIN request : request[r].pc # "operating"
    <3>1. active = 0 => Unfinished = {}
      BY UnfinishedFinite, FS_EmptySet DEF IInv, ActiveCounts
    <3>. QED
      BY <3>1 DEF Unfinished
  <2>2. call[c].deadline \in Nat /\ clock \in Nat
    BY DEF IInv, Types, Call
  <2>3. clock < call[c].deadline => \A r \in DOMAIN request : request[r].pc # "operating"
    BY <1>1, <2>1, <2>2 DEF DrainOver
  <2>. QED
    BY <1>1, <1>2, <2>3 DEF IInv, HandlersAfterOperations
<1>. QED
  BY <1>3, <1>4, <1>5, <1>6 DEF IInv

LEMMA StartHandlerPreserves ==
  ASSUME IInv, NEW c \in Calls, StartHandler(c)
  PROVE  IInv'
<1>1. /\ call[c].pc = "closing" /\ call[c].next <= Handlers
      /\ ran' = Append(ran, call[c].next) /\ Becomes(c, "handling")
      /\ UNCHANGED <<clock, request, active, draining, open>>
  BY DEF StartHandler, requestVars
<1>2. /\ call' \in [Calls -> Call] /\ call[c] \in Call /\ call'[c].pc = "handling"
      /\ call'[c].next = call[c].next /\ call'[c].deadline = call[c].deadline
      /\ \A d \in Calls : d # c => call'[d] = call[d]
  BY <1>1, CallBecomes DEF IInv
<1>3. call[c].next \in Nat /\ Len(ran) = call[c].next - 1 /\ ran \in Seq(Nat)
  BY <1>1, <1>2 DEF IInv, RanSoFar, Types, Call
<1>4. Types' /\ ActiveCounts'
  BY <1>1, <1>2, <1>3 DEF IInv, Types, ActiveCounts, Unfinished
<1>5. OneShutdown'
  BY <1>1, <1>2 DEF IInv, OneShutdown, Busy
<1>6. Busy(c) /\ draining /\ open /\ \A d \in Calls : d # c => ~ Busy(d)
  BY <1>1 DEF IInv, OneShutdown, Busy
<1>7. RanSoFar'
  <2>1. /\ \A i \in DOMAIN ran' : ran'[i] = i
        /\ Len(ran') = call[c].next
    BY <1>1, <1>3 DEF IInv, RanSoFar
  <2>. QED
    BY <1>1, <1>2, <1>6, <2>1 DEF RanSoFar, Busy
<1>8. HandlersAfterOperations'
  BY <1>1, <1>2 DEF IInv, HandlersAfterOperations
<1>. QED
  BY <1>4, <1>5, <1>7, <1>8 DEF IInv

LEMMA EndHandlerPreserves ==
  ASSUME IInv, NEW c \in Calls, EndHandler(c)
  PROVE  IInv'
<1> DEFINE k == [pc |-> "closing", deadline |-> call[c].deadline, next |-> call[c].next + 1]
<1>1. /\ call[c].pc = "handling" /\ call' = [call EXCEPT ![c] = k]
      /\ UNCHANGED <<clock, request, active, draining, open, ran>>
  BY DEF EndHandler, requestVars
<1>2. call[c] \in Call
  BY DEF IInv, Types
<1>3. /\ k \in Call /\ k.pc = "closing" /\ k.next = call[c].next + 1
      /\ k.deadline = call[c].deadline /\ call[c].next \in Nat
  BY <1>2 DEF Call
<1> HIDE DEF k
<1>4. /\ call' \in [Calls -> Call] /\ call'[c] = k
      /\ \A d \in Calls : d # c => call'[d] = call[d]
  BY <1>1, <1>3, CallChange DEF IInv
<1>5. Types' /\ ActiveCounts'
  BY <1>1, <1>4 DEF IInv, Types, ActiveCounts, Unfinished
<1>6. OneShutdown'
  BY <1>1, <1>3, <1>4 DEF IInv, OneShutdown, Busy
<1>7. RanSoFar'
  BY <1>1, <1>3, <1>4, ServerAssumption DEF IInv, RanSoFar
<1>8. HandlersAfterOperations'
  BY <1>1, <1>3, <1>4 DEF IInv, HandlersAfterOperations
<1>. QED
  BY <1>5, <1>6, <1>7, <1>8 DEF IInv

LEMMA StopPreserves ==
  ASSUME IInv, NEW c \in Calls, Stop(c)
  PROVE  IInv'
<1>1. /\ call[c].pc = "closing" /\ call[c].next > Handlers
      /\ open' = FALSE /\ Becomes(c, "returned")
      /\ UNCHANGED <<clock, request, active, draining, ran>>
  BY DEF Stop, requestVars
<1>2. /\ call' \in [Calls -> Call] /\ call[c] \in Call /\ call'[c].pc = "returned"
      /\ \A d \in Calls : d # c => call'[d] = call[d]
  BY <1>1, CallBecomes DEF IInv
<1>3. Types' /\ ActiveCounts'
  BY <1>1, <1>2 DEF IInv, Types, ActiveCounts, Unfinished
<1>4. draining /\ \A d \in Calls : d # c => ~ Busy(d)
  BY <1>1 DEF IInv, OneShutdown, Busy
<1>5. OneShutdown'
  BY <1>2, <1>4 DEF OneShutdown, Busy
<1>6. RanSoFar'
  <2>1. Len(ran) = Handlers
    BY <1>1, <1>2, ServerAssumption DEF IInv, RanSoFar, Call
  <2>. QED
    BY <1>1, <1>2, <1>4, <2>1 DEF IInv, RanSoFar, Busy
<1>7. HandlersAfterOperations'
  BY <1>1, <1>2 DEF IInv, HandlersAfterOperations
<1>. QED
  BY <1>3, <1>5, <1>6, <1>7 DEF IInv

LEMMA TickPreserves ==
  ASSUME IInv, Tick
  PROVE  IInv'
<1>1. clock' = clock + 1 /\ UNCHANGED <<request, active, draining, open, call, ran>>
  BY DEF Tick, requestVars, shutdownVars
<1>2. Types' /\ ActiveCounts' /\ OneShutdown' /\ RanSoFar'
  BY <1>1 DEF IInv, Types, ActiveCounts, Unfinished, OneShutdown, Busy, RanSoFar
<1>3. \A c \in Calls : clock' < call'[c].deadline => clock < call[c].deadline
  BY <1>1 DEF IInv, Types, Call
<1>4. HandlersAfterOperations'
  BY <1>1, <1>3 DEF IInv, HandlersAfterOperations
<1>. QED
  BY <1>2, <1>4 DEF IInv

-----------------------------------------------------------------------------
(* The theorems *)

LEMMA InitIInv == Init => IInv
<1> SUFFICES ASSUME Init PROVE IInv
  OBVIOUS
<1>1. Types
  <2>1. [pc |-> "none", deadline |-> 0, next |-> 1] \in Call
    BY DEF Call
  <2>2. <<>> \in Seq(Request) /\ <<>> \in Seq(Nat)
    OBVIOUS
  <2>. QED
    BY <2>1, <2>2 DEF Init, Types
<1>2. Unfinished = {} /\ active = 0
  BY DEF Init, Unfinished
<1>3. ActiveCounts
  BY <1>2, FS_EmptySet DEF ActiveCounts
<1>4. OneShutdown /\ RanSoFar /\ HandlersAfterOperations
  BY DEF Init, OneShutdown, Busy, RanSoFar, HandlersAfterOperations
<1>. QED
  BY <1>1, <1>3, <1>4 DEF IInv

LEMMA NextIInv == IInv /\ [Next]_serverVars => IInv'
<1> SUFFICES ASSUME IInv, [Next]_serverVars PROVE IInv'
  OBVIOUS
<1>1. CASE Requests
  BY <1>1, ArrivalsPreserve, AnswerPreserves, FinishPreserves, UnlimitedPreserve DEF Requests
<1>2. CASE Tick
  BY <1>2, TickPreserves
<1>3. ASSUME NEW c \in Calls, Shutdown(c) \/ ShutdownStep(c) PROVE IInv'
  BY <1>3, ShutdownPreserves, DrainedPreserves, StartHandlerPreserves,
     EndHandlerPreserves, StopPreserves DEF ShutdownStep
<1>4. CASE UNCHANGED serverVars
  BY <1>4 DEF serverVars, requestVars, limitVars, shutdownVars, IInv, Types, ActiveCounts,
              Unfinished, OneShutdown, Busy, RanSoFar, HandlersAfterOperations
<1>. QED
  BY <1>1, <1>2, <1>3, <1>4 DEF Next

\* The strengthening of the shutdown's safety properties is inductive.
THEOREM Invariance == Spec => []IInv
BY InitIInv, NextIInv, PTL DEF Spec

\* No shutdown handler runs under an operation before the deadline.
THEOREM NothingClosedUnderOperation == Spec => []HandlersAfterOperations
<1>1. IInv => HandlersAfterOperations
  BY DEF IInv
<1>. QED
  BY <1>1, Invariance, PTL

\* However often shutdown is called, the handlers run once, in order.
THEOREM EachHandlerOnce == Spec => []HandlersRunOnce
<1>1. IInv => HandlersRunOnce
  BY DEF IInv, RanSoFar, HandlersRunOnce
<1>. QED
  BY <1>1, Invariance, PTL

-----------------------------------------------------------------------------
(* The process of serve.ts *)

Alive == main # "exited"

SInv == (Alive => IInv) /\ HandlersAfterOperations

LEMMA ServeNextSInv == SInv /\ [ServeNext]_serveVars => SInv'
<1> SUFFICES ASSUME SInv, [ServeNext]_serveVars PROVE SInv'
  OBVIOUS
<1>1. CASE Exit
  BY <1>1 DEF SInv, Exit, Alive, HandlersAfterOperations, requestVars
<1>2. CASE \/ \E c \in Calls : Signal(c)
           \/ /\ main # "exited" /\ UNCHANGED main
              /\ Requests \/ Tick \/ \E c \in Calls : ShutdownStep(c)
  <2>1. Alive /\ Next
    BY <1>2 DEF Alive, Signal, Next
  <2>2. IInv'
    BY <2>1, NextIInv DEF SInv
  <2>. QED
    BY <2>2 DEF SInv, IInv
<1>3. CASE UNCHANGED serveVars
  <2>1. UNCHANGED serverVars /\ main' = main
    BY <1>3 DEF serveVars
  <2>2. Alive => IInv'
    BY <2>1, NextIInv DEF SInv
  <2>3. HandlersAfterOperations'
    BY <2>1 DEF SInv, HandlersAfterOperations, serverVars, requestVars, shutdownVars
  <2>. QED
    BY <2>1, <2>2, <2>3 DEF SInv, Alive
<1>. QED
  BY <1>1, <1>2, <1>3 DEF ServeNext

\* In the process of serve.ts, whose exit does not wait for the server, no
\* handler runs under an operation before the deadline either; and as long as
\* the process lives, the handlers run once, all before the server is closed.
THEOREM ServeShutsDownInOrder ==
  ServeSpec => [](HandlersAfterOperations /\ (main # "exited" => HandlersRunOnce))
<1>1. ServeInit => SInv
  BY InitIInv DEF ServeInit, SInv, IInv
<1>2. SInv => HandlersAfterOperations /\ (main # "exited" => HandlersRunOnce)
  BY DEF SInv, Alive, IInv, RanSoFar, HandlersRunOnce
<1>. QED
  BY <1>1, <1>2, ServeNextSInv, PTL DEF ServeSpec

-----------------------------------------------------------------------------
(* The limiters: facts about sets of requests, numbered from 1 to n *)

Later(P, i) == Cardinality({r \in P : i <= r})

\* The requests P, passed at the times at, fit a window of the given limit and
\* length that began at s and has counted k: those before its last k were before
\* it, and those before its last k + limit a whole window before.
Fits(P, at, s, k, limit, length) ==
  /\ k <= limit
  /\ \A i \in P :
       /\ at[i] < s + length
       /\ Later(P, i) > k => at[i] < s
       /\ Later(P, i) > k + limit => at[i] + length <= s

\* What a window has counted, passed since it began.
Earned(P, at, s, k) == Cardinality({r \in P : at[r] >= s}) >= k

\* The statement of AtMostTwice for the requests P.
Twice(P, at, limit, length) ==
  \A i, j \in P :
    /\ i < j
    /\ Cardinality({r \in P : i <= r /\ r <= j}) > 2 * limit
    => at[j] - at[i] >= length

LEMMA Numbered ==
  ASSUME NEW n \in Nat, NEW P \in SUBSET (1 .. n)
  PROVE  IsFiniteSet(P) /\ Cardinality(P) \in Nat
<1>1. IsFiniteSet(1 .. n)
  BY FS_Interval
<1>. QED
  BY <1>1, FS_Subset, FS_CardinalityType

\* The next number is none of them, and past all of them.
LEMMA NextNumber ==
  ASSUME NEW n \in Nat, NEW P \in SUBSET (1 .. n)
  PROVE  n + 1 \notin P /\ \A r \in P : r \in Nat /\ r <= n /\ ~ n + 1 <= r
OBVIOUS

LEMMA LaterGrows ==
  ASSUME NEW n \in Nat, NEW P \in SUBSET (1 .. n)
  PROVE  /\ \A i \in P : Later(P, i) \in Nat /\ Later(P \cup {n + 1}, i) = Later(P, i) + 1
         /\ Later(P \cup {n + 1}, n + 1) = 1
<1>1. ASSUME NEW i \in P
      PROVE  Later(P, i) \in Nat /\ Later(P \cup {n + 1}, i) = Later(P, i) + 1
  <2> DEFINE L == {r \in P : i <= r}
  <2>0. n + 1 \notin P /\ i <= n + 1
    BY NextNumber
  <2>1. L \in SUBSET (1 .. n) /\ n + 1 \notin L /\ i <= n + 1
    BY <2>0, Zenon
  <2>2. {r \in P \cup {n + 1} : i <= r} = L \cup {n + 1}
    BY <2>1
  <2>3. IsFiniteSet(L) /\ Cardinality(L) \in Nat
    BY <2>1, Numbered
  <2>4. Cardinality(L \cup {n + 1}) = Cardinality(L) + 1
    BY <2>1, <2>3, FS_AddElement
  <2>. QED
    BY <2>2, <2>3, <2>4 DEF Later
<1>2. Later(P \cup {n + 1}, n + 1) = 1
  <2>0. n + 1 <= n + 1 /\ \A r \in P : ~ n + 1 <= r
    BY NextNumber
  <2>1. {r \in P \cup {n + 1} : n + 1 <= r} = {n + 1}
    BY <2>0, Zenon
  <2>. QED
    BY <2>1, FS_Singleton DEF Later
<1>. QED
  BY <1>1, <1>2

\* A window that has run out may start again, or be dropped, at the time t.
LEMMA Restarted ==
  ASSUME NEW n \in Nat, NEW P \in SUBSET (1 .. n), NEW at, \A i \in P : at[i] \in Nat,
         NEW s \in Nat, NEW k \in Nat, NEW limit \in Nat, NEW length \in Nat \ {0},
         NEW t \in Nat, s + length <= t, Fits(P, at, s, k, limit, length)
  PROVE  Fits(P, at, t, 0, limit, length)
<1>1. \A i \in P : at[i] \in Nat /\ Later(P, i) \in Nat
  BY LaterGrows
<1>. QED
  BY <1>1 DEF Fits

\* A window under its limit counts the request n + 1, which passes at t.
LEMMA Counted ==
  ASSUME NEW n \in Nat, NEW P \in SUBSET (1 .. n), NEW at, \A i \in P : at[i] \in Nat,
         NEW s \in Nat, NEW k \in Nat, NEW limit \in Nat, NEW length \in Nat \ {0},
         NEW t \in Nat, s <= t, t < s + length, k < limit,
         Fits(P, at, s, k, limit, length), Twice(P, at, limit, length),
         NEW more, \A i \in P : more[i] = at[i], more[n + 1] = t
  PROVE  /\ Fits(P \cup {n + 1}, more, s, k + 1, limit, length)
         /\ Twice(P \cup {n + 1}, more, limit, length)
<1> DEFINE Q == P \cup {n + 1}
<1>1. /\ \A i \in P : /\ at[i] \in Nat /\ Later(P, i) \in Nat
                      /\ Later(Q, i) = Later(P, i) + 1
      /\ Later(Q, n + 1) = 1
  BY LaterGrows
<1>2. Fits(Q, more, s, k + 1, limit, length)
  <2>1. k + 1 <= limit
    OBVIOUS
  <2>2. ASSUME NEW i \in P
        PROVE  /\ more[i] < s + length
               /\ Later(Q, i) > k + 1 => more[i] < s
               /\ Later(Q, i) > k + 1 + limit => more[i] + length <= s
    BY <1>1, <2>2 DEF Fits
  <2>3. /\ more[n + 1] < s + length
        /\ ~ Later(Q, n + 1) > k + 1 /\ ~ Later(Q, n + 1) > k + 1 + limit
    BY <1>1
  <2>. HIDE DEF Q
  <2>4. \A i \in Q : i \in P \/ i = n + 1
    BY DEF Q
  <2>. QED
    BY <2>1, <2>2, <2>3, <2>4 DEF Fits
<1>3. Twice(Q, more, limit, length)
  <2> SUFFICES ASSUME NEW i \in Q, NEW j \in Q, i < j,
                      Cardinality({r \in Q : i <= r /\ r <= j}) > 2 * limit
               PROVE  more[j] - more[i] >= length
    BY DEF Twice
  <2>1. i \in P /\ i \in 1 .. n
    OBVIOUS
  <2>2. CASE j = n + 1
    <3>0. \A r \in Q : r <= j
      BY <2>2, NextNumber
    <3>1. {r \in Q : i <= r /\ r <= j} = {r \in Q : i <= r}
      BY <3>0, Zenon
    <3>2. Later(Q, i) > 2 * limit
      BY <3>1 DEF Later
    <3>3. Later(P, i) > k + limit
      BY <1>1, <2>1, <3>2
    <3>. QED
      BY <1>1, <2>1, <2>2, <3>3 DEF Fits
  <2>3. CASE j \in P
    <3>1. {r \in Q : i <= r /\ r <= j} = {r \in P : i <= r /\ r <= j}
      BY <2>3
    <3>2. at[j] - at[i] >= length
      BY <2>1, <2>3, <3>1 DEF Twice
    <3>. QED
      BY <2>1, <2>3, <3>2
  <2>. QED
    BY <2>2, <2>3
<1>. QED
  BY <1>2, <1>3

\* What a window has earned it keeps when requests pass, and one more is counted.
LEMMA EarnedGrows ==
  ASSUME NEW n \in Nat, NEW P \in SUBSET (1 .. n), NEW at, \A i \in P : at[i] \in Nat,
         NEW s \in Nat, NEW k \in Nat, NEW t \in Nat, s <= t, Earned(P, at, s, k),
         NEW more, \A i \in P : more[i] = at[i], more[n + 1] = t
  PROVE  Earned(P \cup {n + 1}, more, s, k + 1)
<1> DEFINE E == {r \in P : at[r] >= s}
<1>1. E \in SUBSET (1 .. n) /\ n + 1 \notin E
  BY NextNumber
<1>2. {r \in P \cup {n + 1} : more[r] >= s} = E \cup {n + 1}
  OBVIOUS
<1>3. IsFiniteSet(E) /\ Cardinality(E) \in Nat
  BY <1>1, Numbered
<1>4. Cardinality(E \cup {n + 1}) = Cardinality(E) + 1
  BY <1>1, <1>3, FS_AddElement
<1>5. Cardinality(E) >= k
  BY DEF Earned
<1>6. Cardinality({r \in P \cup {n + 1} : more[r] >= s}) = Cardinality(E) + 1
  BY <1>2, <1>4
<1>. HIDE DEF E
<1>. QED
  BY <1>3, <1>5, <1>6 DEF Earned

LEMMA NothingEarned ==
  ASSUME NEW n \in Nat, NEW P \in SUBSET (1 .. n), NEW at, NEW s
  PROVE  Earned(P, at, s, 0)
<1>1. Cardinality({r \in P : at[r] >= s}) \in Nat
  BY Numbered
<1>. QED
  BY <1>1 DEF Earned

-----------------------------------------------------------------------------
(* The entries of a limiter *)

\* The index of the j-th entry that is kept of those at I.
Nth(I, j) == CHOOSE i \in I : Cardinality({k \in I : k <= i}) = j

Chosen(s, I) == [j \in 1 .. Cardinality(I) |-> s[Nth(I, j)]]

\* The numbers of the places in I are those from 1 to the size of I.
LEMMA Ranked ==
  ASSUME NEW n \in Nat, NEW I \in SUBSET (1 .. n), NEW j \in 1 .. Cardinality(I)
  PROVE  Nth(I, j) \in I /\ Cardinality({k \in I : k <= Nth(I, j)}) = j
<1> DEFINE m == Cardinality(I)
           rank == [i \in I |-> Cardinality({k \in I : k <= i})]
<1>1. IsFiniteSet(I) /\ m \in Nat
  BY Numbered
<1>2. ASSUME NEW i \in I
      PROVE  /\ IsFiniteSet({k \in I : k <= i})
             /\ Cardinality({k \in I : k <= i}) \in 1 .. m
  <2>1. {k \in I : k <= i} \in SUBSET I /\ {k \in I : k <= i} # {}
    OBVIOUS
  <2>2. /\ IsFiniteSet({k \in I : k <= i})
        /\ Cardinality({k \in I : k <= i}) <= m
        /\ Cardinality({k \in I : k <= i}) \in Nat
    BY <1>1, <2>1, FS_Subset, FS_CardinalityType
  <2>3. Cardinality({k \in I : k <= i}) # 0
    BY <2>1, <2>2, FS_EmptySet
  <2>. QED
    BY <1>1, <2>2, <2>3
<1>3. \A i, h \in I : rank[i] = rank[h] => i = h
  <2>1. ASSUME NEW i \in I, NEW h \in I, i < h
        PROVE  Cardinality({k \in I : k <= i}) # Cardinality({k \in I : k <= h})
    <3>. i \in Nat /\ h \in Nat /\ \A k \in I : k \in Nat
      OBVIOUS
    <3>0. \A k \in I : k <= i => k <= h
      BY <2>1
    <3>1. {k \in I : k <= i} \in SUBSET {k \in I : k <= h}
      BY <3>0, Zenon
    <3>4. h \in {k \in I : k <= h} /\ h \notin {k \in I : k <= i}
      BY <2>1
    <3>2. IsFiniteSet({k \in I : k <= h})
      BY <1>2
    <3>3. {k \in I : k <= i} # {k \in I : k <= h}
      BY <3>4
    <3>. QED
      BY <3>1, <3>2, <3>3, FS_Subset
  <2>2. ASSUME NEW i \in I, NEW h \in I, rank[i] = rank[h] PROVE i = h
    <3>1. ~ i < h /\ ~ h < i
      BY <2>1, <2>2
    <3>2. i \in Nat /\ h \in Nat
      OBVIOUS
    <3>. QED
      BY <3>1, <3>2
  <2>. QED
    BY <2>2
<1>4. rank \in Injection(I, 1 .. m)
  <2>1. rank \in [I -> 1 .. m]
    BY <1>2
  <2>2. \A i, h \in I : i # h => rank[i] # rank[h]
    BY <1>3, Zenon
  <2>. HIDE DEF rank, m
  <2>. QED
    BY <2>1, <2>2 DEF Injection, IsInjective
<1>5. IsFiniteSet(1 .. m) /\ Cardinality(1 .. m) = m
  BY <1>1, FS_Interval
<1>6. rank \in Surjection(I, 1 .. m)
  BY <1>4, <1>5, FS_Injection
<1>7. \E i \in I : rank[i] = j
  BY <1>6 DEF Surjection
<1>8. \E i \in I : Cardinality({k \in I : k <= i}) = j
  BY <1>7
<1>. QED
  BY <1>8 DEF Nth

\* A choice of entries is a sequence of different ones of them.
LEMMA ChosenEntries ==
  ASSUME NEW W, NEW s \in Seq(W), NEW I \in SUBSET (DOMAIN s)
  PROVE  /\ Chosen(s, I) \in Seq(W) /\ Len(Chosen(s, I)) \in Nat
         /\ Len(Chosen(s, I)) = Cardinality(I)
         /\ \A j \in 1 .. Cardinality(I) : Nth(I, j) \in I /\ Chosen(s, I)[j] = s[Nth(I, j)]
         /\ \A j, k \in 1 .. Cardinality(I) : Nth(I, j) = Nth(I, k) => j = k
<1>1. DOMAIN s = 1 .. Len(s) /\ Len(s) \in Nat
  OBVIOUS
<1>2. Cardinality(I) \in Nat
  BY <1>1, Numbered
<1>3. \A j \in 1 .. Cardinality(I) :
        Nth(I, j) \in I /\ Cardinality({k \in I : k <= Nth(I, j)}) = j
  BY <1>1, Ranked
<1>4. \A j \in 1 .. Cardinality(I) : s[Nth(I, j)] \in W
  <2>1. \A i \in DOMAIN s : s[i] \in W
    OBVIOUS
  <2>. QED
    BY <1>3, <2>1
<1> DEFINE m == Cardinality(I)
           t == [j \in 1 .. m |-> s[Nth(I, j)]]
<1>5. t \in Seq(W) /\ Len(t) = m /\ \A j \in 1 .. m : t[j] = s[Nth(I, j)]
  <2>1. t \in [1 .. m -> W]
    BY <1>4
  <2>2. t \in Seq(W)
    BY <1>2, <2>1
  <2>. QED
    BY <1>2, <2>1, <2>2
<1>. HIDE DEF t
<1>6. Chosen(s, I) = t
  BY DEF Chosen, t
<1>. QED
  BY <1>2, <1>3, <1>5, <1>6

\* t holds entries of u, each at most once.
Part(t, u) ==
  \E f \in [DOMAIN t -> DOMAIN u] :
    /\ \A j \in DOMAIN t : t[j] = u[f[j]]
    /\ \A j, k \in DOMAIN t : f[j] = f[k] => j = k

\* Room for one more among m is made by dropping the first of those chosen.
LEMMA RoomForOne ==
  ASSUME NEW W, NEW u \in Seq(W), NEW I \in SUBSET (DOMAIN u), NEW m \in Nat \ {0},
         NEW t, t = IF Len(Chosen(u, I)) < m THEN Chosen(u, I)
                    ELSE SubSeq(Chosen(u, I), Len(Chosen(u, I)) - m + 2, Len(Chosen(u, I)))
  PROVE  t \in Seq(W) /\ Len(t) \in Nat /\ Len(t) < m /\ Part(t, u)
<1> DEFINE n == Cardinality(I)
           live == Chosen(u, I)
           a == IF n < m THEN 0 ELSE n - m + 1
<1>1. /\ live \in Seq(W) /\ n \in Nat /\ Len(live) = n
      /\ \A j \in 1 .. n : Nth(I, j) \in I /\ live[j] = u[Nth(I, j)]
      /\ \A j, k \in 1 .. n : Nth(I, j) = Nth(I, k) => j = k
  BY ChosenEntries
<1>. HIDE DEF live, n
<1>2. a \in Nat /\ n - a \in Nat /\ n - a < m
  BY <1>1
<1>3. t \in Seq(W) /\ Len(t) = n - a /\ \A j \in 1 .. n - a : t[j] = live[j + a]
  BY <1>1 DEF live
<1>4. Part(t, u)
  <2> DEFINE f == [j \in 1 .. n - a |-> Nth(I, j + a)]
  <2>1. DOMAIN t = 1 .. n - a
    BY <1>2, <1>3
  <2>2. \A j \in 1 .. n - a : j + a \in 1 .. n
    BY <1>1, <1>2
  <2>3. f \in [DOMAIN t -> DOMAIN u] /\ \A j \in DOMAIN t : t[j] = u[f[j]]
    BY <1>1, <1>3, <2>1, <2>2
  <2>4. \A j, k \in DOMAIN t : f[j] = f[k] => j = k
    <3>1. ASSUME NEW j \in 1 .. n - a, NEW k \in 1 .. n - a, f[j] = f[k] PROVE j = k
      <4>1. Nth(I, j + a) = Nth(I, k + a)
        BY <3>1
      <4>2. j + a = k + a
        BY <1>1, <2>2, <4>1
      <4>. QED
        BY <1>2, <4>2
    <3>. QED
      BY <2>1, <3>1
  <2>. HIDE DEF f
  <2>. QED
    BY <2>3, <2>4 DEF Part
<1>. QED
  BY <1>2, <1>3, <1>4

Entry == [id : Client, minuteCount : Nat, minuteStart : Nat,
          hourCount : Nat, hourStart : Nat]

Distinct(u) == \A i, j \in DOMAIN u : u[i].id = u[j].id => i = j

LEMMA Parameters ==
  /\ PerMinute \in Nat \ {0} /\ PerHour \in Nat \ {0} /\ MaxEntries \in Nat \ {0}
  /\ Minute \in Nat \ {0} /\ Hour \in Nat \ {0} /\ Minute <= Hour /\ "nobody" \notin Client
BY ServerAssumption

LEMMA RolledEntry ==
  ASSUME NEW w \in Entry, NEW now \in Nat, NEW r, r = ClientLimiter!Roll(w, now)
  PROVE  /\ r \in Entry /\ r.id = w.id
         /\ IF now - w.minuteStart >= Minute
              THEN r.minuteCount = 0 /\ r.minuteStart = now
              ELSE r.minuteCount = w.minuteCount /\ r.minuteStart = w.minuteStart
         /\ IF now - w.hourStart >= Hour
              THEN r.hourCount = 0 /\ r.hourStart = now
              ELSE r.hourCount = w.hourCount /\ r.hourStart = w.hourStart
BY DEF ClientLimiter!Roll, ClientLimiter!Elapsed, Entry

LEMMA CountedEntry ==
  ASSUME NEW w \in Entry, NEW r, r = ClientLimiter!CountOne(w)
  PROVE  /\ r \in Entry /\ r.id = w.id
         /\ r.minuteCount = w.minuteCount + 1 /\ r.minuteStart = w.minuteStart
         /\ r.hourCount = w.hourCount + 1 /\ r.hourStart = w.hourStart
<1>1. w.minuteCount \in Nat /\ w.hourCount \in Nat
  BY DEF Entry
<1>2. r = [id |-> w.id, minuteCount |-> w.minuteCount + 1, minuteStart |-> w.minuteStart,
           hourCount |-> w.hourCount + 1, hourStart |-> w.hourStart]
  BY <1>1 DEF ClientLimiter!CountOne, Entry
<1>. QED
  BY <1>1, <1>2 DEF Entry

LEMMA NewEntry ==
  ASSUME NEW c \in Client, NEW now \in Nat, NEW w, w = ClientLimiter!NewWindow(c, now)
  PROVE  /\ w \in Entry /\ w.id = c
         /\ w.minuteCount = 0 /\ w.minuteStart = now
         /\ w.hourCount = 0 /\ w.hourStart = now
BY DEF ClientLimiter!NewWindow, Entry

\* What check leaves in the map u: for c the window w, begun anew where it had
\* run out and counted unless a limit is reached, and entries of before.
After(c, u, now, w, k) ==
  /\ w.id = c
  /\ \/ \E i \in DOMAIN u : u[i].id = c /\ w = ClientLimiter!Roll(u[i], now)
     \/ ~ ClientLimiter!Known(u, c) /\ w = ClientLimiter!NewWindow(c, now)
  /\ k.allowed = ~ ClientLimiter!Exceeded(w)
  /\ k.usage \in Seq(Entry) /\ Len(k.usage) <= MaxEntries /\ Distinct(k.usage)
  /\ ClientLimiter!Known(k.usage, c)
  /\ \A i \in DOMAIN k.usage :
       IF k.usage[i].id = c
         THEN k.usage[i] = IF ClientLimiter!Exceeded(w) THEN w ELSE ClientLimiter!CountOne(w)
         ELSE \E j \in DOMAIN u : k.usage[i] = u[j]

LEMMA ClientCheck ==
  ASSUME NEW u \in Seq(Entry), Distinct(u), Len(u) <= MaxEntries,
         NEW c \in Client, NEW now \in Nat
  PROVE  \E w \in Entry : After(c, u, now, w, ClientLimiter!Check(u, c, now))
<1> DEFINE k == ClientLimiter!Check(u, c, now)
<1>1. CASE ClientLimiter!Known(u, c)
  <2>1. PICK i \in DOMAIN u : u[i].id = c
    BY <1>1 DEF ClientLimiter!Known
  <2> DEFINE w == ClientLimiter!Roll(u[i], now)
             x == IF ClientLimiter!Exceeded(w) THEN w ELSE ClientLimiter!CountOne(w)
  <2>2. i \in 1 .. Len(u) /\ u[i] \in Entry
    OBVIOUS
  <2>3. w \in Entry /\ w.id = c
    BY <2>1, <2>2, RolledEntry
  <2>4. x \in Entry /\ x.id = c
    BY <2>3, CountedEntry
  <2>5. k = [allowed |-> ~ ClientLimiter!Exceeded(w), usage |-> [u EXCEPT ![i] = x]]
    <3>1. {h \in 1 .. Len(u) : u[h].id = c} = {i}
      BY <2>1 DEF Distinct
    <3>2. ClientLimiter!SelectInSeq(u, LAMBDA v : v.id = c) = i
      BY <2>2, <3>1 DEF ClientLimiter!SelectInSeq, ClientLimiter!Min
    <3>. QED
      BY <1>1, <3>2 DEF ClientLimiter!Check
  <2>. HIDE DEF k, w, x
  <2>6. /\ k.usage \in Seq(Entry) /\ Len(k.usage) = Len(u) /\ DOMAIN k.usage = DOMAIN u
        /\ k.usage[i] = x /\ \A j \in DOMAIN u : j # i => k.usage[j] = u[j]
    BY <2>2, <2>4, <2>5
  <2>7. \A j \in DOMAIN u : k.usage[j].id = u[j].id
    BY <2>1, <2>4, <2>6
  <2>8. Distinct(k.usage) /\ ClientLimiter!Known(k.usage, c)
    BY <2>1, <2>6, <2>7 DEF Distinct, ClientLimiter!Known
  <2>9. \A j \in DOMAIN u : j # i => u[j].id # c
    BY <2>1 DEF Distinct
  <2>. QED
    BY <2>1, <2>3, <2>4, <2>5, <2>6, <2>7, <2>8, <2>9 DEF After, w, x, k
<1>2. CASE ~ ClientLimiter!Known(u, c)
  <2> DEFINE w == ClientLimiter!NewWindow(c, now)
             x == ClientLimiter!CountOne(w)
             t == ClientLimiter!EvictStale(u, now)
  <2>1. /\ w \in Entry /\ w.id = c /\ ~ ClientLimiter!Exceeded(w)
        /\ x \in Entry /\ x.id = c
    BY NewEntry, CountedEntry, Parameters DEF ClientLimiter!Exceeded
  <2>2. t \in Seq(Entry) /\ Len(t) \in Nat /\ Len(t) < MaxEntries /\ Part(t, u)
    <3> DEFINE I == {i \in DOMAIN u : ClientLimiter!Live(u[i], now)}
    <3>1. ClientLimiter!LiveEntries(u, now) = ClientLimiter!Entries(u, I)
      BY DEF ClientLimiter!LiveEntries
    <3>2. I \in SUBSET (DOMAIN u)
      OBVIOUS
    <3>. HIDE DEF I
    <3>4. ClientLimiter!Entries(u, I) = Chosen(u, I)
      BY DEF ClientLimiter!Entries, Chosen, Nth, ClientLimiter!Cardinality, Cardinality
    <3>3. t = IF Len(Chosen(u, I)) < MaxEntries THEN Chosen(u, I)
              ELSE SubSeq(Chosen(u, I), Len(Chosen(u, I)) - MaxEntries + 2, Len(Chosen(u, I)))
      BY <3>1, <3>4 DEF ClientLimiter!EvictStale
    <3>. HIDE DEF t
    <3>. QED
      BY <3>2, <3>3, RoomForOne, Parameters
  <2>3. k = [allowed |-> TRUE, usage |-> Append(t, x)]
    BY <1>2 DEF ClientLimiter!Check
  <2>. HIDE DEF k, w, x, t
  <2>4. /\ k.usage \in Seq(Entry) /\ Len(k.usage) = Len(t) + 1
        /\ DOMAIN t = 1 .. Len(t) /\ DOMAIN k.usage = 1 .. Len(t) + 1
        /\ k.usage[Len(t) + 1] = x /\ \A j \in 1 .. Len(t) : k.usage[j] = t[j]
    BY <2>1, <2>2, <2>3
  <2>5. \A j \in DOMAIN u : u[j].id # c
    BY <1>2 DEF ClientLimiter!Known
  <2>6. ASSUME NEW j \in 1 .. Len(t)
        PROVE  t[j].id # c /\ \E h \in DOMAIN u : t[j] = u[h]
    <3>1. PICK h \in DOMAIN u : t[j] = u[h]
      BY <2>2, <2>4 DEF Part
    <3>. QED
      BY <2>5, <3>1
  <2>7. \A j, h \in 1 .. Len(t) : t[j].id = t[h].id => j = h
    <3>1. PICK f \in [DOMAIN t -> DOMAIN u] :
            /\ \A j \in DOMAIN t : t[j] = u[f[j]]
            /\ \A j, h \in DOMAIN t : f[j] = f[h] => j = h
      BY <2>2 DEF Part
    <3>2. \A j, h \in DOMAIN t : u[f[j]].id = u[f[h]].id => f[j] = f[h]
      BY DEF Distinct
    <3>. QED
      BY <2>4, <3>1, <3>2
  <2>8. Distinct(k.usage)
    BY <2>1, <2>2, <2>4, <2>6, <2>7 DEF Distinct
  <2>9. ClientLimiter!Known(k.usage, c) /\ Len(k.usage) <= MaxEntries
    BY <2>1, <2>2, <2>4, Parameters DEF ClientLimiter!Known
  <2>10. \A i \in DOMAIN k.usage :
           IF k.usage[i].id = c THEN k.usage[i] = x
                                ELSE \E j \in DOMAIN u : k.usage[i] = u[j]
    BY <2>1, <2>2, <2>4, <2>6
  <2>11. After(c, u, now, w, k)
    BY <1>2, <2>1, <2>3, <2>4, <2>8, <2>9, <2>10 DEF After, w, x
  <2>. QED
    BY <2>1, <2>11 DEF k
<1>. QED
  BY <1>1, <1>2

TenantEntry == [id : {Tenant}, minuteCount : Nat, minuteStart : Nat,
                hourCount : Nat, hourStart : Nat]

LEMMA CountedTenant ==
  ASSUME NEW w \in TenantEntry, NEW r, r = TenantLimiter!CountOne(w)
  PROVE  r \in TenantEntry
<1>1. w.minuteCount \in Nat /\ w.hourCount \in Nat
  BY DEF TenantEntry
<1>2. r = [id |-> w.id, minuteCount |-> w.minuteCount + 1, minuteStart |-> w.minuteStart,
           hourCount |-> w.hourCount + 1, hourStart |-> w.hourStart]
  BY <1>1 DEF TenantLimiter!CountOne, TenantEntry
<1>. QED
  BY <1>1, <1>2 DEF TenantEntry

LEMMA TenantCheck ==
  ASSUME NEW u \in Seq(TenantEntry), Len(u) <= MaxEntries, NEW now \in Nat
  PROVE  LET v == TenantLimiter!Check(u, Tenant, now).usage
         IN  v \in Seq(TenantEntry) /\ Len(v) <= MaxEntries
<1> DEFINE v == TenantLimiter!Check(u, Tenant, now).usage
<1>1. CASE TenantLimiter!Known(u, Tenant)
  <2> DEFINE i == TenantLimiter!SelectInSeq(u, LAMBDA x : x.id = Tenant)
             w == TenantLimiter!Roll(u[i], now)
             x == IF TenantLimiter!Exceeded(w) THEN w ELSE TenantLimiter!CountOne(w)
  <2>1. v = [u EXCEPT ![i] = x]
    BY <1>1 DEF TenantLimiter!Check
  <2>2. i \in DOMAIN u => x \in TenantEntry
    <3>. HIDE DEF i
    <3>1. SUFFICES ASSUME i \in DOMAIN u PROVE x \in TenantEntry
      OBVIOUS
    <3>2. u[i] \in TenantEntry
      BY <3>1
    <3>3. w \in TenantEntry
      BY <3>2 DEF TenantLimiter!Roll, TenantLimiter!Elapsed, TenantEntry
    <3>. HIDE DEF w
    <3>4. TenantLimiter!CountOne(w) \in TenantEntry
      BY <3>3, CountedTenant
    <3>. QED
      BY <3>3, <3>4
  <2>. HIDE DEF v, x, i
  <2>3. CASE i \in DOMAIN u
    <3>1. i \in 1 .. Len(u) /\ x \in TenantEntry
      BY <2>2, <2>3
    <3>2. v \in Seq(TenantEntry) /\ Len(v) = Len(u)
      BY <2>1, <3>1
    <3>. QED
      BY <3>2 DEF v
  <2>4. CASE i \notin DOMAIN u
    <3>1. v = u
      BY <2>1, <2>4
    <3>. QED
      BY <3>1 DEF v
  <2>. QED
    BY <2>3, <2>4 DEF v
<1>2. CASE ~ TenantLimiter!Known(u, Tenant)
  <2> DEFINE x == TenantLimiter!CountOne(TenantLimiter!NewWindow(Tenant, now))
             t == TenantLimiter!EvictStale(u, now)
             I == {i \in DOMAIN u : TenantLimiter!Live(u[i], now)}
  <2>1. x \in TenantEntry
    <3> DEFINE w == TenantLimiter!NewWindow(Tenant, now)
    <3>1. w \in TenantEntry
      BY DEF TenantLimiter!NewWindow, TenantEntry
    <3>. HIDE DEF w
    <3>2. TenantLimiter!CountOne(w) \in TenantEntry
      BY <3>1, CountedTenant
    <3>. QED
      BY <3>2 DEF w
  <2>2. TenantLimiter!LiveEntries(u, now) = TenantLimiter!Entries(u, I)
    BY DEF TenantLimiter!LiveEntries
  <2>3. v = Append(t, x)
    BY <1>2 DEF TenantLimiter!Check
  <2>4. I \in SUBSET (DOMAIN u)
    OBVIOUS
  <2>. HIDE DEF I, x, v
  <2>5. TenantLimiter!Entries(u, I) = Chosen(u, I)
    BY DEF TenantLimiter!Entries, Chosen, Nth, TenantLimiter!Cardinality, Cardinality
  <2>6. t = IF Len(Chosen(u, I)) < MaxEntries THEN Chosen(u, I)
            ELSE SubSeq(Chosen(u, I), Len(Chosen(u, I)) - MaxEntries + 2, Len(Chosen(u, I)))
    BY <2>2, <2>5 DEF TenantLimiter!EvictStale
  <2>. HIDE DEF t
  <2>7. t \in Seq(TenantEntry) /\ Len(t) \in Nat /\ Len(t) < MaxEntries
    BY <2>4, <2>6, RoomForOne, Parameters
  <2>8. v \in Seq(TenantEntry) /\ Len(v) <= MaxEntries
    BY <2>1, <2>3, <2>7, Parameters
  <2>. QED
    BY <2>8 DEF v
<1>. QED
  BY <1>1, <1>2

-----------------------------------------------------------------------------
(* The windows tell what has passed *)

\* A window that began at s and has counted k is sound for the requests P of c.
Sound(P, at, s, k, limit, length, c, excused) ==
  Earned(P, at, s, k) /\ (c \notin excused => Fits(P, at, s, k, limit, length))

LEMMA SoundRestart ==
  ASSUME NEW n \in Nat, NEW P \in SUBSET (1 .. n), NEW at, \A i \in P : at[i] \in Nat,
         NEW s \in Nat, NEW k \in Nat, NEW limit \in Nat, NEW length \in Nat \ {0},
         NEW t \in Nat, s + length <= t,
         NEW c, NEW excused, NEW later, c \in excused => c \in later,
         Sound(P, at, s, k, limit, length, c, excused)
  PROVE  Sound(P, at, t, 0, limit, length, c, later)
<1>1. Earned(P, at, t, 0)
  BY NothingEarned
<1>2. c \notin later => Fits(P, at, t, 0, limit, length)
  BY Restarted DEF Sound
<1>. QED
  BY <1>1, <1>2 DEF Sound

\* A window that has counted nothing yet may as well begin later.
LEMMA SoundLater ==
  ASSUME NEW n \in Nat, NEW P \in SUBSET (1 .. n), NEW at, \A i \in P : at[i] \in Nat,
         NEW s \in Nat, NEW limit \in Nat, NEW length \in Nat, NEW t \in Nat, s <= t,
         NEW c, NEW excused, Sound(P, at, s, 0, limit, length, c, excused)
  PROVE  Sound(P, at, t, 0, limit, length, c, excused)
<1>1. Earned(P, at, t, 0)
  BY NothingEarned
<1>2. \A i \in P : at[i] \in Nat /\ Later(P, i) \in Nat
  BY LaterGrows
<1>3. Fits(P, at, s, 0, limit, length) => Fits(P, at, t, 0, limit, length)
  BY <1>2 DEF Fits
<1>. QED
  BY <1>1, <1>3 DEF Sound

LEMMA SoundCount ==
  ASSUME NEW n \in Nat, NEW P \in SUBSET (1 .. n), NEW at, \A i \in P : at[i] \in Nat,
         NEW s \in Nat, NEW k \in Nat, NEW limit \in Nat, NEW length \in Nat \ {0},
         NEW t \in Nat, s <= t, t < s + length, k < limit,
         NEW c, NEW excused, NEW later, c \in excused => c \in later,
         Sound(P, at, s, k, limit, length, c, excused),
         c \notin excused => Twice(P, at, limit, length),
         NEW more, \A i \in P : more[i] = at[i], more[n + 1] = t
  PROVE  /\ Sound(P \cup {n + 1}, more, s, k + 1, limit, length, c, later)
         /\ c \notin later => Twice(P \cup {n + 1}, more, limit, length)
<1>1. Earned(P \cup {n + 1}, more, s, k + 1)
  BY EarnedGrows DEF Sound
<1>2. c \notin later => /\ Fits(P \cup {n + 1}, more, s, k + 1, limit, length)
                 /\ Twice(P \cup {n + 1}, more, limit, length)
  BY Counted DEF Sound
<1>. QED
  BY <1>1, <1>2 DEF Sound

\* What passes of others changes nothing.
LEMMA SoundSame ==
  ASSUME NEW P, NEW at, NEW s, NEW k, NEW limit, NEW length,
         NEW c, NEW excused, NEW later, c \in excused => c \in later,
         NEW more, \A i \in P : more[i] = at[i]
  PROVE  /\ Sound(P, at, s, k, limit, length, c, excused)
              => Sound(P, more, s, k, limit, length, c, later)
         /\ Twice(P, at, limit, length) => Twice(P, more, limit, length)
<1>1. {r \in P : more[r] >= s} = {r \in P : at[r] >= s}
  OBVIOUS
<1>2. Earned(P, at, s, k) => Earned(P, more, s, k)
  BY <1>1 DEF Earned
<1>3. Fits(P, at, s, k, limit, length) => Fits(P, more, s, k, limit, length)
  BY DEF Fits
<1>. QED
  BY <1>2, <1>3 DEF Sound, Twice

Times == [r \in DOMAIN request |-> request[r].at]

MinuteSound(c, s, k) ==
  Sound(Passed(c), Times, s, k, PerMinute, Minute, c, forgotten.minute)

HourSound(c, s, k) ==
  Sound(Passed(c), Times, s, k, PerHour, Hour, c, forgotten.hour)

Maps ==
  /\ usage \in Seq(Entry) /\ Distinct(usage) /\ Len(usage) <= MaxEntries
  /\ tenants \in Seq(TenantEntry) /\ Len(tenants) <= MaxEntries
  /\ forgotten \in [minute : SUBSET Client, hour : SUBSET Client]

Past == \A r \in DOMAIN request : request[r].at <= clock

EntrySound(w) ==
  /\ w.minuteStart <= clock /\ MinuteSound(w.id, w.minuteStart, w.minuteCount)
  /\ w.hourStart <= clock /\ HourSound(w.id, w.hourStart, w.hourCount)

\* A client without an entry might as well have one that begins now.
AbsentSound(c) == MinuteSound(c, clock, 0) /\ HourSound(c, clock, 0)

EntriesSound ==
  /\ \A w \in Entry : (\E i \in DOMAIN usage : usage[i] = w) => EntrySound(w)
  /\ \A c \in Client : ~ ClientLimiter!Known(usage, c) => AbsentSound(c)

\* Before the request r, so many of P were passed within a window's length.
Full(P, at, r, limit, length) ==
  Cardinality({p \in P : p < r /\ at[r] - at[p] < length}) >= limit

Refused(c, r) == request[r].client = c /\ ~ request[r].passed

RefusalsEarned ==
  \A r \in DOMAIN request : \A c \in Client : Refused(c, r) =>
    \/ Full(Passed(c), Times, r, PerMinute, Minute)
    \/ Full(Passed(c), Times, r, PerHour, Hour)

AllAtMostTwice ==
  /\ \A c \in Client \ forgotten.minute : Twice(Passed(c), Times, PerMinute, Minute)
  /\ \A c \in Client \ forgotten.hour : Twice(Passed(c), Times, PerHour, Hour)

LimitInv == Maps /\ Past /\ EntriesSound /\ AllAtMostTwice /\ RefusalsEarned

LEMMA PassedNumbers ==
  ASSUME Types
  PROVE  /\ Len(request) \in Nat /\ DOMAIN request = 1 .. Len(request)
         /\ \A r \in DOMAIN request : request[r] \in Request /\ request[r].at \in Nat
         /\ \A c : /\ Passed(c) \in SUBSET (1 .. Len(request))
                   /\ \A i \in Passed(c) : Times[i] = request[i].at /\ Times[i] \in Nat
<1>1. /\ Len(request) \in Nat /\ DOMAIN request = 1 .. Len(request)
      /\ \A r \in DOMAIN request : request[r] \in Request
  BY DEF Types
<1>3. \A r \in DOMAIN request : request[r].at \in Nat
  BY <1>1 DEF Request
<1>2. \A c : Passed(c) \in SUBSET (1 .. Len(request))
  BY <1>1 DEF Passed
<1>. QED
  BY <1>1, <1>2, <1>3 DEF Times

LEMMA TwiceIsAtMostTwice ==
  ASSUME Types, NEW c, NEW limit, NEW length
  PROVE  AtMostTwice(c, limit, length) <=> Twice(Passed(c), Times, limit, length)
BY PassedNumbers DEF AtMostTwice, Twice

\* The window of c that check looks at is sound, and runs.
LEMMA RolledIsSound ==
  ASSUME Types, LimitInv, NEW c \in Client, NEW w \in Entry, NEW k,
         After(c, usage, clock, w, k)
  PROVE  /\ w.minuteStart <= clock /\ clock < w.minuteStart + Minute
         /\ w.hourStart <= clock /\ clock < w.hourStart + Hour
         /\ MinuteSound(c, w.minuteStart, w.minuteCount)
         /\ HourSound(c, w.hourStart, w.hourCount)
<1> DEFINE n == Len(request)
<1>1. /\ n \in Nat /\ Passed(c) \in SUBSET (1 .. n) /\ \A i \in Passed(c) : Times[i] \in Nat
      /\ clock \in Nat
  BY PassedNumbers DEF Types
<1>2. CASE \E i \in DOMAIN usage : usage[i].id = c /\ w = ClientLimiter!Roll(usage[i], clock)
  <2>1. PICK i \in DOMAIN usage : usage[i].id = c /\ w = ClientLimiter!Roll(usage[i], clock)
    BY <1>2
  <2> DEFINE v == usage[i]
  <2>2. v \in Entry /\ v.id = c /\ EntrySound(v)
    <3>1. v \in Entry /\ v.id = c
      BY <2>1 DEF LimitInv, Maps
    <3>. QED
      BY <3>1 DEF LimitInv, EntriesSound
  <2>3. /\ v.minuteCount \in Nat /\ v.minuteStart \in Nat
        /\ v.hourCount \in Nat /\ v.hourStart \in Nat
    BY <2>2 DEF Entry
  <2>4. /\ IF clock - v.minuteStart >= Minute
             THEN w.minuteCount = 0 /\ w.minuteStart = clock
             ELSE w.minuteCount = v.minuteCount /\ w.minuteStart = v.minuteStart
        /\ IF clock - v.hourStart >= Hour
             THEN w.hourCount = 0 /\ w.hourStart = clock
             ELSE w.hourCount = v.hourCount /\ w.hourStart = v.hourStart
    <3>1. w = ClientLimiter!Roll(v, clock)
      BY <2>1
    <3>2. v \in Entry /\ clock \in Nat
      BY <1>1, <2>2
    <3>. HIDE DEF v
    <3>. QED
      BY <3>1, <3>2, RolledEntry, Zenon
  <2>. HIDE DEF v
  <2>5. /\ MinuteSound(c, w.minuteStart, w.minuteCount)
        /\ w.minuteStart <= clock /\ clock < w.minuteStart + Minute
    <3>1. CASE clock - v.minuteStart >= Minute
      <4>1. v.minuteStart + Minute <= clock
        BY <1>1, <2>3, <3>1, Parameters
      <4>2. MinuteSound(c, clock, 0)
        BY <1>1, <2>2, <2>3, <4>1, SoundRestart, Parameters DEF EntrySound, MinuteSound
      <4>. QED
        BY <1>1, <2>4, <3>1, <4>2, Parameters
    <3>2. CASE ~ clock - v.minuteStart >= Minute
      BY <1>1, <2>2, <2>3, <2>4, <3>2, Parameters DEF EntrySound
    <3>. QED
      BY <3>1, <3>2
  <2>6. /\ HourSound(c, w.hourStart, w.hourCount)
        /\ w.hourStart <= clock /\ clock < w.hourStart + Hour
    <3>1. CASE clock - v.hourStart >= Hour
      <4>1. v.hourStart + Hour <= clock
        BY <1>1, <2>3, <3>1, Parameters
      <4>2. HourSound(c, clock, 0)
        BY <1>1, <2>2, <2>3, <4>1, SoundRestart, Parameters DEF EntrySound, HourSound
      <4>. QED
        BY <1>1, <2>4, <3>1, <4>2, Parameters
    <3>2. CASE ~ clock - v.hourStart >= Hour
      BY <1>1, <2>2, <2>3, <2>4, <3>2, Parameters DEF EntrySound
    <3>. QED
      BY <3>1, <3>2
  <2>. QED
    BY <2>5, <2>6
<1>3. CASE ~ ClientLimiter!Known(usage, c) /\ w = ClientLimiter!NewWindow(c, clock)
  <2>1. AbsentSound(c)
    BY <1>3 DEF LimitInv, EntriesSound
  <2>2. /\ w.minuteCount = 0 /\ w.minuteStart = clock
        /\ w.hourCount = 0 /\ w.hourStart = clock
    BY <1>1, <1>3, NewEntry
  <2>. QED
    BY <1>1, <2>1, <2>2, Parameters DEF AbsentSound
<1>. QED
  BY <1>2, <1>3 DEF After

\* Who is refused has a window that is full.
LEMMA FullWindow ==
  ASSUME NEW n \in Nat, NEW P \in SUBSET (1 .. n), NEW at, \A i \in P : at[i] \in Nat,
         NEW s \in Nat, NEW k \in Nat, NEW t \in Nat, NEW limit \in Nat, NEW length \in Nat,
         Earned(P, at, s, k), k >= limit, t < s + length, at[n + 1] = t
  PROVE  Full(P, at, n + 1, limit, length)
<1> DEFINE E == {p \in P : at[p] >= s}
           F == {p \in P : p < n + 1 /\ at[n + 1] - at[p] < length}
<1>1. E \subseteq F
  <2>1. ASSUME NEW p \in P, at[p] >= s
        PROVE  p < n + 1 /\ at[n + 1] - at[p] < length
    BY <2>1, NextNumber
  <2>. QED
    BY <2>1
<1>2. F \in SUBSET (1 .. n)
  OBVIOUS
<1>3. /\ IsFiniteSet(F) /\ Cardinality(F) \in Nat
      /\ Cardinality(E) <= Cardinality(F) /\ Cardinality(E) \in Nat
  <2>. HIDE DEF E, F
  <2>1. IsFiniteSet(F) /\ Cardinality(F) \in Nat
    BY <1>2, Numbered
  <2>. QED
    BY <1>1, <2>1, FS_Subset, FS_CardinalityType
<1>4. Cardinality(E) >= k
  BY DEF Earned
<1>5. Cardinality(F) >= limit
  <2>. HIDE DEF E, F
  <2>. QED
    BY <1>3, <1>4
<1>. QED
  BY <1>5 DEF Full

\* What came later has no part in it.
LEMMA StillFull ==
  ASSUME NEW n \in Nat, NEW P \in SUBSET (1 .. n), NEW at, NEW r \in 1 .. n,
         NEW more, \A i \in 1 .. n : more[i] = at[i],
         NEW limit, NEW length, Full(P, at, r, limit, length),
         NEW Q, Q = P \/ Q = P \cup {n + 1}
  PROVE  Full(Q, more, r, limit, length)
<1>1. ~ n + 1 < r /\ more[r] = at[r] /\ \A p \in P : more[p] = at[p]
  BY NextNumber
<1>2. {p \in Q : p < r /\ more[r] - more[p] < length}
        = {p \in P : p < r /\ at[r] - at[p] < length}
  BY <1>1
<1>. QED
  BY <1>2 DEF Full

\* A request of c that the limiter has looked at, and let pass or not.
LEMMA LimitedArrival ==
  ASSUME Types, LimitInv, NEW c \in Client, NEW pc \in {"operating", "answered"},
         NEW passed \in BOOLEAN, passed = ClientLimiter!Check(usage, c, clock).allowed,
         CheckClient(c), Enter(pc, c, passed),
         tenants' \in Seq(TenantEntry), Len(tenants') <= MaxEntries
  PROVE  LimitInv'
<1> DEFINE n == Len(request)
           r == [pc |-> pc, client |-> c, passed |-> passed, at |-> clock]
           k == ClientLimiter!Check(usage, c, clock)
<1>1. clock' = clock /\ request' = Append(request, r)
  BY Parameters DEF Enter
<1>2. /\ usage' = k.usage
      /\ forgotten' = [minute |-> forgotten.minute \cup Dropped(k.usage, MinuteRuns),
                       hour |-> forgotten.hour \cup Dropped(k.usage, HourRuns)]
  BY DEF CheckClient
<1>3. clock \in Nat /\ Maps
  BY DEF Types, LimitInv
<1>4. PICK w \in Entry : After(c, usage, clock, w, k)
  BY <1>3, ClientCheck DEF Maps
<1>5. /\ w.minuteStart <= clock /\ clock < w.minuteStart + Minute
      /\ w.hourStart <= clock /\ clock < w.hourStart + Hour
      /\ MinuteSound(c, w.minuteStart, w.minuteCount)
      /\ HourSound(c, w.hourStart, w.hourCount)
  BY <1>4, RolledIsSound
<1>6. /\ passed <=> ~ ClientLimiter!Exceeded(w)
      /\ usage' \in Seq(Entry) /\ Len(usage') <= MaxEntries /\ Distinct(usage')
      /\ ClientLimiter!Known(usage', c)
      /\ \A i \in DOMAIN usage' :
           IF usage'[i].id = c
             THEN usage'[i] = IF passed THEN ClientLimiter!CountOne(w) ELSE w
             ELSE \E j \in DOMAIN usage : usage'[i] = usage[j]
  BY <1>2, <1>4 DEF After
<1>. HIDE DEF k
<1>7. r \in Request /\ r.client = c /\ r.passed = passed /\ r.at = clock
  BY <1>3 DEF Request
<1>. HIDE DEF r
<1>8. /\ n \in Nat /\ DOMAIN request = 1 .. n /\ DOMAIN request' = 1 .. n + 1
      /\ \A i \in 1 .. n : request'[i] = request[i] /\ request[i].at \in Nat
      /\ request'[n + 1] = r
  <2>1. request \in Seq(Request) /\ n \in Nat
    BY DEF Types
  <2>. QED
    BY <1>1, <1>7, <2>1, PassedNumbers
<1>9. \A d : /\ d = c /\ passed => Passed(d)' = Passed(d) \cup {n + 1}
             /\ ~ (d = c /\ passed) => Passed(d)' = Passed(d)
  BY <1>7, <1>8 DEF Passed
<1>10. \A d : Passed(d) \in SUBSET (1 .. n) /\ \A i \in Passed(d) : Times[i] \in Nat
  BY PassedNumbers
<1>11. /\ \A i \in 1 .. n : Times'[i] = Times[i]
       /\ Times'[n + 1] = clock
  BY <1>7, <1>8 DEF Times
<1>. HIDE DEF n
<1>12. /\ forgotten' \in [minute : SUBSET Client, hour : SUBSET Client]
       /\ forgotten.minute \subseteq forgotten'.minute
       /\ forgotten.hour \subseteq forgotten'.hour
  <2>1. Dropped(k.usage, MinuteRuns) \subseteq Client /\ Dropped(k.usage, HourRuns) \subseteq Client
    BY DEF Dropped
  <2>. QED
    BY <1>2, <1>3, <2>1 DEF Maps
<1>13. Maps'
  BY <1>6, <1>12 DEF Maps, Distinct
<1>14. Past'
  BY <1>1, <1>3, <1>7, <1>8 DEF Past, LimitInv
<1>15. ASSUME NEW d \in Client, ~ (d = c /\ passed), NEW s \in Nat, NEW m \in Nat
       PROVE  /\ MinuteSound(d, s, m) => MinuteSound(d, s, m)'
              /\ HourSound(d, s, m) => HourSound(d, s, m)'
  <2>1. Passed(d)' = Passed(d) /\ \A i \in Passed(d) : Times'[i] = Times[i]
    BY <1>9, <1>10, <1>11, <1>15
  <2>2. /\ d \in forgotten.minute => d \in forgotten'.minute
        /\ d \in forgotten.hour => d \in forgotten'.hour
    BY <1>12
  <2>3. Sound(Passed(d), Times, s, m, PerMinute, Minute, d, forgotten.minute)
          => Sound(Passed(d), Times', s, m, PerMinute, Minute, d, forgotten'.minute)
    BY <2>1, <2>2, SoundSame
  <2>4. Sound(Passed(d), Times, s, m, PerHour, Hour, d, forgotten.hour)
          => Sound(Passed(d), Times', s, m, PerHour, Hour, d, forgotten'.hour)
    BY <2>1, <2>2, SoundSame
  <2>. QED
    BY <2>1, <2>3, <2>4 DEF MinuteSound, HourSound
<1>16. ASSUME passed
       PROVE  /\ MinuteSound(c, w.minuteStart, w.minuteCount + 1)'
              /\ HourSound(c, w.hourStart, w.hourCount + 1)'
              /\ c \notin forgotten'.minute => Twice(Passed(c)', Times', PerMinute, Minute)
              /\ c \notin forgotten'.hour => Twice(Passed(c)', Times', PerHour, Hour)
  <2>1. /\ Passed(c)' = Passed(c) \cup {n + 1} /\ Passed(c) \in SUBSET (1 .. n)
        /\ \A i \in Passed(c) : Times[i] \in Nat /\ Times'[i] = Times[i]
    BY <1>9, <1>10, <1>11, <1>16
  <2>2. /\ w.minuteCount \in Nat /\ w.minuteStart \in Nat
        /\ w.hourCount \in Nat /\ w.hourStart \in Nat
    BY DEF Entry
  <2>3. w.minuteCount < PerMinute /\ w.hourCount < PerHour
    BY <1>6, <1>16, <2>2, Parameters DEF ClientLimiter!Exceeded
  <2> DEFINE P == Passed(c)
             T == Times'
  <2>4. /\ c \notin forgotten.minute => Twice(P, Times, PerMinute, Minute)
        /\ c \notin forgotten.hour => Twice(P, Times, PerHour, Hour)
    BY DEF LimitInv, AllAtMostTwice
  <2>5. /\ c \in forgotten.minute => c \in forgotten'.minute
        /\ c \in forgotten.hour => c \in forgotten'.hour
        /\ Sound(P, Times, w.minuteStart, w.minuteCount, PerMinute, Minute, c, forgotten.minute)
        /\ Sound(P, Times, w.hourStart, w.hourCount, PerHour, Hour, c, forgotten.hour)
    BY <1>5, <1>12 DEF MinuteSound, HourSound
  <2>6. /\ P \in SUBSET (1 .. n) /\ T[n + 1] = clock
        /\ \A i \in P : Times[i] \in Nat /\ T[i] = Times[i]
    BY <1>11, <2>1
  <2>. HIDE DEF P, T
  <2>7. /\ Sound(P \cup {n + 1}, Times', w.minuteStart, w.minuteCount + 1,
                 PerMinute, Minute, c, forgotten'.minute)
        /\ c \notin forgotten'.minute => Twice(P \cup {n + 1}, Times', PerMinute, Minute)
    <3> DEFINE s == w.minuteStart
               m == w.minuteCount
    <3>1. s \in Nat /\ m \in Nat /\ s <= clock /\ clock < s + Minute /\ m < PerMinute
      BY <1>5, <2>2, <2>3
    <3>2. Sound(P, Times, s, m, PerMinute, Minute, c, forgotten.minute)
      BY <2>5
    <3>3. PerMinute \in Nat /\ Minute \in Nat \ {0}
      BY Parameters
    <3>. HIDE DEF s, m
    <3>4. /\ Sound(P \cup {n + 1}, T, s, m + 1, PerMinute, Minute, c, forgotten'.minute)
          /\ c \notin forgotten'.minute => Twice(P \cup {n + 1}, T, PerMinute, Minute)
      BY <1>3, <1>8, <2>4, <2>5, <2>6, <3>1, <3>2, <3>3, SoundCount
    <3>. QED
      BY <3>4 DEF s, m, T
  <2>8. /\ Sound(P \cup {n + 1}, Times', w.hourStart, w.hourCount + 1,
                 PerHour, Hour, c, forgotten'.hour)
        /\ c \notin forgotten'.hour => Twice(P \cup {n + 1}, Times', PerHour, Hour)
    <3> DEFINE s == w.hourStart
               m == w.hourCount
    <3>1. s \in Nat /\ m \in Nat /\ s <= clock /\ clock < s + Hour /\ m < PerHour
      BY <1>5, <2>2, <2>3
    <3>2. Sound(P, Times, s, m, PerHour, Hour, c, forgotten.hour)
      BY <2>5
    <3>3. PerHour \in Nat /\ Hour \in Nat \ {0}
      BY Parameters
    <3>. HIDE DEF s, m
    <3>4. /\ Sound(P \cup {n + 1}, T, s, m + 1, PerHour, Hour, c, forgotten'.hour)
          /\ c \notin forgotten'.hour => Twice(P \cup {n + 1}, T, PerHour, Hour)
      BY <1>3, <1>8, <2>4, <2>5, <2>6, <3>1, <3>2, <3>3, SoundCount
    <3>. QED
      BY <3>4 DEF s, m, T
  <2>. QED
    BY <2>1, <2>7, <2>8 DEF MinuteSound, HourSound, P
<1>17. AllAtMostTwice'
  <2>1. ASSUME NEW d \in Client, ~ (d = c /\ passed)
        PROVE  /\ d \notin forgotten'.minute => Twice(Passed(d)', Times', PerMinute, Minute)
               /\ d \notin forgotten'.hour => Twice(Passed(d)', Times', PerHour, Hour)
    <3>1. Passed(d)' = Passed(d) /\ \A i \in Passed(d) : Times'[i] = Times[i]
      BY <1>9, <1>10, <1>11, <2>1
    <3>2. /\ d \notin forgotten'.minute => Twice(Passed(d), Times, PerMinute, Minute)
          /\ d \notin forgotten'.hour => Twice(Passed(d), Times, PerHour, Hour)
      BY <1>12 DEF LimitInv, AllAtMostTwice
    <3>. QED
      BY <3>1, <3>2, SoundSame
  <2>. QED
    BY <1>16, <2>1 DEF AllAtMostTwice
<1>18. ASSUME NEW v \in Entry, NEW i \in DOMAIN usage', usage'[i] = v
       PROVE  EntrySound(v)'
  <2>1. /\ v.id \in Client /\ v.minuteCount \in Nat /\ v.minuteStart \in Nat
        /\ v.hourCount \in Nat /\ v.hourStart \in Nat
        /\ w.minuteCount \in Nat /\ w.minuteStart \in Nat
        /\ w.hourCount \in Nat /\ w.hourStart \in Nat /\ w.id = c
    BY <1>4 DEF Entry, After
  <2>2. CASE v.id = c /\ passed
    <3>1. v = ClientLimiter!CountOne(w)
      BY <1>6, <1>18, <2>2
    <3>2. /\ v.minuteCount = w.minuteCount + 1 /\ v.minuteStart = w.minuteStart
          /\ v.hourCount = w.hourCount + 1 /\ v.hourStart = w.hourStart
      BY <3>1, CountedEntry
    <3>. QED
      BY <1>1, <1>5, <1>16, <2>2, <3>2 DEF EntrySound
  <2>3. CASE v.id = c /\ ~ passed
    <3>1. v = w
      BY <1>6, <1>18, <2>3
    <3>. QED
      BY <1>1, <1>5, <1>15, <2>1, <2>3, <3>1 DEF EntrySound
  <2>4. CASE v.id # c
    <3>1. \E j \in DOMAIN usage : usage[j] = v
      BY <1>6, <1>18, <2>4
    <3>2. EntrySound(v)
      BY <3>1 DEF LimitInv, EntriesSound
    <3>. QED
      BY <1>1, <1>15, <2>1, <2>4, <3>2 DEF EntrySound
  <2>. QED
    BY <2>2, <2>3, <2>4
<1>19. ASSUME NEW d \in Client, ~ ClientLimiter!Known(usage', d)
       PROVE  AbsentSound(d)'
  <2>1. d # c
    BY <1>6, <1>19
  <2>2. CASE ~ ClientLimiter!Known(usage, d)
    <3>1. AbsentSound(d)
      BY <2>2 DEF LimitInv, EntriesSound
    <3>. QED
      BY <1>1, <1>3, <1>15, <2>1, <3>1 DEF AbsentSound
  <2>3. CASE ClientLimiter!Known(usage, d)
    <3>1. PICK j \in DOMAIN usage : usage[j].id = d
      BY <2>3 DEF ClientLimiter!Known
    <3>2. PICK v \in Entry : v = usage[j]
      BY <1>3 DEF Maps
    <3>3. v.id = d /\ EntrySound(v)
      BY <3>1, <3>2 DEF LimitInv, EntriesSound
    <3>4. /\ v.minuteCount \in Nat /\ v.minuteStart \in Nat
          /\ v.hourCount \in Nat /\ v.hourStart \in Nat
      BY DEF Entry
    <3>5. /\ d \notin forgotten'.minute => v.minuteStart + Minute <= clock
          /\ d \notin forgotten'.hour => v.hourStart + Hour <= clock
      <4>1. \A i \in DOMAIN k.usage : k.usage[i].id # d
        BY <1>2, <1>19 DEF ClientLimiter!Known
      <4>2. /\ d \notin forgotten'.minute => ~ MinuteRuns(v)
            /\ d \notin forgotten'.hour => ~ HourRuns(v)
        BY <1>2, <3>1, <3>2, <4>1 DEF Dropped
      <4>. QED
        BY <1>3, <3>4, <4>2, Parameters
           DEF MinuteRuns, HourRuns, ClientLimiter!Elapsed
    <3>6. Passed(d)' = Passed(d) /\ Passed(d) \in SUBSET (1 .. n)
          /\ \A i \in Passed(d) : Times'[i] = Times[i] /\ Times'[i] \in Nat
      BY <1>9, <1>10, <1>11, <2>1
    <3>7. MinuteSound(d, v.minuteStart, v.minuteCount)'
          /\ HourSound(d, v.hourStart, v.hourCount)'
      BY <1>15, <2>1, <3>3, <3>4 DEF EntrySound
    <3>8. Earned(Passed(d), Times', clock, 0)
      BY <1>8, <3>6, NothingEarned
    <3>9. ASSUME d \notin forgotten'.minute
          PROVE  Fits(Passed(d), Times', clock, 0, PerMinute, Minute)
      <4>1. Fits(Passed(d), Times', v.minuteStart, v.minuteCount, PerMinute, Minute)
        BY <3>6, <3>7, <3>9 DEF MinuteSound, Sound
      <4>. QED
        BY <1>3, <1>8, <3>4, <3>5, <3>6, <3>9, <4>1, Restarted, Parameters
    <3>10. ASSUME d \notin forgotten'.hour
           PROVE  Fits(Passed(d), Times', clock, 0, PerHour, Hour)
      <4>1. Fits(Passed(d), Times', v.hourStart, v.hourCount, PerHour, Hour)
        BY <3>6, <3>7, <3>10 DEF HourSound, Sound
      <4>. QED
        BY <1>3, <1>8, <3>4, <3>5, <3>6, <3>10, <4>1, Restarted, Parameters
    <3>. QED
      BY <1>1, <3>6, <3>8, <3>9, <3>10 DEF AbsentSound, MinuteSound, HourSound, Sound
  <2>. QED
    BY <2>2, <2>3
<1>20. EntriesSound'
  BY <1>18, <1>19 DEF EntriesSound
<1>21. RefusalsEarned'
  <2> SUFFICES ASSUME NEW q \in 1 .. n + 1, NEW d \in Client, Refused(d, q)'
               PROVE  \/ Full(Passed(d)', Times', q, PerMinute, Minute)
                      \/ Full(Passed(d)', Times', q, PerHour, Hour)
    BY <1>8 DEF RefusalsEarned
  <2>1. CASE q = n + 1
    <3>1. d = c /\ ~ passed
      BY <1>7, <1>8, <2>1 DEF Refused
    <3>2. /\ Passed(c)' = Passed(c) /\ Passed(c) \in SUBSET (1 .. n)
          /\ \A i \in Passed(c) : Times'[i] = Times[i] /\ Times[i] \in Nat
      BY <1>9, <1>10, <1>11, <3>1
    <3>3. /\ w.minuteCount \in Nat /\ w.minuteStart \in Nat
          /\ w.hourCount \in Nat /\ w.hourStart \in Nat
      BY DEF Entry
    <3>4. w.minuteCount >= PerMinute \/ w.hourCount >= PerHour
      BY <1>6, <3>1 DEF ClientLimiter!Exceeded
    <3>5. /\ Earned(Passed(c), Times', w.minuteStart, w.minuteCount)
          /\ Earned(Passed(c), Times', w.hourStart, w.hourCount)
      <4>1. /\ Sound(Passed(c), Times', w.minuteStart, w.minuteCount,
                     PerMinute, Minute, c, forgotten.minute)
            /\ Sound(Passed(c), Times', w.hourStart, w.hourCount,
                     PerHour, Hour, c, forgotten.hour)
        BY <1>5, <3>2, SoundSame DEF MinuteSound, HourSound
      <4>. QED
        BY <4>1 DEF Sound
    <3>6. \A i \in Passed(c) : Times'[i] \in Nat
      BY <3>2
    <3>7. w.minuteCount >= PerMinute => Full(Passed(c), Times', n + 1, PerMinute, Minute)
      BY <1>3, <1>5, <1>8, <1>11, <3>2, <3>3, <3>5, <3>6, FullWindow, Parameters
    <3>8. w.hourCount >= PerHour => Full(Passed(c), Times', n + 1, PerHour, Hour)
      BY <1>3, <1>5, <1>8, <1>11, <3>2, <3>3, <3>5, <3>6, FullWindow, Parameters
    <3>. QED
      BY <2>1, <3>1, <3>2, <3>4, <3>7, <3>8
  <2>2. CASE q \in 1 .. n
    <3>1. Refused(d, q)
      BY <1>8, <2>2 DEF Refused
    <3>2. \/ Full(Passed(d), Times, q, PerMinute, Minute)
          \/ Full(Passed(d), Times, q, PerHour, Hour)
      BY <1>8, <2>2, <3>1 DEF LimitInv, RefusalsEarned
    <3>. QED
      BY <1>8, <1>9, <1>10, <1>11, <2>2, <3>2, StillFull
  <2>. QED
    BY <1>8, <2>1, <2>2
<1>. QED
  BY <1>13, <1>14, <1>17, <1>20, <1>21 DEF LimitInv

-----------------------------------------------------------------------------
(* The steps that count nothing *)

\* The requests are those of before for the limiters, or one more of nobody.
SameForLimiters ==
  /\ \A r \in DOMAIN request :
       /\ r \in DOMAIN request'
       /\ request'[r].client = request[r].client
       /\ request'[r].passed = request[r].passed
       /\ request'[r].at = request[r].at
  /\ \A r \in DOMAIN request' \ DOMAIN request :
       request'[r].client = "nobody" /\ ~ request'[r].passed /\ request'[r].at = 0

\* Time may pass.
LEMMA QuietStep ==
  ASSUME Types, LimitInv, clock' \in Nat, clock <= clock', SameForLimiters,
         UNCHANGED limitVars
  PROVE  LimitInv'
<1>1. clock \in Nat /\ UNCHANGED <<usage, tenants, forgotten>>
  BY DEF Types, limitVars
<1>2. /\ Len(request) \in Nat /\ DOMAIN request = 1 .. Len(request)
      /\ \A d : /\ Passed(d) \in SUBSET (1 .. Len(request))
                /\ \A i \in Passed(d) : Times[i] \in Nat
      /\ \A r \in DOMAIN request : request[r].at \in Nat
  BY PassedNumbers
<1>3. \A d : Passed(d)' = Passed(d)
  BY DEF SameForLimiters, Passed
<1>4. \A r \in DOMAIN request : Times'[r] = Times[r]
  BY DEF SameForLimiters, Times
<1>5. Maps'
  BY <1>1 DEF LimitInv, Maps, Distinct
<1>6. Past'
  <2>1. \A r \in DOMAIN request : request'[r].at <= clock'
    BY <1>1, <1>2 DEF SameForLimiters, LimitInv, Past
  <2>2. \A r \in DOMAIN request' : r \notin DOMAIN request => request'[r].at = 0
    BY DEF SameForLimiters
  <2>. QED
    BY <2>1, <2>2 DEF Past
<1>7. ASSUME NEW d, NEW s, NEW m
      PROVE  /\ MinuteSound(d, s, m) => MinuteSound(d, s, m)'
             /\ HourSound(d, s, m) => HourSound(d, s, m)'
             /\ Twice(Passed(d), Times, PerMinute, Minute)
                  => Twice(Passed(d), Times, PerMinute, Minute)'
             /\ Twice(Passed(d), Times, PerHour, Hour)
                  => Twice(Passed(d), Times, PerHour, Hour)'
  <2>1. \A i \in Passed(d) : Times'[i] = Times[i]
    BY <1>2, <1>4
  <2>2. Sound(Passed(d), Times, s, m, PerMinute, Minute, d, forgotten.minute)
          => Sound(Passed(d), Times', s, m, PerMinute, Minute, d, forgotten.minute)
    BY <2>1, SoundSame
  <2>3. Sound(Passed(d), Times, s, m, PerHour, Hour, d, forgotten.hour)
          => Sound(Passed(d), Times', s, m, PerHour, Hour, d, forgotten.hour)
    BY <2>1, SoundSame
  <2>4. /\ Twice(Passed(d), Times, PerMinute, Minute)
             => Twice(Passed(d), Times', PerMinute, Minute)
        /\ Twice(Passed(d), Times, PerHour, Hour)
             => Twice(Passed(d), Times', PerHour, Hour)
    BY <2>1, SoundSame
  <2>. QED
    BY <1>1, <1>3, <2>2, <2>3, <2>4 DEF MinuteSound, HourSound
<1>8. ASSUME NEW w \in Entry, NEW i \in DOMAIN usage', usage'[i] = w
      PROVE  EntrySound(w)'
  <2>1. EntrySound(w)
    BY <1>1, <1>8 DEF LimitInv, EntriesSound
  <2>2. w.minuteStart \in Nat /\ w.hourStart \in Nat
    BY DEF Entry
  <2>. QED
    BY <1>1, <1>7, <2>1, <2>2 DEF EntrySound
<1>9. ASSUME NEW d \in Client, ~ ClientLimiter!Known(usage', d)
      PROVE  AbsentSound(d)'
  <2>1. AbsentSound(d)
    BY <1>1, <1>9 DEF LimitInv, EntriesSound
  <2>2. \E t \in Nat : t = clock'
    OBVIOUS
  <2>3. PICK t \in Nat : t = clock'
    BY <2>2
  <2>4. /\ Sound(Passed(d), Times, clock, 0, PerMinute, Minute, d, forgotten.minute)
        /\ Sound(Passed(d), Times, clock, 0, PerHour, Hour, d, forgotten.hour)
    BY <2>1 DEF AbsentSound, MinuteSound, HourSound
  <2>5. /\ Sound(Passed(d), Times, t, 0, PerMinute, Minute, d, forgotten.minute)
        /\ Sound(Passed(d), Times, t, 0, PerHour, Hour, d, forgotten.hour)
    BY <1>1, <1>2, <2>3, <2>4, SoundLater, Parameters
  <2>6. MinuteSound(d, t, 0)' /\ HourSound(d, t, 0)'
    BY <1>7, <2>5 DEF MinuteSound, HourSound
  <2>. QED
    BY <2>3, <2>6 DEF AbsentSound, MinuteSound, HourSound
<1>10. EntriesSound'
  BY <1>8, <1>9 DEF EntriesSound
<1>11. AllAtMostTwice'
  BY <1>1, <1>7 DEF LimitInv, AllAtMostTwice
<1>12. RefusalsEarned'
  <2> SUFFICES ASSUME NEW q \in DOMAIN request', NEW d \in Client, Refused(d, q)'
               PROVE  \/ Full(Passed(d)', Times', q, PerMinute, Minute)
                      \/ Full(Passed(d)', Times', q, PerHour, Hour)
    BY DEF RefusalsEarned
  <2>1. q \in DOMAIN request /\ Refused(d, q)
    BY Parameters DEF SameForLimiters, Refused
  <2>2. \/ Full(Passed(d), Times, q, PerMinute, Minute)
        \/ Full(Passed(d), Times, q, PerHour, Hour)
    BY <2>1 DEF LimitInv, RefusalsEarned
  <2>. QED
    BY <1>2, <1>3, <1>4, <2>1, <2>2, StillFull
<1>. QED
  BY <1>5, <1>6, <1>10, <1>11, <1>12 DEF LimitInv

\* A request that nobody is charged for, and one that is answered or finished.
LEMMA NobodyIsSame ==
  ASSUME Types, Enter("answered", "nobody", FALSE)
  PROVE  SameForLimiters /\ clock' = clock
<1> DEFINE r == [pc |-> "answered", client |-> "nobody", passed |-> FALSE, at |-> 0]
<1>1. request' = Append(request, r) /\ clock' = clock
  BY DEF Enter
<1>2. r \in Request
  BY DEF Request
<1>3. r.client = "nobody" /\ r.passed = FALSE /\ r.at = 0
  OBVIOUS
<1>. HIDE DEF r
<1>4. /\ DOMAIN request = 1 .. Len(request) /\ Len(request) \in Nat
      /\ DOMAIN request' = 1 .. Len(request) + 1 /\ request'[Len(request) + 1] = r
      /\ \A i \in 1 .. Len(request) : request'[i] = request[i]
  BY <1>1, <1>2 DEF Types
<1>. QED
  BY <1>1, <1>3, <1>4 DEF SameForLimiters

LEMMA ChangeIsSame ==
  ASSUME Types, NEW r \in DOMAIN request, NEW pc \in {"answered", "finished"},
         request' = [request EXCEPT ![r].pc = pc]
  PROVE  SameForLimiters
<1>1. /\ request[r] \in Request /\ request \in [1 .. Len(request) -> Request]
      /\ DOMAIN request = 1 .. Len(request)
  BY DEF Types
<1> DEFINE s == [request[r] EXCEPT !.pc = pc]
<1>2. s.client = request[r].client /\ s.passed = request[r].passed /\ s.at = request[r].at
  BY <1>1 DEF Request
<1>3. request' = [request EXCEPT ![r] = s]
  OBVIOUS
<1>. HIDE DEF s
<1>. QED
  BY <1>1, <1>2, <1>3 DEF SameForLimiters

\* The strengthening of the limiters' safety properties is inductive.
THEOREM LimitInvariance == Spec => []LimitInv
<1>1. Init => LimitInv
  <2> SUFFICES ASSUME Init PROVE LimitInv
    OBVIOUS
  <2>1. /\ clock = 0 /\ request = <<>> /\ usage = <<>> /\ tenants = <<>>
        /\ forgotten = [minute |-> {}, hour |-> {}]
    BY DEF Init
  <2>2. Maps /\ Past
    BY <2>1, Parameters DEF Maps, Past, Distinct
  <2>3. \A c : Passed(c) = {}
    BY <2>1 DEF Passed
  <2>4. \A c : MinuteSound(c, clock, 0) /\ HourSound(c, clock, 0)
    <3>1. \A at, s : Earned({}, at, s, 0)
      BY FS_EmptySet DEF Earned
    <3>. QED
      BY <2>3, <3>1, Parameters DEF MinuteSound, HourSound, Sound, Fits
  <2>5. EntriesSound
    BY <2>1, <2>4 DEF EntriesSound, AbsentSound
  <2>6. AllAtMostTwice /\ RefusalsEarned
    BY <2>1, <2>3 DEF AllAtMostTwice, Twice, RefusalsEarned
  <2>. QED
    BY <2>2, <2>5, <2>6 DEF LimitInv
<1>2. Types /\ Types' /\ LimitInv /\ [Next]_serverVars => LimitInv'
  <2> SUFFICES ASSUME Types, Types', LimitInv, [Next]_serverVars PROVE LimitInv'
    OBVIOUS
  <2>0. clock \in Nat /\ clock' \in Nat
    BY DEF Types
  <2>1. CASE Options \/ Draining
    <3>1. Enter("answered", "nobody", FALSE) /\ UNCHANGED limitVars
      BY <2>1 DEF Options, Draining
    <3>2. SameForLimiters /\ clock' = clock
      BY <3>1, NobodyIsSame
    <3>. QED
      BY <2>0, <3>1, <3>2, QuietStep
  <2>2. ASSUME NEW r \in DOMAIN request, Answer(r) \/ Finish(r) PROVE LimitInv'
    <3>1. \E pc \in {"answered", "finished"} : request' = [request EXCEPT ![r].pc = pc]
      BY <2>2 DEF Answer, Finish
    <3>2. SameForLimiters
      BY <3>1, ChangeIsSame
    <3>. QED
      BY <2>0, <2>2, <3>2, QuietStep DEF Answer, Finish
  <2>3. CASE Tick
    BY <2>0, <2>3, QuietStep DEF Tick, SameForLimiters, requestVars
  <2>4. ASSUME NEW c \in Calls, Shutdown(c) \/ ShutdownStep(c) PROVE LimitInv'
    <3>1. UNCHANGED <<clock, requestVars, limitVars>>
      BY <2>4 DEF Shutdown, ShutdownStep, Drained, StartHandler, EndHandler, Stop
    <3>. QED
      BY <2>0, <3>1, QuietStep DEF SameForLimiters, requestVars
  <2>5. CASE UNCHANGED serverVars
    BY <2>0, <2>5, QuietStep DEF SameForLimiters, serverVars, requestVars
  <2>6. ASSUME NEW c \in Client, NEW health \in BOOLEAN,
               \/ Operation(c) \/ ClientRefused(c, health) \/ BadTenant(c, health)
               \/ TenantRefused(c, health) \/ AnsweredAtOnce(c, health)
        PROVE  LimitInv'
    <3> DEFINE allowed == ClientLimiter!Check(usage, c, clock).allowed
    <3>1. CheckClient(c)
      BY <2>6 DEF Operation, ClientRefused, BadTenant, TenantRefused, AnsweredAtOnce, CheckBoth
    <3>2. \E pc \in {"operating", "answered"}, passed \in BOOLEAN :
            passed = allowed /\ Enter(pc, c, passed)
      <4>1. allowed \in BOOLEAN
        BY DEF ClientLimiter!Check, ClientLimiter!Exceeded
      <4>2. CASE ClientRefused(c, health)
        BY <4>1, <4>2 DEF ClientRefused
      <4>3. CASE BadTenant(c, health)
        BY <4>3 DEF BadTenant
      <4>4. CASE TenantRefused(c, health) \/ AnsweredAtOnce(c, health)
        BY <4>4 DEF TenantRefused, AnsweredAtOnce, CheckBoth
      <4>5. CASE Operation(c)
        BY <4>5 DEF Operation, CheckBoth
      <4>. QED
        BY <2>6, <4>2, <4>3, <4>4, <4>5
    <3>3. \/ UNCHANGED tenants
          \/ tenants' = TenantLimiter!Check(tenants, Tenant, clock).usage
      BY <2>6 DEF Operation, ClientRefused, BadTenant, TenantRefused, AnsweredAtOnce, CheckBoth
    <3>4. tenants' \in Seq(TenantEntry) /\ Len(tenants') <= MaxEntries
      BY <2>0, <3>3, TenantCheck DEF LimitInv, Maps
    <3>. QED
      BY <3>1, <3>2, <3>4, LimitedArrival
  <2>. QED
    BY <2>1, <2>2, <2>3, <2>4, <2>5, <2>6 DEF Next, Requests
<1>3. IInv => Types
  BY DEF IInv
<1>. QED
  BY <1>1, <1>2, <1>3, Invariance, PTL DEF Spec

\* Each limiter keeps at most its maximum of entries, whoever comes.
THEOREM MapsStaySmall == Spec => []WindowsBounded
<1>1. LimitInv => WindowsBounded
  BY DEF LimitInv, Maps, WindowsBounded
<1>. QED
  BY <1>1, LimitInvariance, PTL

\* No client passes more than twice its limit within a window's length, unless
\* a window of his was dropped while it was running.
THEOREM RateIsBounded == Spec => []RateBound
<1>1. Types /\ LimitInv => RateBound
  BY TwiceIsAtMostTwice DEF LimitInv, AllAtMostTwice, RateBound
<1>2. IInv => Types
  BY DEF IInv
<1>. QED
  BY <1>1, <1>2, Invariance, LimitInvariance, PTL

\* Who is refused has used up a limit within its window.
THEOREM NoEarlyRefusal == Spec => []RefusalsAreEarned
<1>1. Types /\ LimitInv => RefusalsAreEarned
  <2> SUFFICES ASSUME Types, LimitInv, NEW r \in DOMAIN request, NEW c,
                      request[r].client = c, c # "nobody", ~ request[r].passed
               PROVE  LET recent(length) == {p \in Passed(c) :
                                p < r /\ request[r].at - request[p].at < length}
                      IN  \/ Cardinality(recent(Minute)) >= PerMinute
                          \/ Cardinality(recent(Hour)) >= PerHour
    BY DEF RefusalsAreEarned
  <2>1. c \in Client
    BY PassedNumbers DEF Request
  <2>2. \/ Full(Passed(c), Times, r, PerMinute, Minute)
        \/ Full(Passed(c), Times, r, PerHour, Hour)
    BY <2>1 DEF LimitInv, RefusalsEarned, Refused
  <2>3. Times[r] = request[r].at /\ \A p \in Passed(c) : Times[p] = request[p].at
    BY PassedNumbers DEF Times
  <2>4. \A length : {p \in Passed(c) : p < r /\ Times[r] - Times[p] < length}
                     = {p \in Passed(c) : p < r /\ request[r].at - request[p].at < length}
    BY <2>3
  <2>. QED
    BY <2>2, <2>4 DEF Full
<1>2. IInv => Types
  BY DEF IInv
<1>. QED
  BY <1>1, <1>2, Invariance, LimitInvariance, PTL

-----------------------------------------------------------------------------
(* Types *)

\* The bounds of the model: on the time and on the requests that arrive.
Bounds == clock <= MaxTime /\ Len(request) <= MaxRequests

LEMMA OneMore ==
  ASSUME Types, Bounds, MayArrive, NEW pc \in {"operating", "answered"},
         NEW c \in Client \cup {"nobody"}, NEW passed \in BOOLEAN, Enter(pc, c, passed)
  PROVE  Bounds'
<1>1. request \in Seq(Request) /\ Len(request) < MaxRequests
  BY DEF Types, MayArrive
<1>2. Len(request') = Len(request) + 1
  BY <1>1 DEF Enter
<1>. QED
  BY <1>1, <1>2, ServerAssumption DEF Bounds, Enter

LEMMA NextBounds ==
  ASSUME Types, Bounds, [Next]_serverVars
  PROVE  Bounds'
<1>1. CASE Options \/ Draining
  BY <1>1, OneMore DEF Options, Draining
<1>2. ASSUME NEW c \in Client, NEW health \in BOOLEAN,
             \/ Operation(c) \/ ClientRefused(c, health) \/ BadTenant(c, health)
             \/ TenantRefused(c, health) \/ AnsweredAtOnce(c, health)
      PROVE  Bounds'
  <2>1. \E pc \in {"operating", "answered"}, passed \in BOOLEAN :
          MayArrive /\ Enter(pc, c, passed)
    BY <1>2 DEF Operation, ClientRefused, BadTenant, TenantRefused, AnsweredAtOnce
  <2>. QED
    BY <2>1, OneMore
<1>3. ASSUME NEW r \in DOMAIN request, Answer(r) \/ Finish(r) PROVE Bounds'
  <2>1. \E pc \in {"answered", "finished"} : request' = [request EXCEPT ![r].pc = pc]
    BY <1>3 DEF Answer, Finish
  <2>2. request' \in Seq(Request) /\ DOMAIN request' = DOMAIN request
    BY <2>1, RequestChange
  <2>3. Len(request') = Len(request)
    BY <2>2 DEF Types
  <2>. QED
    BY <1>3, <2>3 DEF Bounds, Answer, Finish
<1>4. CASE Tick
  BY <1>4, ServerAssumption DEF Types, Bounds, Tick, requestVars
<1>5. ASSUME NEW c \in Calls, Shutdown(c) \/ ShutdownStep(c) PROVE Bounds'
  <2>1. UNCHANGED <<clock, request>>
    BY <1>5 DEF Shutdown, ShutdownStep, Drained, StartHandler, EndHandler, Stop, requestVars
  <2>. QED
    BY <2>1 DEF Bounds
<1>6. CASE UNCHANGED serverVars
  BY <1>6 DEF Bounds, serverVars, requestVars
<1>. QED
  BY <1>1, <1>2, <1>3, <1>4, <1>5, <1>6 DEF Next, Requests

\* The variables of the server keep their types: the windows of both limiters
\* are windows, the counter of the requests in progress is a number.
THEOREM TypeCorrect == Spec => []TypeOK
<1>1. Init => Bounds
  BY ServerAssumption DEF Init, Bounds
<1>2. Types /\ Bounds /\ [Next]_serverVars => Bounds'
  BY NextBounds
<1>3. IInv => Types
  BY DEF IInv
<1>4. Types /\ Bounds /\ LimitInv => TypeOK
  <2> SUFFICES ASSUME Types, Bounds, Maps PROVE TypeOK
    BY DEF LimitInv
  <2>1. Entry \subseteq ClientLimiter!Window
    BY DEF Entry, ClientLimiter!Window
  <2>2. TenantEntry \subseteq TenantLimiter!Window
    BY DEF TenantEntry, TenantLimiter!Window
  <2>3. usage \in Seq(ClientLimiter!Window)
    BY <2>1 DEF Maps
  <2>4. tenants \in Seq(TenantLimiter!Window)
    BY <2>2 DEF Maps
  <2>5. clock \in 0 .. MaxTime
    BY ServerAssumption DEF Types, Bounds
  <2>. QED
    BY <2>3, <2>4, <2>5 DEF TypeOK, Types, Bounds, Maps
<1>. QED
  BY <1>1, <1>2, <1>3, <1>4, Invariance, LimitInvariance, PTL DEF Spec
=============================================================================
