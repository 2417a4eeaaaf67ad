----------------------------- MODULE HttpServer -----------------------------
(***************************************************************************)
(* GToMServer of src/server.ts: handleRequest with its two rate limiters,  *)
(* the count of active requests, and the graceful shutdown.                *)
(*                                                                         *)
(* handleRequest runs to its first await in one go; an operation then goes *)
(* on by itself, and the end of its answer is an event of the socket.      *)
(* Requests are numbered in the order of their arrival.                    *)
(***************************************************************************)
EXTENDS Integers, Sequences, FiniteSets

CONSTANTS MaxRequests,   \* bound on the requests that arrive
          Client,        \* what clientIdentity returns
          MaxCalls,      \* bound on the calls of shutdown: signals, or the embedder
          Handlers,      \* how many shutdown handlers were added
          DrainTime,     \* shutdownDrainTimeoutMs
          PerMinute, PerHour,  \* limits of rateLimiter
          TenantPerMinute, TenantPerHour,  \* of tenantRateLimiter
          Minute, Hour, MaxEntries,
          MaxTime,       \* bound on the clock
          LastSignal     \* bound on the time of a call of shutdown

ASSUME ServerAssumption ==
  /\ MaxRequests \in Nat /\ MaxCalls \in Nat /\ Handlers \in Nat /\ DrainTime \in Nat
  /\ MaxTime \in Nat /\ LastSignal \in Nat
  /\ {PerMinute, PerHour, TenantPerMinute, TenantPerHour, MaxEntries, Minute} \subseteq Nat \ {0}
  /\ Hour \in Nat /\ Minute <= Hour
  /\ "nobody" \notin Client

\* The calls of shutdown are numbered in the order in which they are made.
Calls == 1 .. MaxCalls

ClientLimiter == INSTANCE RateLimiter WITH Identity <- Client

\* One tenant: requests that do not name theirs are the tenant "default".
Tenant == "default"

TenantLimiter == INSTANCE RateLimiter
  WITH Identity <- {Tenant}, PerMinute <- TenantPerMinute, PerHour <- TenantPerHour

VARIABLES clock,
          request,   \* the requests that have arrived, in order
          active,    \* activeRequests
          usage,     \* the windows of rateLimiter
          tenants,   \* the windows of tenantRateLimiter
          forgotten, \* history: the clients whose running window was dropped
          draining,  \* draining, and shuttingDown, which is set with it
          open,      \* whether the server listens
          call,      \* how far each call of shutdown is
          ran        \* history: the shutdown handlers that were started

requestVars == <<request, active>>
limitVars == <<usage, tenants, forgotten>>
shutdownVars == <<draining, open, call, ran>>
serverVars == <<clock, requestVars, limitVars, shutdownVars>>

Request == [pc : {"operating", "answered", "finished"},
            client : Client \cup {"nobody"},  \* who passed or was refused by rateLimiter
            passed : BOOLEAN,   \* by rateLimiter
            at : Nat]           \* when rateLimiter saw it

Call == [pc : {"none", "draining", "closing", "handling", "returned"},
         deadline : Nat, next : Nat]

TypeOK ==
  /\ clock \in 0 .. MaxTime
  /\ request \in Seq(Request) /\ Len(request) <= MaxRequests
  /\ active \in Nat
  /\ usage \in Seq(ClientLimiter!Window) /\ tenants \in Seq(TenantLimiter!Window)
  /\ forgotten \in [minute : SUBSET Client, hour : SUBSET Client]
  /\ draining \in BOOLEAN /\ open \in BOOLEAN
  /\ call \in [Calls -> Call]
  /\ ran \in Seq(Nat)

Init ==
  /\ clock = 0 /\ request = <<>> /\ active = 0
  /\ usage = <<>> /\ tenants = <<>>
  /\ forgotten = [minute |-> {}, hour |-> {}]
  /\ draining = FALSE /\ open = TRUE /\ ran = <<>>
  /\ call = [c \in Calls |-> [pc |-> "none", deadline |-> 0, next |-> 1]]

-----------------------------------------------------------------------------
(* handleRequest *)

\* A request enters with the state pc; passed if a client's window counted it.
Enter(pc, client, passed) ==
  /\ request' = Append(request, [pc |-> pc, client |-> client, passed |-> passed,
                                 at |-> IF client = "nobody" THEN 0 ELSE clock])
  /\ active' = active + 1
  /\ UNCHANGED <<clock, shutdownVars>>

MayArrive == open /\ Len(request) < MaxRequests

\* OPTIONS is answered before anything is looked at.
Options ==
  /\ MayArrive
  /\ Enter("answered", "nobody", FALSE)
  /\ UNCHANGED limitVars

\* 503 while the server drains, except for the health routes
Draining ==
  /\ MayArrive /\ draining
  /\ Enter("answered", "nobody", FALSE)
  /\ UNCHANGED limitVars

\* The clients whose window is no longer in u, although it has not run out.
Dropped(u, Running(_)) ==
  {c \in Client : /\ \E i \in DOMAIN usage : usage[i].id = c /\ Running(usage[i])
                  /\ \A i \in DOMAIN u : u[i].id # c}

MinuteRuns(w) == ~ ClientLimiter!Elapsed(w.minuteStart, Minute, clock)

HourRuns(w) == ~ ClientLimiter!Elapsed(w.hourStart, Hour, clock)

CheckClient(c) ==
  LET u == ClientLimiter!Check(usage, c, clock).usage
  IN  /\ usage' = u
      /\ forgotten' = [minute |-> forgotten.minute \cup Dropped(u, MinuteRuns),
                       hour |-> forgotten.hour \cup Dropped(u, HourRuns)]

Admits(health) == health \/ ~ draining

\* 429 from the limiter of the client, which is asked first
ClientRefused(c, health) ==
  /\ MayArrive /\ Admits(health)
  /\ ~ ClientLimiter!Check(usage, c, clock).allowed
  /\ CheckClient(c)
  /\ Enter("answered", c, FALSE)
  /\ UNCHANGED tenants

\* tenantIdentity throws at the name of the tenant: the catch answers 500.
BadTenant(c, health) ==
  /\ MayArrive /\ Admits(health)
  /\ ClientLimiter!Check(usage, c, clock).allowed
  /\ CheckClient(c)
  /\ Enter("answered", c, TRUE)
  /\ UNCHANGED tenants

\* The client's limiter lets it pass and counts it; then that of the tenant.
CheckBoth(c) ==
  /\ ClientLimiter!Check(usage, c, clock).allowed
  /\ CheckClient(c)
  /\ tenants' = TenantLimiter!Check(tenants, Tenant, clock).usage

TenantRefused(c, health) ==
  /\ MayArrive /\ Admits(health)
  /\ CheckBoth(c)
  /\ ~ TenantLimiter!Check(tenants, Tenant, clock).allowed
  /\ Enter("answered", c, TRUE)

\* A health check, metrics, an unknown route, or a denial by authorizeRequest:
\* answered without an await.
AnsweredAtOnce(c, health) ==
  /\ MayArrive /\ Admits(health)
  /\ CheckBoth(c)
  /\ TenantLimiter!Check(tenants, Tenant, clock).allowed
  /\ Enter("answered", c, TRUE)

\* An authorized operation: the body is read, GToM is awaited.
Operation(c) ==
  /\ MayArrive /\ Admits(FALSE)
  /\ CheckBoth(c)
  /\ TenantLimiter!Check(tenants, Tenant, clock).allowed
  /\ Enter("operating", c, TRUE)

\* It ends with an answer, of the handler or of the catch.  A stream that fails
\* after its headers were sent has none to give, and is one that never finishes.
Answer(r) ==
  /\ request[r].pc = "operating"
  /\ request' = [request EXCEPT ![r].pc = "answered"]
  /\ UNCHANGED <<clock, active, limitVars, shutdownVars>>

\* Faulty variant: 'close' is listened to as well, and comes after 'finish'.
FinishedAndClosed == IF active > 1 THEN active - 2 ELSE 0

Finished == IF active > 0 THEN active - 1 ELSE 0

\* The event 'finish': the answer is with the operating system.  If the client
\* has hung up it never comes, which is why no fairness promises it.
Finish(r) ==
  /\ request[r].pc = "answered"
  /\ request' = [request EXCEPT ![r].pc = "finished"]
  /\ active' = Finished
  /\ UNCHANGED <<clock, limitVars, shutdownVars>>

-----------------------------------------------------------------------------
(* shutdown *)

Becomes(c, pc) == call' = [call EXCEPT ![c].pc = pc]

\* Faulty variant: shuttingDown is not looked at.
AlwaysFirst == TRUE

FirstCall == ~ draining

Shutdown(c) ==
  /\ call[c].pc = "none" /\ clock <= LastSignal
  /\ c > 1 => call[c - 1].pc # "none"
  /\ IF FirstCall
       THEN /\ draining' = TRUE
            /\ call' = [call EXCEPT ![c] = [pc |-> "draining", next |-> 1,
                                           deadline |-> clock + DrainTime]]
       ELSE Becomes(c, "returned") /\ UNCHANGED draining
  /\ UNCHANGED <<clock, requestVars, limitVars, open, ran>>

\* Faulty variant: there is no deadline.
NoneActive(c) == active = 0

DrainOver(c) == active = 0 \/ clock >= call[c].deadline

\* The loop looks every 100 ms.
Drained(c) ==
  /\ call[c].pc = "draining" /\ DrainOver(c)
  /\ Becomes(c, "closing")
  /\ UNCHANGED <<clock, requestVars, limitVars, draining, open, ran>>

StartHandler(c) ==
  /\ call[c].pc = "closing" /\ call[c].next <= Handlers
  /\ ran' = Append(ran, call[c].next)
  /\ Becomes(c, "handling")
  /\ UNCHANGED <<clock, requestVars, limitVars, draining, open>>

\* It returns or throws, which is logged.
EndHandler(c) ==
  /\ call[c].pc = "handling"
  /\ call' = [call EXCEPT ![c] = [pc |-> "closing", deadline |-> @.deadline,
                                  next |-> @.next + 1]]
  /\ UNCHANGED <<clock, requestVars, limitVars, draining, open, ran>>

\* stop
Stop(c) ==
  /\ call[c].pc = "closing" /\ call[c].next > Handlers
  /\ open' = FALSE
  /\ Becomes(c, "returned")
  /\ UNCHANGED <<clock, requestVars, limitVars, draining, ran>>

-----------------------------------------------------------------------------

Tick == /\ clock < MaxTime
        /\ clock' = clock + 1
        /\ UNCHANGED <<requestVars, limitVars, shutdownVars>>

ShutdownStep(c) == Drained(c) \/ StartHandler(c) \/ EndHandler(c) \/ Stop(c)

Requests ==
  \/ Options \/ Draining
  \/ \E c \in Client : \/ Operation(c)
                       \/ \E health \in BOOLEAN :
                            \/ ClientRefused(c, health) \/ BadTenant(c, health)
                            \/ TenantRefused(c, health) \/ AnsweredAtOnce(c, health)
  \/ \E r \in DOMAIN request : Answer(r) \/ Finish(r)

Next == Requests \/ Tick \/ \E c \in Calls : Shutdown(c) \/ ShutdownStep(c)

Spec == Init /\ [][Next]_serverVars

\* Time passes, timers fire, and the shutdown handlers return.  Neither the end
\* of an operation nor that of an answer is promised.
FairSpec == Spec /\ WF_serverVars(Tick) /\ \A c \in Calls : WF_serverVars(ShutdownStep(c))

-----------------------------------------------------------------------------
(* Properties *)

\* Nothing is closed under an operation whose client waits for it: shutdown
\* handlers run when no operation is in progress, or after the deadline.
HandlersAfterOperations ==
  \A c \in Calls :
    /\ call[c].pc \in {"closing", "handling"}
    /\ clock < call[c].deadline
    => \A r \in DOMAIN request : request[r].pc # "operating"

\* Whatever signals come, every handler is run once, one after the other, and
\* all of them before the server is closed.
HandlersRunOnce ==
  /\ \A i \in DOMAIN ran : ran[i] = i
  /\ ~ open => Len(ran) = Handlers

\* A shutdown comes to its end, also when a client never takes its answer.
ShutdownEnds ==
  \A c \in Calls : (call[c].pc = "draining") ~> (call[c].pc = "returned")

\* The requests of c that its limiter let pass, by their numbers.
Passed(c) == {r \in DOMAIN request : request[r].client = c /\ request[r].passed}

\* More than twice the limit of c never passes within a window's length: what
\* lies between two requests touches at most two windows of the limiter.
AtMostTwice(c, limit, length) ==
  \A i, j \in Passed(c) :
    /\ i < j
    /\ Cardinality({r \in Passed(c) : i <= r /\ r <= j}) > 2 * limit
    => request[j].at - request[i].at >= length

\* This holds of the minutes and the hours of every client, unless the limiter
\* has dropped such a window of his while it was running: to make room, or, a
\* minute, because the hour beside it was over.
RateBound ==
  /\ \A c \in Client \ forgotten.minute : AtMostTwice(c, PerMinute, Minute)
  /\ \A c \in Client \ forgotten.hour : AtMostTwice(c, PerHour, Hour)

\* However many identities are seen, a limiter keeps no more than its maximum.
WindowsBounded == Len(usage) <= MaxEntries /\ Len(tenants) <= MaxEntries

\* Nobody is refused who has not used up one of his limits within its window.
RefusalsAreEarned ==
  \A r \in DOMAIN request :
    /\ request[r].client # "nobody" /\ ~ request[r].passed
    => LET recent(length) == {p \in Passed(request[r].client) :
                                p < r /\ request[r].at - request[p].at < length}
       IN  \/ Cardinality(recent(Minute)) >= PerMinute
           \/ Cardinality(recent(Hour)) >= PerHour
=============================================================================
