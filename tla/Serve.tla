------------------------------- MODULE Serve -------------------------------
(***************************************************************************)
(* The process of src/serve.ts: the HTTP server beside a health server,    *)
(* and a signal handler of its own beside that of the HTTP server.         *)
(***************************************************************************)
EXTENDS HttpServer

VARIABLE main  \* the process: "running", "stopping" after a signal, "exited"

serveVars == <<serverVars, main>>

ServeInit == Init /\ main = "running"

\* Both handlers of the signal run: shutdown of serve.ts, which waits for the
\* health server, and then shutdown of the HTTP server, which begins to drain.
Signal(c) == main # "exited" /\ Shutdown(c) /\ main' = "stopping"

\* The health server is closed: server.stop() and process.exit(0).
Exit ==
  /\ main = "stopping"
  /\ main' = "exited"
  /\ open' = FALSE
  /\ UNCHANGED <<clock, requestVars, limitVars, draining, call, ran>>

ServeNext ==
  \/ \E c \in Calls : Signal(c)
  \/ /\ main # "exited" /\ UNCHANGED main
     /\ Requests \/ Tick \/ \E c \in Calls : ShutdownStep(c)
  \/ Exit

ServeSpec == ServeInit /\ [][ServeNext]_serveVars

-----------------------------------------------------------------------------
(* Properties *)

\* What "graceful" says: the process does not exit under an operation before
\* the time to drain is over.
ExitsGracefully ==
  main = "exited" /\ (\E r \in DOMAIN request : request[r].pc = "operating")
    => call[1].pc # "none" /\ clock >= call[1].deadline
=============================================================================
