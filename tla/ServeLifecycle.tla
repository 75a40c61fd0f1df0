--------------------------- MODULE ServeLifecycle ---------------------------
(* The life of "pwo serve": the command's goroutine and its WaitGroup         *)
(* (cmd/serve.go), the goroutine that runs Server.Start, the one that waits   *)
(* to shut the server down (server.go), and the requests in flight, which die *)
(* with the process.  A connection carries one request.                       *)
EXTENDS Integers

CONSTANTS Requests,   \* the HTTP requests, one handler execution each
          Stuck       \* those whose handler waits for a registry that is hung

ASSUME StuckAssumption == Stuck \subseteq Requests

VARIABLES
  main,      \* where the goroutine of RunE is
  server,    \* where the goroutine that runs Start is
  stopper,   \* where the goroutine that shuts the server down is
  counter,   \* the WaitGroup's counter
  listener,  \* the listener, as the HTTP server holds it; "failed" gave an error
  ctx,       \* the context that Start was given
  handler,   \* request -> where its connection and its handler are
  process    \* whether the process runs, or how it ended

vars == <<main, server, stopper, counter, listener, ctx, handler, process>>

Before == {"start", "bind", "serve"}       \* Start has not begun to accept
Ends == {"exited", "panicked", "killed"}

(* The requests whose connection is accepted and open. *)
InFlight == {r \in Requests : handler[r] \in {"connected", "running"}}

(* The command passes context.Background(), which is never cancelled; Start   *)
(* takes any context.                                                         *)
Init ==
  /\ main = "start" /\ server = "none" /\ stopper = "none"
  /\ counter = 0
  /\ listener = "none"
  /\ ctx \in {"background", "live"}
  /\ handler = [r \in Requests |-> "none"]
  /\ process = "running"

Goto(pc, from, to) == process = "running" /\ pc = from /\ pc' = to

-----------------------------------------------------------------------------
(* RunE. *)

Launch ==
  /\ Goto(main, "start", "add")
  /\ server' = "start"
  /\ UNCHANGED <<stopper, counter, listener, ctx, handler, process>>

(* Mutation: the goroutine of Start and the one it starts are both counted. *)
AddTwo ==
  /\ Goto(main, "add", "wait")
  /\ counter' = counter + 2
  /\ UNCHANGED <<server, stopper, listener, ctx, handler, process>>

(* Mutation: the goroutine is started and nothing is added. *)
ForgetAdd ==
  /\ Goto(main, "add", "wait")
  /\ UNCHANGED <<server, stopper, counter, listener, ctx, handler, process>>

Add ==
  /\ Goto(main, "add", "wait")
  /\ counter' = counter + 1
  /\ UNCHANGED <<server, stopper, listener, ctx, handler, process>>

(* RunE returns nil, and the process exits, whatever Start returned. *)
Wait ==
  /\ Goto(process, "running", "exited")
  /\ main = "wait" /\ counter = 0
  /\ UNCHANGED <<main, server, stopper, counter, listener, ctx, handler>>

-----------------------------------------------------------------------------
(* Server.Start and the deferred wg.Done. *)

Start ==
  /\ Goto(server, "start", "bind")
  /\ stopper' = "waiting"
  /\ UNCHANGED <<main, counter, listener, ctx, handler, process>>

(* The port is free, or the error is logged. *)
Bind ==
  /\ Goto(server, "bind", "serve") \/ Goto(server, "bind", "done")
  /\ UNCHANGED <<main, stopper, counter, listener, ctx, handler, process>>

Serve ==
  /\ Goto(server, "serve", "serving")
  /\ listener' = "open"
  /\ UNCHANGED <<main, stopper, counter, ctx, handler, process>>

(* Listen returns as soon as the listener is closed, requests or not. *)
StopServing ==
  /\ Goto(server, "serving", "done")
  /\ listener = "closed"
  /\ UNCHANGED <<main, stopper, counter, listener, ctx, handler, process>>

(* An error of Accept, other than a timeout, makes Listen return too.         *)
AcceptFails ==
  /\ Goto(server, "serving", "done")
  /\ listener = "open" /\ listener' = "failed"
  /\ UNCHANGED <<main, stopper, counter, ctx, handler, process>>

(* Mutation: an error of Listen returns before wg.Done. *)
DoneUnlessFailed ==
  /\ Goto(server, "done", "gone")
  /\ counter' = IF listener = "none" THEN counter ELSE counter - 1
  /\ UNCHANGED <<main, stopper, listener, ctx, handler, process>>

(* A negative counter panics, and a panic outside a handler ends the process. *)
Done ==
  /\ Goto(server, "done", "gone")
  /\ counter' = counter - 1
  /\ process' = IF counter' < 0 THEN "panicked" ELSE process
  /\ UNCHANGED <<main, stopper, listener, ctx, handler>>

-----------------------------------------------------------------------------
(* The goroutine of server.go:79-90. *)

(* Mutation: the shutdown waits for the requests and then closes the listener. *)
ShutdownWithoutClosing ==
  /\ Goto(stopper, "waiting", "draining")
  /\ ctx = "cancelled"
  /\ UNCHANGED <<main, server, counter, listener, ctx, handler, process>>

(* Without a listener there is nothing to shut down: it has completed. *)
Shutdown ==
  /\ \/ Goto(stopper, "waiting", "draining") /\ listener # "none" /\ listener' = "closed"
     \/ Goto(stopper, "waiting", "completed") /\ listener = "none" /\ UNCHANGED listener
  /\ ctx = "cancelled"
  /\ UNCHANGED <<main, server, counter, ctx, handler, process>>

(* Mutation: the connections are not looked at. *)
ReportAtOnce ==
  /\ Goto(stopper, "draining", "completed")
  /\ UNCHANGED <<main, server, counter, listener, ctx, handler, process>>

Drained ==
  /\ Goto(stopper, "draining", "completed")
  /\ InFlight = {}
  /\ UNCHANGED <<main, server, counter, listener, ctx, handler, process>>

(* Mutation: Shutdown in the place of ShutdownWithTimeout. *)
GraceNeverExpires ==
  /\ Goto(stopper, "draining", "expired")
  /\ InFlight = {}
  /\ UNCHANGED <<main, server, counter, listener, ctx, handler, process>>

(* A request is still running, or an idle connection is still open.           *)
GraceExpires ==
  /\ Goto(stopper, "draining", "expired")
  /\ UNCHANGED <<main, server, counter, listener, ctx, handler, process>>

-----------------------------------------------------------------------------
(* Clients, handlers, and whoever cancels the context or kills the process.   *)

Accept(r) ==
  /\ process = "running" /\ server = "serving" /\ listener = "open"
  /\ handler[r] = "none"
  /\ handler' = [handler EXCEPT ![r] = "connected"]
  /\ UNCHANGED <<main, server, stopper, counter, listener, ctx, process>>

(* The request arrives over its connection, whatever the listener has become. *)
Begin(r) ==
  /\ process = "running" /\ handler[r] = "connected"
  /\ handler' = [handler EXCEPT ![r] = "running"]
  /\ UNCHANGED <<main, server, stopper, counter, listener, ctx, process>>

(* The client closes a connection over which it has sent nothing.             *)
Leave(r) ==
  /\ process = "running" /\ handler[r] = "connected"
  /\ handler' = [handler EXCEPT ![r] = "left"]
  /\ UNCHANGED <<main, server, stopper, counter, listener, ctx, process>>

Answer(r) ==
  /\ process = "running" /\ handler[r] = "running"
  /\ handler' = [handler EXCEPT ![r] = "answered"]
  /\ UNCHANGED <<main, server, stopper, counter, listener, ctx, process>>

Cancel ==
  /\ Goto(ctx, "live", "cancelled")
  /\ UNCHANGED <<main, server, stopper, counter, listener, handler, process>>

Kill ==
  /\ Goto(process, "running", "killed")
  /\ UNCHANGED <<main, server, stopper, counter, listener, ctx, handler>>

Ended == process \in Ends /\ UNCHANGED vars

Main == Launch \/ Add \/ Wait
Server == Start \/ Bind \/ Serve \/ StopServing \/ Done
Stopper == Shutdown \/ Drained \/ GraceExpires

Next ==
  \/ Main \/ Server \/ Stopper
  \/ AcceptFails
  \/ \E r \in Requests : Accept(r) \/ Begin(r) \/ Leave(r) \/ Answer(r)
  \/ Cancel \/ Kill \/ Ended

Spec == Init /\ [][Next]_vars

(* Go runs every runnable goroutine and fires its timers; a handler comes to  *)
(* its end unless its registry is hung.  No listener has to fail.             *)
FairSpec ==
  /\ Spec
  /\ WF_vars(Main) /\ WF_vars(Server) /\ WF_vars(Stopper)
  /\ \A r \in Requests \ Stuck : WF_vars(Answer(r))

-----------------------------------------------------------------------------
(* Types of the variables. *)
TypeOK ==
  /\ main \in {"start", "add", "wait"}
  /\ server \in Before \cup {"none", "serving", "done", "gone"}
  /\ stopper \in {"none", "waiting", "draining", "completed", "expired"}
  /\ counter \in -1..1
  /\ listener \in {"none", "open", "failed", "closed"}
  /\ ctx \in {"background", "live", "cancelled"}
  /\ handler \in [Requests -> {"none", "connected", "running", "left", "answered"}]
  /\ process \in Ends \cup {"running"}

(* The command does not end by itself with requests in flight, although       *)
(* wg.Add runs beside the goroutine it counts (serve.go:44-52), but for two   *)
(* reasons: its listener failed while it served, or its context was cancelled *)
(* (which the context.Background() of serve.go:36 never is).                  *)
CutForAReason ==
  process \in {"exited", "panicked"} /\ InFlight # {}
    => listener = "failed" \/ (listener = "closed" /\ ctx = "cancelled")

(* The WaitGroup counts the goroutine that runs Start: the command exits only *)
(* after it has gone, and panics only when it went before wg.Add ran, which   *)
(* takes a Listen that fails, or ends, before the next line of RunE does.     *)
EndsAfterListen ==
  /\ process = "exited" => server = "gone" /\ main = "wait"
  /\ process = "panicked" => server = "gone" /\ main = "add"

(* When the shutdown of a listener reports its completion, no connection is   *)
(* open, so that no handler runs and none will start: those that had been     *)
(* accepted may start and end theirs while it waits (server.go:85-89).        *)
CompletedIsDrained ==
  stopper = "completed" /\ listener = "closed" => InFlight = {}

(* A goroutine blocks in wg.Wait while the counter is not zero, in Listen     *)
(* until the listener closes or fails, and on a context that is not           *)
(* cancelled, and nowhere else: neither the shutdown's wait, which has a      *)
(* timeout, nor a request that hangs stops any of them (serve.go:52,          *)
(* server.go:84-95).                                                          *)
BlocksOnlyInWaits ==
  process = "running" =>
    /\ main # "wait" \/ counter = 0 => ENABLED <<Main>>_vars
    /\ server \in Before \cup {"done"} \/ (server = "serving" /\ listener = "closed")
         => ENABLED <<Server>>_vars
    /\ stopper = "draining" \/ (stopper = "waiting" /\ ctx = "cancelled")
         => ENABLED <<Stopper>>_vars

(* A command whose server is gone ends: wg.Wait is not left waiting, whether  *)
(* Listen failed or was shut down (serve.go:46-52).                           *)
EndsWithServer == (server = "done") ~> (process # "running")

(* A cancellation that finds the server serving ends the command, even if a   *)
(* request is stuck: Listen does not wait for it (server.go:82-94).           *)
CancelEnds ==
  (ctx = "cancelled" /\ server = "serving" /\ stopper = "waiting") ~> (process # "running")
=============================================================================
