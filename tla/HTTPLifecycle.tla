----------------------------- MODULE HTTPLifecycle -----------------------------
(***************************************************************************)
(* The life of the service: runWithContext and serve                         *)
(* (cmd/inventree-mcp/main.go), Run, RunHTTP and serveHTTP                   *)
(* (internal/server/server.go) and RunWatchdog                               *)
(* (internal/systemdnotify/notify.go).  With the HTTP transport it has three  *)
(* goroutines: the main one, the one in http.Server.Serve, and the watchdog;  *)
(* they meet in the error channel, the cancelled context and the watchdog's   *)
(* done channel.  With the stdio transport the main one does everything.      *)
(*                                                                          *)
(* net/http, systemd's socket and the clients are external: Serve returns    *)
(* when the server is shut down or its listener fails, Shutdown when the     *)
(* last request is answered or its deadline is over, any notification may    *)
(* fail, and a request may take for ever; the session over stdio ends with    *)
(* its input or the context.                                                 *)
(***************************************************************************)
EXTENDS Naturals

CONSTANTS
  MaxRequests,  \* bound of the model: requests in progress
  MaxBeats      \* bound of the model: heartbeats counted

ASSUME LifecycleAssumption == {MaxRequests, MaxBeats} \subseteq Nat

VARIABLES
  transport,  \* cfg.Transport
  main,       \* where the main goroutine is
  result,     \* the error it carries: "none", "nil", "canceled", "failed",
              \* and "unmanaged" when systemd was not told of the start
  cancelled,  \* SIGTERM or an interrupt cancelled the context
  listener,   \* the listening socket
  serving,    \* the goroutine in Serve
  errCh,      \* what it has put in the channel, if anything
  dog,        \* the watchdog goroutine
  dogStop,    \* the watchdog's context is cancelled
  requests,   \* requests in progress
  deadline,   \* the shutdown deadline has passed
  told,       \* what was sent to systemd, delivered or not
  beats,      \* history: heartbeats since one could not be delivered
  cut,        \* history: a request was cut off
  exit        \* exit code

vars == <<transport, main, result, cancelled, listener, serving, errCh, dog, dogStop, requests,
          deadline, told, beats, cut, exit>>

goroutines == <<serving, errCh, dog, dogStop>>
network == <<listener, requests, cut>>

Startup == {"parsing", "starting", "telemetry", "dependencies", "run", "mux", "listen", "ready"}
Shutdown == {"stopping", "draining", "closing", "joining"}
Notes == {"starting", "ready", "degraded", "stopping", "fatal"}

TypeOK ==
  /\ transport \in {"http", "stdio"}
  /\ main \in Startup \cup {"select", "stdio"} \cup Shutdown \cup {"dog", "report", "flush", "exited"}
  /\ result \in {"none", "nil", "canceled", "failed", "unmanaged"}
  /\ cancelled \in BOOLEAN /\ deadline \in BOOLEAN /\ dogStop \in BOOLEAN /\ cut \in BOOLEAN
  /\ listener \in {"none", "open", "closed"}
  /\ serving \in {"none", "running", "returned"}
  /\ errCh \in {"empty", "closed", "failed"}
  /\ dog \in {"none", "beating", "degraded", "done"}
  /\ requests \in 0..MaxRequests /\ told \subseteq Notes /\ beats \in 0..MaxBeats
  /\ exit \in {"none", "0", "2"}
  /\ serving = "none" <=> dog = "none"
  /\ serving = "running" => errCh = "empty"

Init ==
  /\ transport \in {"http", "stdio"}
  /\ main = "parsing" /\ result = "none" /\ cancelled = FALSE
  /\ listener = "none" /\ serving = "none" /\ errCh = "empty"
  /\ dog = "none" /\ dogStop = FALSE /\ requests = 0 /\ deadline = FALSE
  /\ told = {} /\ beats = 0 /\ cut = FALSE /\ exit = "none"

-----------------------------------------------------------------------------
(* A faulty variant stands before the operator it varies.                   *)

\* BaseContext: a request does not see the cancelled context.
CutBySignal(n) == FALSE

\* What serveHTTP returns once Serve has: the context's error, or what failed.
Outcome(drained, served) == IF drained /\ served # "failed" THEN "canceled" ELSE "failed"

\* The deferred function in serveHTTP stops the watchdog before it waits.
WaitsFirst(stopped) == stopped
Stopped(stopped) == TRUE

\* RunWatchdog after a heartbeat could not be delivered.
Fallen == "degraded"

\* serve announces a fatal error.
Announces(r) == transport = "http" /\ r = "failed"

\* serveHTTP returns when the watchdog's done channel is closed.
DogDone == dog = "done"

\* Serve returns once.
Returned == "returned"

-----------------------------------------------------------------------------
(* The main goroutine.                                                      *)

\* A notification; whether it arrives is up to systemd.
Notify(n) == told' = told \cup {n}

\* runWithContext, serve, Run and RunHTTP up to the bound listener, or the session:
\* each step may fail.  What fails before systemd is told of the start is not reported
\* to it.
After ==
  IF transport = "http"
  THEN [parsing |-> "starting", starting |-> "telemetry", telemetry |-> "dependencies",
        dependencies |-> "run", run |-> "mux", mux |-> "listen", listen |-> "ready"]
  ELSE [parsing |-> "telemetry", telemetry |-> "dependencies", dependencies |-> "run",
        run |-> "stdio"]
Unmanaged == main \in {"parsing", "starting"}
StartUp(ok) ==
  /\ main \in DOMAIN After
  /\ main' = IF ok THEN After[main] ELSE IF Unmanaged THEN "flush" ELSE "report"
  /\ result' = IF ok THEN result ELSE IF Unmanaged THEN "unmanaged" ELSE "failed"
  /\ IF main = "starting" THEN Notify("starting") ELSE UNCHANGED told
  /\ listener' = IF main = "listen" /\ ok THEN "open" ELSE listener
  /\ UNCHANGED <<transport, cancelled, goroutines, requests, cut, deadline, beats, exit>>

\* RunStdio: the session, which ends with its input, an error, or the context.
RunStdio(how) ==
  /\ main = "stdio" /\ (how = "canceled" => cancelled)
  /\ result' = how /\ main' = "report"
  /\ UNCHANGED <<transport, cancelled, network, goroutines, deadline, told, beats, exit>>

\* serveHTTP: ready, and the two goroutines start.
Ready(ok) ==
  /\ main = "ready" /\ Notify("ready")
  /\ IF ok
     THEN /\ main' = "select" /\ serving' = "running" /\ dog' = "beating"
          /\ UNCHANGED <<result, listener>>
     ELSE /\ main' = "report" /\ result' = "failed" /\ listener' = "closed"
          /\ UNCHANGED <<serving, dog>>
  /\ UNCHANGED <<transport, cancelled, errCh, dogStop, requests, cut, deadline, beats, exit>>

\* The select takes Serve's error.
ServeEnded ==
  /\ main = "select" /\ errCh # "empty"
  /\ errCh' = "empty"
  /\ result' = IF errCh = "closed" THEN "nil" ELSE "failed"
  /\ main' = "dog"
  /\ UNCHANGED <<transport, cancelled, network, serving, dog, dogStop, deadline, told, beats, exit>>

\* The select takes the cancelled context.
Cancelled ==
  /\ main = "select" /\ cancelled
  /\ Notify("stopping")
  /\ main' = "stopping"
  /\ UNCHANGED <<transport, result, cancelled, network, goroutines, deadline, beats, exit>>

\* http.Server.Shutdown closes the listener and waits for the requests.
BeginShutdown ==
  /\ main = "stopping"
  /\ main' = "draining" /\ listener' = "closed"
  /\ UNCHANGED <<transport, result, cancelled, goroutines, requests, cut, deadline, told, beats, exit>>
Drained(inTime) ==
  /\ main = "draining" /\ IF inTime THEN requests = 0 ELSE deadline
  /\ main' = IF inTime THEN "joining" ELSE "closing"
  /\ result' = IF inTime THEN "canceled" ELSE "failed"
  /\ UNCHANGED <<transport, cancelled, network, goroutines, deadline, told, beats, exit>>
Close ==
  /\ main = "closing"
  /\ main' = "joining" /\ requests' = 0 /\ cut' = (cut \/ requests > 0)
  /\ UNCHANGED <<transport, result, cancelled, listener, goroutines, deadline, told, beats, exit>>

\* <-errCh
JoinServe ==
  /\ main = "joining" /\ errCh # "empty"
  /\ result' = Outcome(result = "canceled", errCh)
  /\ errCh' = "empty" /\ main' = "dog"
  /\ UNCHANGED <<transport, cancelled, network, serving, dog, dogStop, deadline, told, beats, exit>>

\* The deferred functions: the watchdog is stopped and waited for, the
\* listener closed.
StopDog ==
  /\ main = "dog" /\ ~dogStop /\ dogStop' = Stopped(dogStop)
  /\ UNCHANGED <<main, listener>>
  /\ UNCHANGED <<transport, result, cancelled, serving, errCh, dog, requests, cut, deadline, told,
                 beats, exit>>

AwaitDog ==
  /\ main = "dog" /\ dogStop /\ DogDone
  /\ main' = "report" /\ listener' = "closed"
  /\ UNCHANGED <<transport, result, cancelled, requests, cut, goroutines, deadline, told, beats, exit>>

\* serve: a fatal error is announced.
Report ==
  /\ main = "report"
  /\ IF Announces(result) THEN Notify("fatal") ELSE UNCHANGED told
  /\ main' = "flush"
  /\ UNCHANGED <<transport, result, cancelled, network, goroutines, deadline, beats, exit>>

\* The telemetry is flushed, for a bounded time; runWithContext returns.
Exit ==
  /\ main = "flush"
  /\ main' = "exited" /\ requests' = 0 /\ cut' = (cut \/ requests > 0)
  /\ exit' = IF result = "nil" \/ (result = "canceled" /\ cancelled) THEN "0" ELSE "2"
  /\ UNCHANGED <<transport, result, cancelled, listener, goroutines, deadline, told, beats>>

-----------------------------------------------------------------------------
(* The other goroutines.                                                    *)

\* Serve returns ErrServerClosed once Shutdown or Close was called, or the
\* listener's error.
ServeReturns(how) ==
  /\ serving = "running"
  /\ main \in IF how = "closed" THEN {"draining", "closing", "joining"} ELSE {"select", "stopping"}
  /\ errCh = "empty" /\ serving' = Returned /\ errCh' = how
  /\ UNCHANGED <<transport, main, result, cancelled, network, dog, dogStop, deadline, told, beats, exit>>

\* RunWatchdog: a heartbeat (the select may prefer the ticker to the cancelled
\* context), and the end after one that is not delivered; Degraded is announced
\* in between.
Beat(ok) ==
  /\ dog = "beating"
  /\ dog' = IF ok THEN dog ELSE Fallen
  /\ beats' = IF ~ok THEN 1 ELSE IF beats > 0 /\ beats < MaxBeats THEN beats + 1 ELSE beats
  /\ UNCHANGED <<transport, main, result, cancelled, network, serving, errCh, dogStop, deadline, told, exit>>
Degrade ==
  /\ dog = "degraded" /\ Notify("degraded")
  /\ dog' = "done"
  /\ UNCHANGED <<transport, main, result, cancelled, network, serving, errCh, dogStop, deadline, beats, exit>>
DogEnds ==
  /\ dog = "beating" /\ dogStop
  /\ dog' = "done"
  /\ UNCHANGED <<transport, main, result, cancelled, network, serving, errCh, dogStop, deadline, told, beats, exit>>

\* Without a watchdog in the unit, RunWatchdog returns at once.
NoWatchdog ==
  /\ dog = "beating"
  /\ dog' = "done"
  /\ UNCHANGED <<transport, main, result, cancelled, network, serving, errCh, dogStop, deadline, told, beats, exit>>

-----------------------------------------------------------------------------
(* The environment.                                                         *)

Signal ==
  /\ ~cancelled /\ main # "exited" /\ cancelled' = TRUE
  /\ cut' = (cut \/ CutBySignal(requests))
  /\ UNCHANGED <<transport, main, result, listener, requests, goroutines, deadline, told, beats, exit>>

RequestBegins ==
  /\ serving = "running" /\ listener = "open" /\ requests < MaxRequests
  /\ requests' = requests + 1
  /\ UNCHANGED <<transport, main, result, cancelled, listener, cut, goroutines, deadline, told, beats, exit>>

RequestEnds ==
  /\ requests > 0 /\ main # "exited"
  /\ requests' = requests - 1
  /\ UNCHANGED <<transport, main, result, cancelled, listener, cut, goroutines, deadline, told, beats, exit>>

DeadlinePasses ==
  /\ main = "draining" /\ ~deadline /\ deadline' = TRUE
  /\ UNCHANGED <<transport, main, result, cancelled, network, goroutines, told, beats, exit>>

MainStep ==
  \/ \E ok \in BOOLEAN : StartUp(ok) \/ Ready(ok) \/ Drained(ok)
  \/ ServeEnded \/ Cancelled \/ BeginShutdown \/ Close \/ JoinServe \/ StopDog \/ AwaitDog
  \/ RunStdio("canceled") \/ Report \/ Exit

DogStep == (\E ok \in BOOLEAN : Beat(ok)) \/ Degrade \/ DogEnds

Next ==
  \/ MainStep
  \/ \E how \in {"nil", "failed"} : RunStdio(how)
  \/ \E how \in {"closed", "failed"} : ServeReturns(how)
  \/ DogStep \/ NoWatchdog
  \/ Signal \/ RequestBegins \/ RequestEnds \/ DeadlinePasses

Spec == Init /\ [][Next]_vars

\* Every goroutine that can run does, Serve returns when its server is shut
\* down, and the shutdown's timer fires.  Requests, signals and failures are
\* owed to nobody.
Fairness ==
  /\ WF_vars(MainStep)
  /\ WF_vars(DogEnds) /\ WF_vars(Degrade)
  /\ WF_vars(ServeReturns("closed"))
  /\ WF_vars(DeadlinePasses)

-----------------------------------------------------------------------------
(* Properties.                                                              *)

\* The process never ends under a goroutine it started: both have returned
\* when serveHTTP does, whichever of its two ways out it takes.
NothingLeftRunning ==
  main \in {"report", "flush", "exited"} => serving # "running" /\ dog \in {"none", "done"}

\* A request that was accepted is cut off only when the shutdown's deadline has
\* passed or the service failed, and then the process does not exit cleanly: a
\* signal by itself interrupts nothing.
RequestsAreDrained ==
  cut => result = "failed" /\ exit # "0"

\* What the end of the process leaves: no goroutine, and no request cut short
\* under a clean exit code.
CleanExit == NothingLeftRunning /\ RequestsAreDrained

\* A service that told systemd it was starting and then fails sends it word of
\* the failure before it exits with status 2: no way out of serve, RunHTTP and
\* serveHTTP skips it.
FailureIsAnnounced ==
  exit = "2" /\ transport = "http" => "fatal" \in told \/ result = "unmanaged"

\* The watchdog is silent once a heartbeat was lost: systemd, which counts on
\* them, restarts the service.
SilentAfterLostBeat == beats <= 1

\* systemd is never left believing in a service that failed or whose watchdog
\* has fallen behind, and hears nothing of one it does not manage.
SystemdKnows ==
  /\ FailureIsAnnounced /\ SilentAfterLostBeat
  /\ transport = "stdio" => told = {}

\* Once told to stop, the service stops, requests that never end, lost
\* notifications and a lost heartbeat notwithstanding.
StopsWhenTold == cancelled ~> main = "exited"
=============================================================================
