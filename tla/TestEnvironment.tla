----------------------------- MODULE TestEnvironment -----------------------------
(***************************************************************************)
(* The InvenTree the integration tests run against                           *)
(* (internal/testenv/testenv.go): Start acquires a network and containers     *)
(* one after the other, any of which may fail, and releases what it has when  *)
(* it gives up; the cleanup it hands out otherwise does the same.  Each        *)
(* container's log is followed by a goroutine that calls the test back.       *)
(*                                                                          *)
(* Docker and InvenTree are external: a request may fail, a container that    *)
(* could not be started may be left, and a network in use is not removed.     *)
(***************************************************************************)
EXTENDS FiniteSets, SequencesExt

VARIABLES
  phase,      \* "starting", "started", "closing", "over"
  withWorker, \* Options.StartWorker
  step,       \* the step of Start
  env,        \* what the Environment keeps track of: containers in order, network
  docker,     \* what there is: containers, and "network"
  orphan,     \* a container that was created but could not be started
  producers,  \* the containers whose log is followed
  inLogf,     \* those whose goroutine is in ContainerLogf
  logsOver,   \* logCancel was called
  late,       \* the startup's context is over
  releases,   \* what Close still has to do
  refused,    \* history: what Docker did not release
  answer      \* what the caller was told: "none", "failed", or the cleanup's answer

vars == <<phase, withWorker, step, env, docker, orphan, producers, inLogf, logsOver, late,
          releases, refused, answer>>
logs == <<producers, inLogf, logsOver>>

-----------------------------------------------------------------------------
(* What Start does; a faulty variant stands before the operator it varies.   *)

Do(op, name) == [op |-> op, name |-> name]

StartContainer(name, last) == <<Do("run", name), Do("log", name), Do(last, name)>>
StartPostgres == StartContainer("postgres", "address")
StartRedis == StartContainer("redis", "address")
StartServer == StartContainer("server", "address")
fetchVersion == <<Do("ask", "version")>>
createToken == <<Do("ask", "token")>>
proveToken == <<Do("ask", "user")>>
StartWorker == StartContainer("worker", "healthy")

Startup ==
  <<Do("network", "network")>> \o StartPostgres \o StartRedis \o StartServer
  \o fetchVersion \o createToken \o proveToken
  \o IF withWorker THEN StartWorker ELSE <<>>

Containers == {"postgres", "redis", "server", "worker"}

TypeOK ==
  /\ phase \in {"starting", "started", "closing", "over"} /\ withWorker \in BOOLEAN
  /\ step \in 1..Len(Startup)
  /\ env.containers \in Seq(Containers) /\ env.network \in BOOLEAN
  /\ docker \subseteq Containers \cup {"network"} /\ orphan \subseteq Containers
  /\ producers \subseteq Containers /\ inLogf \subseteq producers
  /\ logsOver \in BOOLEAN /\ late \in BOOLEAN
  /\ refused \subseteq Containers \cup {"network"}
  /\ answer \in {"none", "failed", "nil", "errors"}

Init ==
  /\ phase = "starting" /\ withWorker \in BOOLEAN /\ step = 1
  /\ env = [containers |-> <<>>, network |-> FALSE] /\ docker = {} /\ orphan = {}
  /\ producers = {} /\ inLogf = {} /\ logsOver = FALSE /\ late = FALSE
  /\ releases = <<>> /\ refused = {} /\ answer = "none"

\* Close: the logs first, then the containers, the last one started first, which
\* is in the network of the one before; then the network.
Backwards(tracked) == Reverse(tracked.containers)
Each(op, names) == [i \in DOMAIN names |-> Do(op, names[i])]
Releases(tracked) ==
  Each("stop", Backwards(tracked)) \o Each("terminate", Backwards(tracked))
  \o IF tracked.network THEN <<Do("remove", "network")>> ELSE <<>>

\* A container is kept track of once it runs, whatever follows.
TracksFollowed(tracked, do) ==
  IF do.op = "log" THEN [tracked EXCEPT !.containers = Append(@, do.name)]
  ELSE IF do.op = "network" THEN [tracked EXCEPT !.network = TRUE] ELSE tracked
Tracks(tracked, do) ==
  IF do.op = "run" THEN [tracked EXCEPT !.containers = Append(@, do.name)]
  ELSE IF do.op = "network" THEN [tracked EXCEPT !.network = TRUE] ELSE tracked

Now == Startup[step]

\* Only the following of a log is not bound to the startup's time.
Acquire ==
  /\ phase = "starting" /\ (late => Now.op = "log")
  /\ env' = Tracks(env, Now)
  /\ docker' = IF Now.op \in {"run", "network"} THEN docker \cup {Now.name} ELSE docker
  /\ producers' = IF Now.op = "log" THEN producers \cup {Now.name} ELSE producers
  /\ IF step = Len(Startup) THEN phase' = "started" /\ UNCHANGED step
     ELSE step' = step + 1 /\ UNCHANGED phase
  /\ UNCHANGED <<withWorker, orphan, inLogf, logsOver, late, releases, refused, answer>>

\* What Close begins with.
closeWithTimeout ==
  /\ phase' = "closing" /\ logsOver' = TRUE /\ releases' = Releases(env)

\* A step fails, or its context is over; what waits for the worker asks again until then
\* (waitForWorker).
GivesUp(do) == do.op = "healthy" => late
Fail ==
  /\ phase = "starting" /\ GivesUp(Now)
  /\ \/ UNCHANGED <<docker, orphan>>
     \/ /\ Now.op = "run"
        /\ docker' = docker \cup {Now.name} /\ orphan' = {Now.name}
  /\ answer' = "failed" /\ closeWithTimeout
  /\ UNCHANGED <<withWorker, step, env, producers, inLogf, late, refused>>

\* The startup timeout, or the end of the caller's context.
StartupOver ==
  /\ phase = "starting" /\ ~late /\ late' = TRUE
  /\ UNCHANGED <<phase, withWorker, step, env, docker, orphan, logs, releases, refused, answer>>

\* The cleanup is called.
CleanUp ==
  /\ phase = "started" /\ closeWithTimeout
  /\ UNCHANGED <<withWorker, step, env, docker, orphan, producers, inLogf, late, refused, answer>>

-----------------------------------------------------------------------------
(* Close.                                                                    *)

\* StopLogProducer waits for the goroutine.
StopLog ==
  /\ phase = "closing" /\ releases # <<>> /\ Head(releases).op = "stop"
  /\ Head(releases).name \notin inLogf
  /\ producers' = producers \ {Head(releases).name}
  /\ releases' = Tail(releases)
  /\ UNCHANGED <<phase, withWorker, step, env, docker, orphan, inLogf, logsOver, late, refused,
                 answer>>

\* A failure, the end of the cleanup's time among them, does not keep Close from
\* going on.
Release(ok) ==
  /\ phase = "closing" /\ releases # <<>> /\ Head(releases).op \in {"terminate", "remove"}
  /\ ok => (Head(releases).op = "remove" => docker = {"network"})
  /\ docker' = IF ok THEN docker \ {Head(releases).name} ELSE docker
  /\ refused' = IF ok THEN refused ELSE refused \cup {Head(releases).name}
  /\ releases' = Tail(releases)
  /\ UNCHANGED <<phase, withWorker, step, env, orphan, logs, late, answer>>

\* The errors are joined; those of a startup that failed are dropped for its own.
Closed ==
  /\ phase = "closing" /\ releases = <<>>
  /\ phase' = "over"
  /\ answer' = IF answer = "failed" THEN answer ELSE IF refused = {} THEN "nil" ELSE "errors"
  /\ UNCHANGED <<withWorker, step, env, docker, orphan, logs, late, releases, refused>>

-----------------------------------------------------------------------------
(* The goroutines that follow the logs.                                      *)

\* synchronizedContainerLogf: one at a time.
LogfFree == inLogf = {}
Accept(c) ==
  /\ c \in producers \ inLogf /\ ~logsOver /\ LogfFree
  /\ inLogf' = inLogf \cup {c}
  /\ UNCHANGED <<phase, withWorker, step, env, docker, orphan, producers, logsOver, late, releases,
                 refused, answer>>
Logged(c) ==
  /\ c \in inLogf /\ inLogf' = inLogf \ {c}
  /\ UNCHANGED <<phase, withWorker, step, env, docker, orphan, producers, logsOver, late, releases,
                 refused, answer>>

\* The following ends with its container's log.
LogEnds(c) ==
  /\ c \in producers \ inLogf /\ logsOver
  /\ producers' = producers \ {c}
  /\ UNCHANGED <<phase, withWorker, step, env, docker, orphan, inLogf, logsOver, late, releases,
                 refused, answer>>

Next ==
  \/ Acquire \/ Fail \/ StartupOver \/ CleanUp
  \/ StopLog \/ Closed \/ \E ok \in BOOLEAN : Release(ok)
  \/ \E c \in Containers : Accept(c) \/ Logged(c) \/ LogEnds(c)

\* Requests are answered, with an error if need be; time passes; callbacks return.
Fairness ==
  /\ WF_vars(Acquire \/ Fail) /\ WF_vars(StartupOver)
  /\ WF_vars(StopLog) /\ WF_vars(\E ok \in BOOLEAN : Release(ok)) /\ WF_vars(Closed)
  /\ WF_vars(\E c \in Containers : Logged(c))

Spec == Init /\ [][Next]_vars /\ Fairness

-----------------------------------------------------------------------------
(* Properties.                                                               *)

Left == docker \ refused

\* When it is over, no goroutine calls the test back any more, and what is left is
\* what Docker would not release, or the container that could not be started and the
\* network it is in: a startup that fails halfway leaks nothing else.  A cleanup that
\* reports no error has left nothing.
NothingLeftBehind ==
  phase = "over" =>
    /\ producers = {} /\ inLogf = {}
    /\ Left \subseteq orphan
    /\ answer = "nil" => docker = {}

\* The test's log is called by one goroutine at a time, and the server does not go
\* before the worker in its network, unless that one could not be released.
InTurn ==
  /\ Cardinality(inLogf) <= 1
  /\ "worker" \in docker /\ "server" \notin docker => "worker" \in refused \cup orphan

\* What Close owes the tests, whichever step of Start it comes after.
OrderlyEnvironment == NothingLeftBehind /\ InTurn

\* Start returns, with the environment or with none of it.
StartReturns == phase = "starting" ~> phase \in {"started", "over"}
=============================================================================
