--------------------------- MODULE LifecyclesProofs ---------------------------
(***************************************************************************)
(* Proofs about what begins and ends (Lifecycles), for every number of         *)
(* requests, heartbeats, hosts, releases and changes: however it ends, the      *)
(* service leaves no goroutine behind, the test environment nothing that       *)
(* Docker would have released, an upload source is read within its policy,     *)
(* and a release is installed only after its verification.                     *)
(*                                                                          *)
(* The parts share no variable; each has an invariant of its own, which says   *)
(* what must already be settled at each place the part can be in.              *)
(***************************************************************************)
EXTENDS Lifecycles, Sequences, FiniteSetTheorems, TLAPS

-----------------------------------------------------------------------------
(* The service.                                                             *)

ServiceTypes ==
  /\ main \in Startup \cup {"select", "stdio"} \cup Shutdown \cup {"dog", "report", "flush", "exited"}
  /\ transport \in {"http", "stdio"}
  /\ result \in {"none", "nil", "canceled", "failed", "unmanaged"}
  /\ serving \in {"none", "running", "returned"} /\ errCh \in {"empty", "closed", "failed"}
  /\ dog \in {"none", "beating", "degraded", "done"}
  /\ cut \in BOOLEAN /\ cancelled \in BOOLEAN /\ requests \in Nat

\* Where the goroutines are, by where the main one is.
Served == {"select"} \cup Shutdown
Ended == {"report", "flush", "exited"}
GoroutinesInv ==
  /\ serving = "none" <=> dog = "none"
  /\ serving = "none" => requests = 0 /\ errCh = "empty"
  /\ main \in Startup \cup {"stdio"} => serving = "none"
  /\ main \in Served \cup {"dog"} => transport = "http"
  /\ main = "dog" => serving = "returned"
  /\ main \in Ended => serving # "running" /\ dog \in {"none", "done"}
  /\ errCh # "empty" => serving = "returned"
  /\ errCh = "closed" => main \in {"draining", "closing", "joining"}
  /\ main \in {"draining", "closing", "joining"} => listener = "closed"

\* What the main one brings with it: an error unless no request can be in progress any more.
ResultInv ==
  /\ main \in Startup \cup {"stdio", "select", "stopping", "draining"} => result = "none"
  /\ main = "closing" => result = "failed"
  /\ main = "joining" => result \in {"canceled", "failed"}
  /\ main \in {"stopping", "draining", "closing", "joining"} \/ result = "canceled" => cancelled
  /\ main \in {"dog"} \cup Ended => result # "none"
  /\ result \in {"nil", "canceled", "unmanaged"} =>
       requests = 0 /\ ~(serving = "running" /\ listener = "open")
  /\ cut => result = "failed"
  /\ exit # "none" => main = "exited"
  /\ exit = "2" => result \in {"failed", "unmanaged"}
  /\ exit = "0" => result # "failed"

\* What systemd has heard.
ToldInv ==
  /\ main \in {"starting", "ready"} => transport = "http"
  /\ transport = "stdio" => told = {} /\ serving = "none"
  /\ main \in {"flush", "exited"} /\ transport = "http" /\ result = "failed" => "fatal" \in told
  /\ beats \in {0, 1} /\ (dog \in {"none", "beating"} => beats = 0)

ServiceInv == ServiceTypes /\ GoroutinesInv /\ ResultInv /\ ToldInv

-----------------------------------------------------------------------------
(* The test environment.                                                    *)

Names(s) == {s[i] : i \in DOMAIN s}
Tracked == Names(env.containers)

\* What a list of releases still has to do, and in which order.
Pending(r, op) == {r[i].name : i \in {j \in DOMAIN r : r[j].op = op}}
Releasing == [op : {"stop", "terminate", "remove"}, name : E!Containers \cup {"network"}]
WorkerFirst(r) ==
  \A i, j \in DOMAIN r :
    r[i] = E!Do("terminate", "worker") /\ r[j] = E!Do("terminate", "server") => i < j

EnvironmentTypes ==
  /\ phase \in {"starting", "started", "closing", "over"} /\ withWorker \in BOOLEAN
  /\ step \in 1..Len(E!Startup)
  /\ env \in [containers : Seq(E!Containers), network : BOOLEAN]
  /\ releases \in Seq(Releasing)
  /\ inLogf \subseteq producers

\* While it starts there is what the Environment keeps track of, in the order it was started.
StartedInv ==
  phase \in {"starting", "started"} =>
    /\ docker = Tracked \cup (IF env.network THEN {"network"} ELSE {})
    /\ orphan = {} /\ refused = {} /\ answer = "none" /\ producers \subseteq Tracked
    /\ \A i \in 1..Len(E!Startup) :
         i < step /\ E!Startup[i].op = "run" => E!Startup[i].name \in Tracked
    /\ "worker" \in Tracked => "server" \in Tracked /\ step > 14
    /\ \A i, j \in DOMAIN env.containers :
         env.containers[i] = "worker" /\ env.containers[j] = "server" => j < i

\* While it closes, what is left is still to be released, or was refused, or never started.
ClosingInv ==
  phase \in {"closing", "over"} =>
    /\ producers \subseteq Pending(releases, "stop")
    /\ docker \subseteq refused \cup orphan \cup Pending(releases, "terminate")
                          \cup Pending(releases, "remove")
    /\ orphan # {} => answer = "failed"
    /\ answer = "nil" => phase = "over" /\ refused = {}
    /\ "worker" \in docker /\ "server" \notin docker => "worker" \in refused \cup orphan
    /\ Pending(releases, "remove") \subseteq {"network"} /\ WorkerFirst(releases)
    /\ phase = "over" => releases = <<>>

EnvironmentInv ==
  /\ EnvironmentTypes /\ StartedInv /\ ClosingInv
  /\ \A c, d \in inLogf : c = d

-----------------------------------------------------------------------------
(* The upload source.                                                       *)

UploadInv ==
  /\ source.size \in Nat /\ got \in Nat
  /\ location \in {"inside", "outside"}
  /\ at = "begin" => reader = "none"
  /\ at = "check" => place = location \/ moved
  /\ at = "open" => (place = "inside" /\ location = "inside") \/ moved
  /\ source.kind = "local" /\ (at \in {"stat", "read"} \/ outcome = "ok") => place = "inside" \/ moved
  /\ at \in {"validate", "dial", "response"} => source.kind # "local"
  /\ reader = "whole" => got = source.size /\ got <= MaxBytes
  /\ outcome = "ok" => at = "over"
  /\ U!WithinPolicy

-----------------------------------------------------------------------------
(* The release.                                                             *)

Verifying == {"verify", "extract", "install"}
DownloadInv ==
  /\ running \in Nat /\ latest \in Nat /\ goal \in Nat /\ tag \in Nat /\ tokenGiven \in BOOLEAN
  /\ request # D!NoRequest =>
       /\ request \in [file : D!Files, host : D!Trusted, hops : Nat, auth : BOOLEAN]
       /\ doing = request.file
       /\ request.auth => request.host = "api" /\ tokenGiven
  /\ doing \in D!Files => request # D!NoRequest
  /\ doing \in {"archive", "checksums"} \cup Verifying => tag > running /\ (goal # 0 => tag = goal)
  /\ doing \in {"extract", "install"} => archive = sums
  /\ D!OnlyVerified

IInv == ServiceInv /\ EnvironmentInv /\ UploadInv /\ DownloadInv

-----------------------------------------------------------------------------
(* The service's proof.                                                     *)

LEMMA ServiceStart == Init \/ NoService => ServiceInv
<1> USE DEF ServiceInv, ServiceTypes, GoroutinesInv, ResultInv, ToldInv, Startup, Shutdown, Served, Ended
<1>1. CASE Init
  BY <1>1 DEF Init
<1>2. CASE NoService
  BY <1>2 DEF NoService
<1>3. QED
  BY <1>1, <1>2

\* Where the main goroutine goes on to, with either transport.
LEMMA GoesOn ==
  ASSUME main \in DOMAIN After, transport \in {"http", "stdio"}
  PROVE  /\ main \in {"parsing", "starting", "telemetry", "dependencies", "run", "mux", "listen"}
         /\ main = "parsing" => After[main] = IF transport = "http" THEN "starting" ELSE "telemetry"
         /\ main = "starting" => After[main] = "telemetry"
         /\ main = "telemetry" => After[main] = "dependencies"
         /\ main = "dependencies" => After[main] = "run"
         /\ main = "run" => After[main] = IF transport = "http" THEN "mux" ELSE "stdio"
         /\ main = "mux" => After[main] = "listen"
         /\ main = "listen" => After[main] = "ready"
         /\ main \in {"mux", "listen", "starting"} => transport = "http"
<1>1. CASE transport = "http"
  BY <1>1 DEF After
<1>2. CASE transport = "stdio"
  BY <1>2 DEF After
<1>3. QED
  BY <1>1, <1>2

LEMMA ServiceStep == ServiceInv /\ [Next]_vars => ServiceInv'
<1> SUFFICES ASSUME ServiceInv, [Next]_vars PROVE ServiceInv'
  OBVIOUS
<1> USE DEF ServiceInv, ServiceTypes, GoroutinesInv, ResultInv, ToldInv, Startup, Shutdown, Served, Ended,
        goroutines, network, Notify
<1>1. ASSUME NEW ok \in BOOLEAN, StartUp(ok) PROVE ServiceInv'
  BY <1>1, GoesOn DEF StartUp, Unmanaged
<1>2. ASSUME NEW ok \in BOOLEAN, Ready(ok) PROVE ServiceInv'
  BY <1>2 DEF Ready
<1>3. ASSUME NEW ok \in BOOLEAN, Drained(ok) PROVE ServiceInv'
  BY <1>3 DEF Drained
<1>4. CASE ServeEnded
  BY <1>4 DEF ServeEnded
<1>5. CASE Cancelled
  BY <1>5 DEF Cancelled
<1>6. CASE BeginShutdown
  BY <1>6 DEF BeginShutdown
<1>7. CASE Close
  BY <1>7 DEF Close
<1>8. CASE JoinServe
  BY <1>8 DEF JoinServe, Outcome
<1>9. CASE StopDog
  BY <1>9 DEF StopDog, Stopped
<1>10. CASE AwaitDog
  BY <1>10 DEF AwaitDog, DogDone
<1>11. ASSUME NEW how \in {"canceled", "nil", "failed"}, RunStdio(how) PROVE ServiceInv'
  BY <1>11 DEF RunStdio
<1>12. CASE Report
  BY <1>12 DEF Report, Announces
<1>13. CASE Exit
  BY <1>13 DEF Exit
<1>14. ASSUME NEW how \in {"closed", "failed"}, ServeReturns(how) PROVE ServiceInv'
  BY <1>14 DEF ServeReturns, Returned
<1>15. ASSUME NEW ok \in BOOLEAN, Beat(ok) PROVE ServiceInv'
  BY <1>15 DEF Beat, Fallen
<1>16. CASE Degrade
  BY <1>16 DEF Degrade
<1>17. CASE DogEnds \/ NoWatchdog
  BY <1>17 DEF DogEnds, NoWatchdog
<1>18. CASE Signal
  BY <1>18 DEF Signal, CutBySignal
<1>19. CASE RequestBegins
  BY <1>19 DEF RequestBegins
<1>20. CASE RequestEnds
  BY <1>20 DEF RequestEnds
<1>21. CASE DeadlinePasses
  BY <1>21 DEF DeadlinePasses
<1>22. CASE UNCHANGED vars
  BY <1>22 DEF vars
<1>23. QED
  BY <1>1, <1>2, <1>3, <1>4, <1>5, <1>6, <1>7, <1>8, <1>9, <1>10, <1>11, <1>12, <1>13, <1>14, <1>15, <1>16, <1>17, <1>18, <1>19, <1>20, <1>21, <1>22 DEF Next, MainStep, DogStep

-----------------------------------------------------------------------------
(* The upload source's proof.                                               *)

LEMMA UploadStart == U!Init \/ NoUpload => UploadInv
<1> USE DEF UploadInv, U!WithinPolicy
<1>1. CASE U!Init
  BY <1>1, LifecyclesAssumption DEF U!Init, U!Sources, U!Places
<1>2. CASE NoUpload
  BY <1>2 DEF NoUpload
<1>3. QED
  BY <1>1, <1>2

LEMMA UploadStep == UploadInv /\ [U!Next]_upload => UploadInv'
<1> SUFFICES ASSUME UploadInv, [U!Next]_upload PROVE UploadInv'
  OBVIOUS
<1> USE LifecyclesAssumption
    DEF UploadInv, U!WithinPolicy, U!blockedAddress, U!Returns, U!Goes, U!world, U!call
<1>1. CASE U!ResolveInline
  BY <1>1 DEF U!ResolveInline
<1>2. CASE U!canonicalPath
  BY <1>2 DEF U!canonicalPath
<1>3. CASE U!ResolveLocalFile
  BY <1>3 DEF U!ResolveLocalFile, U!requireAllowedPath
<1>4. CASE U!OpenFile
  BY <1>4 DEF U!OpenFile
<1>5. CASE U!StatFile
  BY <1>5 DEF U!StatFile
<1>6. CASE U!Fetch
  BY <1>6 DEF U!Fetch
<1>7. CASE U!Validate
  BY <1>7 DEF U!Validate
<1>8. CASE U!Dial
  BY <1>8 DEF U!Dial, U!Dialable, U!allowlistMatches
<1>9. CASE U!Responded
  BY <1>9 DEF U!Responded
<1>10. ASSUME NEW h \in Hosts, U!Redirected(h) PROVE UploadInv'
  BY <1>10 DEF U!Redirected
<1>11. CASE U!Fails
  BY <1>11 DEF U!Fails
<1>12. CASE U!ReadByte
  BY <1>12 DEF U!ReadByte
<1>13. CASE U!ReadAll
  BY <1>13 DEF U!ReadAll, U!Asks
<1>14. CASE U!ReadFails
  BY <1>14 DEF U!ReadFails
<1>15. CASE U!readBounded
  BY <1>15 DEF U!readBounded
<1>16. CASE U!Expire
  BY <1>16 DEF U!Expire
<1>17. CASE U!Relink
  BY <1>17 DEF U!Relink
<1>18. ASSUME NEW h \in Hosts, NEW addresses \in SUBSET U!Addresses, U!Rename(h, addresses) PROVE UploadInv'
  BY <1>18 DEF U!Rename
<1>19. CASE UNCHANGED upload
  BY <1>19 DEF upload
<1>20. QED
  BY <1>1, <1>2, <1>3, <1>4, <1>5, <1>6, <1>7, <1>8, <1>9, <1>10, <1>11, <1>12, <1>13, <1>14, <1>15, <1>16, <1>17, <1>18, <1>19 DEF U!Next

-----------------------------------------------------------------------------
(* The release's proof.                                                     *)

LEMMA DownloadStart == D!Init \/ NoDownload => DownloadInv
<1> USE LifecyclesAssumption DEF DownloadInv, D!OnlyVerified, D!NoRequest, D!Files, Verifying
<1>1. CASE D!Init
  BY <1>1 DEF D!Init, D!Versions
<1>2. CASE NoDownload
  BY <1>2 DEF NoDownload
<1>3. QED
  BY <1>1, <1>2

\* A request to another host than the API does not show the token.
LEMMA PublicRequest ==
  ASSUME NEW asked, NEW given, \A s \in asked : s[1] \in D!Trusted /\ (s[2] => s[1] = "api" /\ given)
  PROVE  \A s \in asked \cup {<<"github", FALSE>>} :
           s[1] \in D!Trusted /\ (s[2] => s[1] = "api" /\ given)
<1>1. <<"github", FALSE>>[1] = "github" /\ <<"github", FALSE>>[2] = FALSE
  OBVIOUS
<1>2. "github" \in D!Trusted
  BY DEF D!Trusted
<1>3. QED
  BY <1>1, <1>2, Zenon

LEMMA DownloadStep == DownloadInv /\ [D!Next]_download => DownloadInv'
<1> SUFFICES ASSUME DownloadInv, [D!Next]_download PROVE DownloadInv'
  OBVIOUS
<1> USE LifecyclesAssumption
    DEF DownloadInv, D!OnlyVerified, D!NoRequest, D!Files, D!Trusted, Verifying, D!options, D!github, D!Ends,
        D!Asks, D!Get, D!FirstHost
<1>1. CASE D!Run
  BY <1>1 DEF D!Run
<1>2. CASE D!Fail
  BY <1>2 DEF D!Fail
<1>3. CASE D!DownloadArchive
  <2>1. doing = "archive" /\ doing' = "checksums" /\ request' = D!Get("checksums")
        /\ UNCHANGED <<running, latest, goal, tokenGiven, tag, sums>>
    BY <1>3 DEF D!DownloadArchive
  <2>5. seen' = seen \cup {<<"github", FALSE>>}
    BY <1>3 DEF D!DownloadArchive
  <2>2. /\ request' \in [file : D!Files, host : D!Trusted, hops : Nat, auth : BOOLEAN]
        /\ request'.file = "checksums" /\ request'.auth = FALSE
    BY <2>1
  <2>3. \A s \in seen' : s[1] \in D!Trusted /\ (s[2] => s[1] = "api" /\ tokenGiven)
    BY <2>1, <2>5, PublicRequest
  <2>4. QED
    BY <2>1, <2>2, <2>3
<1>4. CASE D!DownloadChecksums
  <2>1. doing = "checksums" /\ doing' = "verify" /\ request' = D!NoRequest
    BY <1>4 DEF D!DownloadChecksums
  <2>2. UNCHANGED <<running, latest, goal, tokenGiven, tag, archive, seen>>
    BY <1>4 DEF D!DownloadChecksums
  <2>3. QED
    BY <2>1, <2>2
<1>5. CASE D!Verify
  BY <1>5 DEF D!Verify, D!verifyChecksum
<1>6. CASE D!Extract
  BY <1>6 DEF D!Extract, D!extractExecutable
<1>7. ASSUME NEW h \in D!Servers, D!Redirected(h) PROVE DownloadInv'
  <2>1. /\ request \in [file : D!Files, host : D!Trusted, hops : Nat, auth : BOOLEAN]
        /\ doing = request.file /\ (request.auth => tokenGiven)
        /\ UNCHANGED <<running, latest, goal, tokenGiven, tag, archive, sums>>
    BY <1>7 DEF D!Redirected
  <2>2. CASE D!CheckRedirect(h)
    <3> DEFINE r == [request EXCEPT !.host = h, !.hops = @ + 1, !.auth = @ /\ h = "api"]
    <3>1. r \in [file : D!Files, host : D!Trusted, hops : Nat, auth : BOOLEAN]
      <4> DEFINE Requests == [file : D!Files, host : D!Trusted, hops : Nat, auth : BOOLEAN]
      <4>1. \A q \in Requests, o \in D!Trusted, n \in Nat, b \in BOOLEAN :
              [q EXCEPT !.host = o, !.hops = n, !.auth = b] \in Requests
        OBVIOUS
      <4>2. (request.auth /\ h = "api") \in BOOLEAN
        OBVIOUS
      <4>3. h \in D!Trusted /\ request.hops \in Nat /\ request.hops + 1 \in Nat
        BY <2>1, <2>2 DEF D!CheckRedirect
      <4>4. request \in Requests
        BY <2>1
      <4> HIDE DEF Requests
      <4>5. r \in Requests
        BY <4>1, <4>2, <4>3, <4>4, Zenon
      <4>6. QED
        BY <4>5 DEF Requests
    <3>2. r.file = request.file /\ r.host = h /\ (r.auth => h = "api" /\ tokenGiven)
      BY <2>1
    <3>3. request' = r /\ doing' = doing /\ seen' = seen \cup {<<h, r.auth>>}
      BY <1>7, <2>2 DEF D!Redirected, D!Redirection
    <3>4. h \in D!Trusted
      BY <2>2 DEF D!CheckRedirect
    <3>5. r.auth \in BOOLEAN
      BY <3>1
    <3> HIDE DEF r
    <3>6. \A s \in seen' : s[1] \in D!Trusted /\ (s[2] => s[1] = "api" /\ tokenGiven)
      BY <3>2, <3>3, <3>4
    <3>7. QED
      BY <2>1, <3>1, <3>2, <3>3, <3>6
  <2>3. CASE ~D!CheckRedirect(h)
    BY <1>7, <2>1, <2>3 DEF D!Redirected
  <2>4. QED
    BY <2>2, <2>3
<1>8. ASSUME NEW v \in D!Versions, D!Resolved(v) PROVE DownloadInv'
  <2> DEFINE w == IF goal = 0 THEN latest ELSE goal
  <2>1. w \in Nat /\ (goal # 0 => w = goal)
    OBVIOUS
  <2>2. request.file = "metadata" /\ doing = "metadata" /\ UNCHANGED <<running, latest, goal, tokenGiven, archive, sums>>
    BY <1>8 DEF D!Resolved
  <2>3. CASE D!resolveRelease(w, v) /\ w >= running /\ w # running
    <3>1. tag' = w /\ doing' = "archive" /\ request' = D!Get("archive")
          /\ seen' = seen \cup {<<"github", FALSE>>}
      BY <1>8, <2>3 DEF D!Resolved
    <3>2. w > running
      BY <2>1, <2>3
    <3>3. /\ request' \in [file : D!Files, host : D!Trusted, hops : Nat, auth : BOOLEAN]
          /\ request'.file = "archive" /\ request'.auth = FALSE
      BY <3>1
    <3>4. \A s \in seen' : s[1] \in D!Trusted /\ (s[2] => s[1] = "api" /\ tokenGiven)
      BY <3>1, PublicRequest
    <3>5. QED
      BY <2>1, <2>2, <3>1, <3>2, <3>3, <3>4
  <2>4. CASE ~(D!resolveRelease(w, v) /\ w >= running /\ w # running)
    <3>1. doing' \in {"current", "failed"} /\ request' = D!NoRequest /\ seen' = seen /\ tag' \in {tag, w}
      BY <1>8, <2>4 DEF D!Resolved
    <3>2. QED
      BY <2>1, <2>2, <3>1
  <2>5. QED
    BY <2>3, <2>4
<1>9. ASSUME NEW v \in D!Versions, D!Publish(v) PROVE DownloadInv'
  BY <1>9 DEF D!Publish, D!Edit, D!Versions
<1>10. ASSUME NEW v \in D!Versions, D!ReplaceChecksums(v) PROVE DownloadInv'
  BY <1>10 DEF D!ReplaceChecksums, D!Edit
<1>11. ASSUME NEW v \in D!Versions, NEW b \in Builds, D!ReplaceArchive(v, b) PROVE DownloadInv'
  BY <1>11 DEF D!ReplaceArchive, D!Edit
<1>12. CASE UNCHANGED download
  BY <1>12 DEF download
<1>13. QED
  BY <1>1, <1>2, <1>3, <1>4, <1>5, <1>6, <1>7, <1>8, <1>9, <1>10, <1>11, <1>12 DEF D!Next

-----------------------------------------------------------------------------
(* The test environment's proof.                                            *)

\* The steps of Start.
LEMMA Steps ==
  ASSUME withWorker \in BOOLEAN
  PROVE  /\ Len(E!Startup) = IF withWorker THEN 16 ELSE 13
         /\ E!Startup[1] = E!Do("network", "network")
         /\ E!Startup[2] = E!Do("run", "postgres") /\ E!Startup[3] = E!Do("log", "postgres")
         /\ E!Startup[4] = E!Do("address", "postgres")
         /\ E!Startup[5] = E!Do("run", "redis") /\ E!Startup[6] = E!Do("log", "redis")
         /\ E!Startup[7] = E!Do("address", "redis")
         /\ E!Startup[8] = E!Do("run", "server") /\ E!Startup[9] = E!Do("log", "server")
         /\ E!Startup[10] = E!Do("address", "server")
         /\ E!Startup[11] = E!Do("ask", "version") /\ E!Startup[12] = E!Do("ask", "token")
         /\ E!Startup[13] = E!Do("ask", "user")
         /\ withWorker =>
              /\ E!Startup[14] = E!Do("run", "worker") /\ E!Startup[15] = E!Do("log", "worker")
              /\ E!Startup[16] = E!Do("healthy", "worker")
<1> USE DEF E!Startup, E!StartPostgres, E!StartRedis, E!StartServer, E!StartWorker, E!StartContainer,
        E!fetchVersion, E!createToken, E!proveToken
<1>1. CASE withWorker
  BY <1>1
<1>2. CASE ~withWorker
  BY <1>2
<1>3. QED
  BY <1>1, <1>2

\* What a step of Start is about.
Sensible(i) ==
  /\ E!Startup[i].op \in {"run", "log"} => E!Startup[i].name \in E!Containers
  /\ E!Startup[i].op = "network" => E!Startup[i].name = "network"
  /\ E!Startup[i].op = "log" =>
       i > 1 /\ E!Startup[i - 1].op = "run" /\ E!Startup[i - 1].name = E!Startup[i].name
  /\ E!Startup[i].op = "run" /\ E!Startup[i].name = "worker" => i = 14 /\ Len(E!Startup) = 16
  /\ E!Startup[i].op = "run" /\ E!Startup[i].name = "server" => i = 8
LEMMA EachStep ==
  ASSUME withWorker \in BOOLEAN
  PROVE  /\ \A i \in 1..Len(E!Startup) : Sensible(i)
         /\ Len(E!Startup) \in {13, 16} /\ E!Startup[8].op = "run" /\ E!Startup[8].name = "server"
<1> USE DEF E!Do, E!Containers
<1>1. E!Startup[8].op = "run" /\ E!Startup[8].name = "server" /\ Len(E!Startup) \in {13, 16}
  BY Steps
<1>2. ASSUME NEW i \in 1..13 PROVE Sensible(i)
  <2>1. i \in {1, 2, 3, 4, 5, 6, 7} \/ i \in {8, 9, 10, 11, 12, 13}
    OBVIOUS
  <2>2. CASE i \in {1, 2, 3, 4, 5, 6, 7}
    BY <2>2, Steps DEF Sensible
  <2>3. CASE i \in {8, 9, 10, 11, 12, 13}
    BY <2>3, Steps DEF Sensible
  <2>4. QED
    BY <2>1, <2>2, <2>3
<1>3. ASSUME withWorker, NEW i \in 14..16 PROVE Sensible(i)
  <2>1. i \in {14, 15, 16}
    OBVIOUS
  <2>2. QED
    BY <1>3, <2>1, Steps DEF Sensible
<1>4. Len(E!Startup) = IF withWorker THEN 16 ELSE 13
  BY Steps
<1>5. ASSUME NEW i \in 1..Len(E!Startup) PROVE Sensible(i)
  <2>1. i \in 1..13 \/ (withWorker /\ i \in 14..16)
    BY <1>4
  <2>2. QED
    BY <1>2, <1>3, <2>1
<1>6. QED
  BY <1>1, <1>5

\* Another container is kept track of.
LEMMA OneMore ==
  ASSUME NEW S, NEW s \in Seq(S), NEW x \in S
  PROVE  /\ Append(s, x) \in Seq(S) /\ Names(Append(s, x)) = Names(s) \cup {x}
         /\ Len(Append(s, x)) = Len(s) + 1 /\ Append(s, x)[Len(s) + 1] = x
         /\ \A i \in 1..Len(s) : Append(s, x)[i] = s[i]
<1>1. /\ Append(s, x) \in Seq(S) /\ Len(Append(s, x)) = Len(s) + 1 /\ Append(s, x)[Len(s) + 1] = x
      /\ \A i \in 1..Len(s) : Append(s, x)[i] = s[i]
  OBVIOUS
<1>2. DOMAIN s = 1..Len(s) /\ DOMAIN Append(s, x) = 1..(Len(s) + 1) /\ Len(s) \in Nat
  OBVIOUS
<1>3. Names(Append(s, x)) = Names(s) \cup {x}
  BY <1>1, <1>2 DEF Names
<1>4. QED
  BY <1>1, <1>3

\* One thing less is to be released.
LEMMA OneLess ==
  ASSUME NEW r \in Seq(Releasing), r # <<>>
  PROVE  /\ Tail(r) \in Seq(Releasing) /\ Head(r) \in Releasing
         /\ \A op : Pending(Tail(r), op) \subseteq Pending(r, op)
         /\ \A op : Pending(r, op) \subseteq
                      Pending(Tail(r), op) \cup (IF Head(r).op = op THEN {Head(r).name} ELSE {})
         /\ WorkerFirst(r) => WorkerFirst(Tail(r))
<1>1. /\ Tail(r) \in Seq(Releasing) /\ Head(r) = r[1] /\ Head(r) \in Releasing
      /\ Len(r) \in Nat /\ Len(r) >= 1 /\ DOMAIN r = 1..Len(r)
      /\ DOMAIN Tail(r) = 1..(Len(r) - 1) /\ \A i \in 1..(Len(r) - 1) : Tail(r)[i] = r[i + 1]
  OBVIOUS
<1>2. ASSUME NEW op PROVE Pending(Tail(r), op) \subseteq Pending(r, op)
  BY <1>1 DEF Pending
<1>3. ASSUME NEW op, NEW x \in Pending(r, op), x # Head(r).name \/ Head(r).op # op
      PROVE  x \in Pending(Tail(r), op)
  <2>1. PICK i \in 1..Len(r) : r[i].op = op /\ r[i].name = x
    BY <1>1 DEF Pending
  <2>2. i # 1
    BY <1>1, <1>3, <2>1
  <2>3. i - 1 \in 1..(Len(r) - 1) /\ (i - 1) + 1 = i
    BY <1>1, <2>2
  <2>4. i - 1 \in DOMAIN Tail(r) /\ Tail(r)[i - 1] = r[i]
    BY <1>1, <2>3
  <2>5. QED
    BY <2>1, <2>4 DEF Pending
<1>4. ASSUME WorkerFirst(r) PROVE WorkerFirst(Tail(r))
  BY <1>1, <1>4 DEF WorkerFirst
<1>5. QED
  BY <1>1, <1>2, <1>3, <1>4

\* Two lists, one after the other.
LEMMA Joined ==
  ASSUME NEW S, NEW s \in Seq(S), NEW t \in Seq(S)
  PROVE  /\ s \o t \in Seq(S) /\ Len(s \o t) = Len(s) + Len(t)
         /\ \A i \in 1..Len(s) : (s \o t)[i] = s[i]
         /\ \A i \in 1..Len(t) : (s \o t)[Len(s) + i] = t[i]
<1>1. s \o t \in Seq(S) /\ Len(s \o t) = Len(s) + Len(t) /\ Len(s) \in Nat /\ Len(t) \in Nat
  OBVIOUS
<1>2. \A i \in 1..(Len(s) + Len(t)) :
        (s \o t)[i] = IF i <= Len(s) THEN s[i] ELSE t[i - Len(s)]
  OBVIOUS
<1>3. ASSUME NEW i \in 1..Len(t)
      PROVE  Len(s) + i \in 1..(Len(s) + Len(t)) /\ ~(Len(s) + i <= Len(s)) /\ (Len(s) + i) - Len(s) = i
  BY <1>1
<1>4. QED
  BY <1>1, <1>2, <1>3

\* What Close sets out to do.
LEMMA ReleasesAll ==
  ASSUME NEW t \in [containers : Seq(E!Containers), network : BOOLEAN]
  PROVE  /\ E!Releases(t) \in Seq(Releasing)
         /\ Names(t.containers) \subseteq Pending(E!Releases(t), "stop")
         /\ Names(t.containers) \subseteq Pending(E!Releases(t), "terminate")
         /\ t.network => "network" \in Pending(E!Releases(t), "remove")
         /\ Pending(E!Releases(t), "remove") \subseteq {"network"}
         /\ (\A i, j \in DOMAIN t.containers :
               t.containers[i] = "worker" /\ t.containers[j] = "server" => j < i)
            => WorkerFirst(E!Releases(t))
<1> DEFINE c == t.containers
           n == Len(c)
           stops == E!Each("stop", E!Backwards(t))
           terminates == E!Each("terminate", E!Backwards(t))
           last == IF t.network THEN <<E!Do("remove", "network")>> ELSE <<>>
           r == E!Releases(t)
<1>1. c \in Seq(E!Containers) /\ n \in Nat /\ DOMAIN c = 1..n /\ t.network \in BOOLEAN
  OBVIOUS
<1>2. /\ E!Backwards(t) \in Seq(E!Containers) /\ Len(E!Backwards(t)) = n
      /\ \A i \in 1..n : E!Backwards(t)[i] = c[n - i + 1]
  BY <1>1 DEF E!Backwards, E!Reverse
<1> DEFINE b == E!Backwards(t)
<1>3. ASSUME NEW op \in {"stop", "terminate"}
      PROVE  /\ E!Each(op, b) \in Seq(Releasing) /\ Len(E!Each(op, b)) = n
             /\ \A i \in 1..n : E!Each(op, b)[i] = E!Do(op, c[n - i + 1])
  <2>1. DOMAIN b = 1..n /\ \A i \in 1..n : b[i] \in E!Containers
    BY <1>1, <1>2
  <2>2. \A x \in E!Containers : E!Do(op, x) \in Releasing
    BY <1>3 DEF E!Do, Releasing
  <2>3. QED
    BY <1>1, <1>2, <2>1, <2>2 DEF E!Each
<1>4. last \in Seq(Releasing) /\ Len(last) = (IF t.network THEN 1 ELSE 0)
      /\ (t.network => last[1] = E!Do("remove", "network"))
  <2>1. E!Do("remove", "network") \in Releasing
    BY DEF Releasing, E!Do
  <2>2. CASE t.network
    BY <2>1, <2>2
  <2>3. CASE ~t.network
    BY <2>3
  <2>4. QED
    BY <2>2, <2>3
<1>5. r = (stops \o terminates) \o last
  BY DEF E!Releases
<1>6. /\ stops \in Seq(Releasing) /\ Len(stops) = n
      /\ terminates \in Seq(Releasing) /\ Len(terminates) = n
      /\ \A i \in 1..n : stops[i] = E!Do("stop", c[n - i + 1])
      /\ \A i \in 1..n : terminates[i] = E!Do("terminate", c[n - i + 1])
  BY <1>3
<1> HIDE DEF c, n, stops, terminates, last, r, b
<1>7. r \in Seq(Releasing)
  BY <1>4, <1>5, <1>6
<1> DEFINE q == stops \o terminates
           l == Len(last)
<1>16. /\ q \in Seq(Releasing) /\ Len(q) = n + n
       /\ \A i \in 1..n : q[i] = E!Do("stop", c[n - i + 1])
       /\ \A i \in 1..n : q[n + i] = E!Do("terminate", c[n - i + 1])
  <2>1. /\ q \in Seq(Releasing) /\ Len(q) = n + n
        /\ \A i \in 1..n : q[i] = stops[i]
        /\ \A i \in 1..n : q[n + i] = terminates[i]
    <3>1. /\ q \in Seq(Releasing) /\ Len(q) = Len(stops) + Len(terminates)
          /\ \A i \in 1..Len(stops) : q[i] = stops[i]
          /\ \A i \in 1..Len(terminates) : q[Len(stops) + i] = terminates[i]
      <4>1. stops \in Seq(Releasing) /\ terminates \in Seq(Releasing)
        BY <1>6
      <4>2. QED
        BY Joined, <4>1
    <3> HIDE DEF q
    <3>2. QED
      BY <1>6, <3>1
  <2>2. QED
    BY <1>6, <2>1
<1>17. l \in {0, 1} /\ (t.network <=> l = 1)
  BY <1>4
<1>18. /\ Len(r) = n + n + l
       /\ \A i \in 1..(n + n) : r[i] = q[i]
       /\ l = 1 => r[n + n + 1] = last[1]
  <2>1. /\ Len(q \o last) = Len(q) + l
        /\ \A i \in 1..Len(q) : (q \o last)[i] = q[i]
        /\ \A i \in 1..l : (q \o last)[Len(q) + i] = last[i]
    BY Joined, <1>4, <1>16
  <2>2. r = q \o last
    BY <1>5
  <2>3. l = 1 => 1 \in 1..l
    OBVIOUS
  <2>4. QED
    BY <1>16, <2>1, <2>2, <2>3
<1>8. /\ Len(r) = n + n + l
      /\ \A i \in 1..n : r[i] = E!Do("stop", c[n - i + 1])
      /\ \A i \in 1..n : r[n + i] = E!Do("terminate", c[n - i + 1])
      /\ t.network => r[n + n + 1] = E!Do("remove", "network")
  <2>1. \A i \in 1..n : i \in 1..(n + n) /\ n + i \in 1..(n + n)
    BY <1>1
  <2> HIDE DEF q, l
  <2>2. QED
    BY <2>1, <1>4, <1>16, <1>17, <1>18
<1> HIDE DEF q, l
<1>9. ASSUME NEW i \in DOMAIN r
      PROVE  \/ i \in 1..n
             \/ i - n \in 1..n /\ i = n + (i - n)
             \/ t.network /\ i = n + n + 1
  BY <1>1, <1>7, <1>8, <1>17
<1>10. DOMAIN r = 1..Len(r)
  BY <1>7
<1>11. ASSUME NEW x \in Names(c)
       PROVE  x \in Pending(r, "stop") /\ x \in Pending(r, "terminate")
  <2>1. PICK k \in 1..n : c[k] = x
    BY <1>1 DEF Names
  <2>2. n - k + 1 \in 1..n /\ n - (n - k + 1) + 1 = k
    BY <1>1
  <2>3. r[n - k + 1] = E!Do("stop", x) /\ r[n + (n - k + 1)] = E!Do("terminate", x)
    BY <1>8, <2>1, <2>2
  <2>4. n - k + 1 \in DOMAIN r /\ n + (n - k + 1) \in DOMAIN r
    <3>1. Len(r) = n + n + l
      BY <1>8
    <3>2. QED
      BY <1>1, <1>10, <1>17, <2>2, <3>1
  <2>5. QED
    BY <2>3, <2>4 DEF Pending, E!Do
<1>12. ASSUME t.network PROVE "network" \in Pending(r, "remove")
  <2>1. r[n + n + 1] = E!Do("remove", "network") /\ Len(r) = n + n + 1
    BY <1>8, <1>12, <1>17
  <2>2. n + n + 1 \in DOMAIN r
    BY <1>1, <1>10, <2>1
  <2>3. r[n + n + 1].op = "remove" /\ r[n + n + 1].name = "network"
    BY <2>1 DEF E!Do
  <2>4. QED
    BY <2>2, <2>3 DEF Pending
<1>13. ASSUME NEW x \in Pending(r, "remove") PROVE x = "network"
  <2>1. PICK i \in DOMAIN r : r[i].op = "remove" /\ r[i].name = x
    BY DEF Pending
  <2>2. CASE i \in 1..n
    <3>1. r[i] = E!Do("stop", c[n - i + 1])
      BY <1>8, <2>2
    <3>2. QED
      BY <2>1, <3>1 DEF E!Do
  <2>3. CASE i - n \in 1..n /\ i = n + (i - n)
    <3>1. r[i] = E!Do("terminate", c[n - (i - n) + 1])
      BY <1>8, <2>3
    <3>2. QED
      BY <2>1, <3>1 DEF E!Do
  <2>4. CASE t.network /\ i = n + n + 1
    BY <1>8, <2>1, <2>4 DEF E!Do
  <2>5. QED
    BY <1>9, <2>2, <2>3, <2>4
<1>14. ASSUME \A i, j \in DOMAIN c : c[i] = "worker" /\ c[j] = "server" => j < i
       PROVE  WorkerFirst(r)
  <2> SUFFICES ASSUME NEW i \in DOMAIN r, NEW j \in DOMAIN r,
                      r[i] = E!Do("terminate", "worker"), r[j] = E!Do("terminate", "server")
               PROVE  i < j
    BY DEF WorkerFirst
  <2>1. ASSUME NEW k \in DOMAIN r, NEW x, r[k] = E!Do("terminate", x)
        PROVE  k - n \in 1..n /\ c[n - (k - n) + 1] = x
    <3>1. r[k].op = "terminate" /\ r[k].name = x
      BY <2>1 DEF E!Do
    <3>2. k \notin 1..n
      <4> SUFFICES ASSUME k \in 1..n PROVE FALSE
        OBVIOUS
      <4>1. r[k] = E!Do("stop", c[n - k + 1])
        BY <1>8
      <4>2. QED
        BY <3>1, <4>1 DEF E!Do
    <3>3. ~(t.network /\ k = n + n + 1)
      BY <1>8, <3>1 DEF E!Do
    <3>4. k - n \in 1..n /\ k = n + (k - n)
      BY <1>9, <3>2, <3>3
    <3>5. r[k] = E!Do("terminate", c[n - (k - n) + 1])
      BY <1>8, <3>4
    <3>6. r[k].name = c[n - (k - n) + 1]
      BY <3>5 DEF E!Do
    <3>7. QED
      BY <3>1, <3>4, <3>6
  <2>2. c[n - (i - n) + 1] = "worker" /\ c[n - (j - n) + 1] = "server"
        /\ i - n \in 1..n /\ j - n \in 1..n
    BY <2>1
  <2>3. n - (i - n) + 1 \in DOMAIN c /\ n - (j - n) + 1 \in DOMAIN c
    BY <1>1, <2>2
  <2>4. n - (j - n) + 1 < n - (i - n) + 1
    BY <1>14, <2>2, <2>3
  <2>5. i \in Int /\ j \in Int
    BY <1>7
  <2>6. QED
    BY <1>1, <2>4, <2>5
<1>15. QED
  BY <1>7, <1>11, <1>12, <1>13, <1>14 DEF r, c

LEMMA EnvironmentStart == E!Init \/ NoEnvironment => EnvironmentInv
<1> SUFFICES ASSUME E!Init \/ NoEnvironment PROVE EnvironmentInv
  OBVIOUS
<1>1. /\ withWorker \in BOOLEAN /\ step = 1 /\ env = [containers |-> <<>>, network |-> FALSE]
      /\ docker = {} /\ orphan = {} /\ producers = {} /\ inLogf = {} /\ releases = <<>> /\ refused = {}
      /\ answer = "none" /\ phase \in {"starting", "over"}
  BY DEF E!Init, NoEnvironment
<1>2. env \in [containers : Seq(E!Containers), network : BOOLEAN] /\ releases \in Seq(Releasing)
  BY <1>1
<1>3. Len(E!Startup) \in {13, 16}
  BY <1>1, EachStep
<1>4. DOMAIN releases = {} /\ DOMAIN env.containers = {} /\ env.network = FALSE
  BY <1>1
<1>5. Tracked = {} /\ (\A op : Pending(releases, op) = {}) /\ WorkerFirst(releases)
  BY <1>4 DEF Tracked, Names, Pending, WorkerFirst
<1>6. EnvironmentTypes
  BY <1>1, <1>2, <1>3 DEF EnvironmentTypes
<1>7. StartedInv
  <2>1. \A i \in 1..Len(E!Startup) : ~(i < step)
    BY <1>1, <1>3
  <2>2. QED
    BY <1>1, <1>4, <1>5, <2>1 DEF StartedInv
<1>8. ClosingInv
  BY <1>1, <1>5 DEF ClosingInv
<1>9. QED
  BY <1>1, <1>6, <1>7, <1>8 DEF EnvironmentInv

\* What is tracked changes with what the Environment tracks.
LEMMA Acquired ==
  ASSUME EnvironmentInv, E!Acquire
  PROVE  EnvironmentInv'
<1> USE DEF E!Do, EnvironmentInv
<1> DEFINE do == E!Startup[step]
<1>1. /\ phase = "starting" /\ env' = E!Tracks(env, do)
      /\ docker' = (IF do.op \in {"run", "network"} THEN docker \cup {do.name} ELSE docker)
      /\ producers' = (IF do.op = "log" THEN producers \cup {do.name} ELSE producers)
      /\ UNCHANGED <<withWorker, orphan, inLogf, releases, refused, answer>>
  BY DEF E!Acquire, E!Now
<1>2. \/ step = Len(E!Startup) /\ phase' = "started" /\ step' = step
      \/ step # Len(E!Startup) /\ phase' = "starting" /\ step' = step + 1
  BY DEF E!Acquire
<1>3. /\ withWorker \in BOOLEAN /\ step \in 1..Len(E!Startup)
      /\ env \in [containers : Seq(E!Containers), network : BOOLEAN]
      /\ releases \in Seq(Releasing) /\ inLogf \subseteq producers
  BY DEF EnvironmentTypes
<1>4. /\ \A i \in 1..Len(E!Startup) : Sensible(i)
      /\ Len(E!Startup) \in {13, 16} /\ E!Startup[8].op = "run" /\ E!Startup[8].name = "server"
  BY <1>3, EachStep
<1>5. Len(E!Startup)' = Len(E!Startup) /\ E!Startup' = E!Startup
  BY <1>1 DEF E!Startup, E!StartPostgres, E!StartRedis, E!StartServer, E!StartWorker, E!StartContainer,
              E!fetchVersion, E!createToken, E!proveToken
<1> HIDE DEF do
<1>6. Sensible(step) /\ do = E!Startup[step]
  BY <1>3, <1>4 DEF do
<1>7. /\ docker = Tracked \cup (IF env.network THEN {"network"} ELSE {})
      /\ orphan = {} /\ refused = {} /\ answer = "none" /\ producers \subseteq Tracked
      /\ \A i \in 1..Len(E!Startup) :
           i < step /\ E!Startup[i].op = "run" => E!Startup[i].name \in Tracked
      /\ "worker" \in Tracked => "server" \in Tracked /\ step > 14
      /\ \A i, j \in DOMAIN env.containers :
           env.containers[i] = "worker" /\ env.containers[j] = "server" => j < i
  BY <1>1 DEF StartedInv
\* The containers that are kept track of.
<1>8. /\ env' \in [containers : Seq(E!Containers), network : BOOLEAN]
      /\ Tracked' = Tracked \cup (IF do.op = "run" THEN {do.name} ELSE {})
      /\ env'.network = (env.network \/ do.op = "network")
      /\ \A i, j \in DOMAIN env.containers' :
           env.containers'[i] = "worker" /\ env.containers'[j] = "server" => j < i
  <2>1. CASE do.op = "run"
    <3> DEFINE c == Append(env.containers, do.name)
    <3>1. do.name \in E!Containers /\ env.containers \in Seq(E!Containers)
      BY <1>3, <1>6, <2>1 DEF Sensible
    <3>2. env' = [env EXCEPT !.containers = c]
      BY <1>1, <2>1 DEF E!Tracks
    <3>3. /\ c \in Seq(E!Containers) /\ Names(c) = Names(env.containers) \cup {do.name}
          /\ Len(c) = Len(env.containers) + 1 /\ c[Len(env.containers) + 1] = do.name
          /\ \A i \in 1..Len(env.containers) : c[i] = env.containers[i]
      BY <3>1, OneMore
    <3>4. DOMAIN c = 1..(Len(env.containers) + 1) /\ DOMAIN env.containers = 1..Len(env.containers)
          /\ Len(env.containers) \in Nat
      BY <3>1, <3>3
    <3> HIDE DEF c
    <3>5. env' \in [containers : Seq(E!Containers), network : BOOLEAN] /\ env'.containers = c
          /\ env'.network = env.network
      BY <1>3, <3>2, <3>3
    <3>6. ASSUME NEW i \in DOMAIN c, NEW j \in DOMAIN c, c[i] = "worker", c[j] = "server" PROVE j < i
      <4>1. CASE i \in 1..Len(env.containers)
        <5>1. env.containers[i] = "worker"
          BY <3>3, <3>6, <4>1
        <5>2. "worker" \in Tracked
          BY <3>4, <4>1, <5>1 DEF Tracked, Names
        <5>3. do.name # "server"
          BY <1>6, <1>7, <2>1, <5>2 DEF Sensible
        <5>4. j # Len(env.containers) + 1
          BY <3>3, <3>6, <5>3
        <5>5. j \in 1..Len(env.containers) /\ env.containers[j] = "server"
          BY <3>3, <3>4, <3>6, <5>4
        <5>6. QED
          BY <1>7, <3>4, <4>1, <5>1, <5>5
      <4>2. CASE i = Len(env.containers) + 1
        <5>1. j # i
          BY <3>6
        <5>2. QED
          BY <3>4, <4>2, <5>1
      <4>3. QED
        BY <3>4, <4>1, <4>2
    <3>7. QED
      BY <2>1, <3>3, <3>5, <3>6 DEF Tracked
  <2>2. CASE do.op = "network"
    <3>1. env' = [env EXCEPT !.network = TRUE]
      BY <1>1, <2>2 DEF E!Tracks
    <3>2. env' \in [containers : Seq(E!Containers), network : BOOLEAN]
          /\ env'.containers = env.containers /\ env'.network = TRUE
      BY <1>3, <3>1
    <3>3. QED
      BY <1>7, <2>2, <3>2 DEF Tracked
  <2>3. CASE do.op \notin {"run", "network"}
    <3>1. env' = env
      BY <1>1, <2>3 DEF E!Tracks
    <3>2. env.network \in BOOLEAN
      BY <1>3
    <3>3. QED
      BY <1>3, <1>7, <2>3, <3>1, <3>2 DEF Tracked
  <2>4. QED
    BY <2>1, <2>2, <2>3
<1>9. EnvironmentTypes'
  <2>1. inLogf' \subseteq producers'
    BY <1>1, <1>3
  <2>2. step' \in 1..Len(E!Startup) /\ phase' \in {"starting", "started"}
    BY <1>2, <1>3, <1>4
  <2>3. QED
    BY <1>1, <1>3, <1>5, <1>8, <2>1, <2>2 DEF EnvironmentTypes
<1>10. StartedInv'
  <2>1. docker' = Tracked' \cup (IF env'.network THEN {"network"} ELSE {})
    BY <1>1, <1>6, <1>7, <1>8 DEF Sensible
  <2>2. producers' \subseteq Tracked'
    <3>1. CASE do.op = "log"
      <4>1. step - 1 \in 1..Len(E!Startup) /\ step - 1 < step
            /\ E!Startup[step - 1].op = "run" /\ E!Startup[step - 1].name = do.name
        BY <1>3, <1>4, <1>6, <3>1 DEF Sensible
      <4>2. do.name \in Tracked
        BY <1>7, <4>1
      <4>3. QED
        BY <1>1, <1>7, <1>8, <4>2
    <3>2. CASE do.op # "log"
      BY <1>1, <1>7, <1>8, <3>2
    <3>3. QED
      BY <3>1, <3>2
  <2>3. ASSUME NEW i \in 1..Len(E!Startup), i < step', E!Startup[i].op = "run"
        PROVE  E!Startup[i].name \in Tracked'
    <3>1. i < step \/ i = step
      BY <1>2, <1>3, <1>4, <2>3
    <3>2. QED
      BY <1>6, <1>7, <1>8, <2>3, <3>1
  <2>4. ASSUME "worker" \in Tracked' PROVE "server" \in Tracked' /\ step' > 14
    <3>1. CASE "worker" \in Tracked
      BY <1>2, <1>3, <1>4, <1>7, <1>8, <3>1
    <3>2. CASE do.op = "run" /\ do.name = "worker"
      <4>1. step = 14 /\ Len(E!Startup) = 16
        BY <1>6, <3>2 DEF Sensible
      <4>2. 8 \in 1..Len(E!Startup) /\ 8 < step
        BY <4>1
      <4>3. "server" \in Tracked
        BY <1>4, <1>7, <4>2
      <4>4. QED
        BY <1>2, <1>8, <4>1, <4>3
    <3>3. QED
      BY <1>8, <2>4, <3>1, <3>2
  <2>5. QED
    BY <1>1, <1>5, <1>7, <1>8, <2>1, <2>2, <2>3, <2>4 DEF StartedInv
<1>11. ClosingInv'
  BY <1>2 DEF ClosingInv
<1>12. QED
  BY <1>1, <1>9, <1>10, <1>11

\* Close begins with everything that is kept track of, and forgets nothing.
LEMMA BeginsToClose ==
  ASSUME EnvironmentInv, E!Fail \/ E!CleanUp
  PROVE  EnvironmentInv'
<1> USE DEF EnvironmentInv
<1>1. /\ phase \in {"starting", "started"} /\ phase' = "closing" /\ releases' = E!Releases(env)
      /\ UNCHANGED <<withWorker, step, env, producers, inLogf, refused>>
  BY DEF E!Fail, E!CleanUp, E!closeWithTimeout
<1>2. \/ docker' = docker /\ orphan' = orphan /\ answer' \in {"failed", answer}
      \/ \E c : docker' = docker \cup {c} /\ orphan' = {c} /\ answer' = "failed"
  BY DEF E!Fail, E!CleanUp
<1>3. EnvironmentTypes /\ env \in [containers : Seq(E!Containers), network : BOOLEAN]
  BY DEF EnvironmentTypes
<1> DEFINE r == E!Releases(env)
<1>4. /\ docker = Tracked \cup (IF env.network THEN {"network"} ELSE {})
      /\ orphan = {} /\ refused = {} /\ answer = "none" /\ producers \subseteq Tracked
      /\ "worker" \in Tracked => "server" \in Tracked
      /\ \A i, j \in DOMAIN env.containers :
           env.containers[i] = "worker" /\ env.containers[j] = "server" => j < i
  BY <1>1 DEF StartedInv
<1>5. /\ r \in Seq(Releasing) /\ WorkerFirst(r)
      /\ Tracked \subseteq Pending(r, "stop") /\ Tracked \subseteq Pending(r, "terminate")
      /\ env.network => "network" \in Pending(r, "remove")
      /\ Pending(r, "remove") \subseteq {"network"}
  BY <1>3, <1>4, ReleasesAll DEF Tracked
<1>6. releases' = r
  BY <1>1
<1> HIDE DEF r
<1>7. Len(E!Startup)' = Len(E!Startup)
  BY <1>1 DEF E!Startup, E!StartPostgres, E!StartRedis, E!StartServer, E!StartWorker, E!StartContainer,
              E!fetchVersion, E!createToken, E!proveToken
<1>8. EnvironmentTypes'
  BY <1>1, <1>3, <1>5, <1>6, <1>7 DEF EnvironmentTypes
<1>9. ClosingInv'
  <2>1. producers' \subseteq Pending(r, "stop")
    BY <1>1, <1>4, <1>5
  <2>2. docker \subseteq Pending(r, "terminate") \cup Pending(r, "remove")
    BY <1>4, <1>5
  <2>3. docker' \subseteq refused' \cup orphan' \cup Pending(r, "terminate") \cup Pending(r, "remove")
    BY <1>2, <2>2
  <2>4. orphan' # {} => answer' = "failed"
    BY <1>2, <1>4
  <2>5. answer' # "nil"
    BY <1>2, <1>4
  <2>6. "worker" \in docker' /\ "server" \notin docker' => "worker" \in refused' \cup orphan'
    BY <1>2, <1>4
  <2>7. QED
    BY <1>1, <1>5, <1>6, <2>1, <2>3, <2>4, <2>5, <2>6 DEF ClosingInv
<1>10. StartedInv'
  BY <1>1 DEF StartedInv
<1>11. QED
  BY <1>1, <1>8, <1>9, <1>10

\* Every release takes one thing off what is left.
LEMMA Releases ==
  ASSUME EnvironmentInv, E!StopLog \/ (\E ok \in BOOLEAN : E!Release(ok))
  PROVE  EnvironmentInv'
<1> USE DEF EnvironmentInv
<1> DEFINE h == Head(releases)
<1>1. /\ phase = "closing" /\ releases # <<>> /\ releases' = Tail(releases)
      /\ UNCHANGED <<phase, withWorker, step, env, orphan, inLogf, answer>>
  BY DEF E!StopLog, E!Release, E!logs
<1>2. EnvironmentTypes /\ releases \in Seq(Releasing)
  BY DEF EnvironmentTypes
<1>3. /\ releases' \in Seq(Releasing) /\ h \in Releasing
      /\ \A op : Pending(releases', op) \subseteq Pending(releases, op)
      /\ \A op : Pending(releases, op) \subseteq
                   Pending(releases', op) \cup (IF h.op = op THEN {h.name} ELSE {})
      /\ WorkerFirst(releases) => WorkerFirst(releases')
  BY <1>1, <1>2, OneLess
<1>4. ClosingInv /\ answer # "nil"
  BY <1>1 DEF ClosingInv
<1>5. \/ /\ h.op = "stop" /\ h.name \notin inLogf /\ producers' = producers \ {h.name}
         /\ UNCHANGED <<docker, refused>>
      \/ /\ h.op \in {"terminate", "remove"} /\ producers' = producers
         /\ \/ docker' = docker \ {h.name} /\ refused' = refused
               /\ (h.op = "remove" => docker = {"network"})
            \/ docker' = docker /\ refused' = refused \cup {h.name}
  BY DEF E!StopLog, E!Release, E!logs
<1>6. h = releases[1] /\ 1 \in DOMAIN releases
  BY <1>1, <1>2
<1> HIDE DEF h
<1>7. Len(E!Startup)' = Len(E!Startup)
  BY <1>1 DEF E!Startup, E!StartPostgres, E!StartRedis, E!StartServer, E!StartWorker, E!StartContainer,
              E!fetchVersion, E!createToken, E!proveToken
<1>8. EnvironmentTypes'
  <2>1. inLogf' \subseteq producers'
    BY <1>1, <1>2, <1>5 DEF EnvironmentTypes
  <2>2. QED
    BY <1>1, <1>2, <1>3, <1>7, <2>1 DEF EnvironmentTypes
<1>9. ClosingInv'
  <2>1. producers' \subseteq Pending(releases', "stop")
    BY <1>1, <1>3, <1>4, <1>5 DEF ClosingInv
  <2>2. docker' \subseteq refused' \cup orphan' \cup Pending(releases', "terminate")
                            \cup Pending(releases', "remove")
    <3>1. docker \subseteq refused \cup orphan \cup Pending(releases, "terminate")
                             \cup Pending(releases, "remove")
      BY <1>1, <1>4 DEF ClosingInv
    <3>2. CASE h.op = "stop"
      BY <1>1, <1>3, <1>5, <3>1, <3>2
    <3>3. CASE h.op \in {"terminate", "remove"}
      BY <1>1, <1>3, <1>5, <3>1, <3>3
    <3>4. QED
      BY <1>5, <3>2, <3>3
  <2>3. ASSUME "worker" \in docker', "server" \notin docker' PROVE "worker" \in refused' \cup orphan'
    <3>1. "worker" \in docker /\ refused \subseteq refused'
      BY <1>5, <2>3
    <3>2. CASE "server" \notin docker
      BY <1>1, <1>4, <3>1, <3>2 DEF ClosingInv
    <3>3. CASE "server" \in docker
      <4>1. h.op = "terminate" /\ h.name = "server"
        BY <1>5, <2>3, <3>1, <3>3
      <4>2. h = E!Do("terminate", "server")
        BY <1>3, <4>1 DEF Releasing, E!Do
      <4>3. "worker" \notin Pending(releases, "terminate")
        <5> SUFFICES ASSUME "worker" \in Pending(releases, "terminate") PROVE FALSE
          OBVIOUS
        <5>1. PICK i \in DOMAIN releases : releases[i].op = "terminate" /\ releases[i].name = "worker"
          BY DEF Pending
        <5>2. releases[i] \in Releasing /\ i \in Nat /\ i >= 1
          BY <1>2
        <5>3. releases[i] = E!Do("terminate", "worker")
          BY <5>1, <5>2 DEF Releasing, E!Do
        <5>4. i < 1
          BY <1>1, <1>4, <1>6, <4>2, <5>3 DEF ClosingInv, WorkerFirst
        <5>5. QED
          BY <5>2, <5>4
      <4>4. "worker" \notin Pending(releases, "remove")
        BY <1>1, <1>4 DEF ClosingInv
      <4>5. QED
        BY <1>1, <1>4, <3>1, <4>3, <4>4 DEF ClosingInv
    <3>4. QED
      BY <3>2, <3>3
  <2>4. QED
    BY <1>1, <1>3, <1>4, <2>1, <2>2, <2>3 DEF ClosingInv
<1>10. StartedInv'
  BY <1>1 DEF StartedInv
<1>11. QED
  BY <1>1, <1>8, <1>9, <1>10

LEMMA EnvironmentStep == EnvironmentInv /\ [E!Next]_environment => EnvironmentInv'
<1> SUFFICES ASSUME EnvironmentInv, [E!Next]_environment PROVE EnvironmentInv'
  OBVIOUS
<1>1. ASSUME UNCHANGED <<withWorker, step, env, docker, orphan, releases, refused>>,
             UNCHANGED <<phase, answer>>, producers' \subseteq producers, inLogf' \subseteq producers',
             \A c, d \in inLogf' : c = d
      PROVE  EnvironmentInv'
  <2>1. E!Startup' = E!Startup
    BY <1>1 DEF E!Startup, E!StartPostgres, E!StartRedis, E!StartServer, E!StartWorker, E!StartContainer,
                E!fetchVersion, E!createToken, E!proveToken
  <2>2. EnvironmentTypes'
    BY <1>1, <2>1 DEF EnvironmentInv, EnvironmentTypes
  <2>3. StartedInv'
    BY <1>1, <2>1 DEF EnvironmentInv, StartedInv, Tracked
  <2>4. ClosingInv'
    BY <1>1 DEF EnvironmentInv, ClosingInv
  <2>5. QED
    BY <1>1, <2>2, <2>3, <2>4 DEF EnvironmentInv
<1>2. inLogf \subseteq producers /\ \A c, d \in inLogf : c = d
  BY DEF EnvironmentInv, EnvironmentTypes
<1>3. CASE E!StartupOver \/ UNCHANGED environment
  BY <1>1, <1>2, <1>3 DEF E!StartupOver, E!logs, environment
<1>4. CASE E!Closed
  <2>1. /\ phase = "closing" /\ releases = <<>> /\ phase' = "over"
        /\ answer' = (IF answer = "failed" THEN answer ELSE IF refused = {} THEN "nil" ELSE "errors")
        /\ UNCHANGED <<withWorker, step, env, docker, orphan, producers, inLogf, releases, refused>>
    BY <1>4 DEF E!Closed, E!logs
  <2>2. E!Startup' = E!Startup
    BY <2>1 DEF E!Startup, E!StartPostgres, E!StartRedis, E!StartServer, E!StartWorker, E!StartContainer,
                E!fetchVersion, E!createToken, E!proveToken
  <2>3. EnvironmentTypes'
    BY <2>1, <2>2 DEF EnvironmentInv, EnvironmentTypes
  <2>4. StartedInv'
    BY <2>1 DEF StartedInv
  <2>5. ClosingInv'
    BY <2>1 DEF EnvironmentInv, ClosingInv
  <2>6. QED
    BY <2>1, <2>3, <2>4, <2>5 DEF EnvironmentInv
<1>5. ASSUME NEW c \in E!Containers, E!Accept(c) \/ E!Logged(c) \/ E!LogEnds(c) PROVE EnvironmentInv'
  <2>1. CASE E!Accept(c)
    BY <1>1, <1>2, <2>1 DEF E!Accept, E!LogfFree
  <2>2. CASE E!Logged(c)
    BY <1>1, <1>2, <2>2 DEF E!Logged
  <2>3. CASE E!LogEnds(c)
    BY <1>1, <1>2, <2>3 DEF E!LogEnds
  <2>4. QED
    BY <1>5, <2>1, <2>2, <2>3
<1>6. QED
  BY <1>3, <1>4, <1>5, Acquired, BeginsToClose, Releases DEF E!Next

\* The two modules count alike.
LEMMA SameSize == \A S : E!Cardinality(S) = Cardinality(S)
BY DEF Cardinality, E!Cardinality

\* What the invariant says of the environment's end.
LEMMA EnvironmentEnds == EnvironmentInv => E!OrderlyEnvironment
<1> SUFFICES ASSUME EnvironmentInv PROVE E!OrderlyEnvironment
  OBVIOUS
<1> USE DEF EnvironmentInv
<1>1. E!NothingLeftBehind
  <2> SUFFICES ASSUME phase = "over"
               PROVE  /\ producers = {} /\ inLogf = {} /\ docker \ refused \subseteq orphan
                      /\ answer = "nil" => docker = {}
    BY DEF E!NothingLeftBehind, E!Left
  <2>1. ClosingInv /\ releases = <<>> /\ inLogf \subseteq producers
    BY DEF ClosingInv, EnvironmentTypes
  <2>2. DOMAIN releases = {}
    BY <2>1
  <2>3. \A op : Pending(releases, op) = {}
    BY <2>2 DEF Pending
  <2>4. QED
    BY <2>1, <2>3 DEF ClosingInv
<1>2. E!InTurn
  <2>1. E!Cardinality(inLogf) <= 1
    <3>1. CASE inLogf = {}
      <4>1. Cardinality(inLogf) = 0
        BY <3>1, FS_EmptySet
      <4>2. QED
        BY <4>1, SameSize
    <3>2. CASE inLogf # {}
      <4>1. PICK c : inLogf = {c}
        BY <3>2
      <4>2. Cardinality(inLogf) = 1
        BY <4>1, FS_Singleton
      <4>3. QED
        BY <4>2, SameSize
    <3>3. QED
      BY <3>1, <3>2
  <2>2. "worker" \in docker /\ "server" \notin docker => "worker" \in refused \cup orphan
    <3>1. phase \in {"starting", "started"} \/ phase \in {"closing", "over"}
      BY DEF EnvironmentTypes
    <3>2. QED
      BY <3>1 DEF StartedInv, ClosingInv
  <2>3. QED
    BY <2>1, <2>2 DEF E!InTurn
<1>3. QED
  BY <1>1, <1>2 DEF E!OrderlyEnvironment

-----------------------------------------------------------------------------
(* Theorems.                                                                *)

\* Each part starts as it may, the others being over.
LEMMA Beginning == LifeInit => IInv
BY ServiceStart, EnvironmentStart, UploadStart, DownloadStart DEF LifeInit, IInv

\* A step of one part leaves the others alone.
LEMMA Keeps == IInv /\ [LifeNext]_<<vars, environment, upload, download>> => IInv'
<1> SUFFICES ASSUME IInv, [LifeNext]_<<vars, environment, upload, download>> PROVE IInv'
  OBVIOUS
<1>1. [Next]_vars /\ [E!Next]_environment /\ [U!Next]_upload /\ [D!Next]_download
  BY DEF LifeNext
<1>2. QED
  BY <1>1, ServiceStep, EnvironmentStep, UploadStep, DownloadStep DEF IInv

\* The inductive invariant holds throughout.
THEOREM Inductive == LifeSpec => []IInv
BY Beginning, Keeps, PTL DEF LifeSpec

\* The service ends with no goroutine left and no request cut short under a clean exit
\* code, and systemd knows what became of it; the test environment ends with nothing left
\* but what Docker would not release, and calls back one at a time (serveHTTP,
\* RunWatchdog, Environment.Close).
THEOREM EndsOrderly == LifeSpec => []OrderlyEnd
<1>1. ServiceInv => CleanExit
  BY DEF ServiceInv, GoroutinesInv, ResultInv, Ended, CleanExit, NothingLeftRunning, RequestsAreDrained
<1>2. ServiceInv => SystemdKnows
  <2> SUFFICES ASSUME ServiceInv PROVE SystemdKnows
    OBVIOUS
  <2>1. exit = "2" => main = "exited" /\ result \in {"failed", "unmanaged"}
    BY DEF ServiceInv, ResultInv
  <2>2. FailureIsAnnounced
    BY <2>1 DEF ServiceInv, ToldInv, FailureIsAnnounced
  <2>3. SilentAfterLostBeat /\ (transport = "stdio" => told = {})
    BY DEF ServiceInv, ToldInv, SilentAfterLostBeat
  <2>4. QED
    BY <2>2, <2>3 DEF SystemdKnows
<1>3. IInv => OrderlyEnd
  BY <1>1, <1>2, EnvironmentEnds DEF IInv, OrderlyEnd
<1>4. QED
  BY <1>3, Inductive, PTL

\* An upload source is read within the policy for addresses, roots and size, and a release
\* is installed only after its verification, whatever changes meanwhile (ResolveLocalFile,
\* URLFetcher.Fetch, readBounded; Updater.Run).
THEOREM ReadWithinPolicy == LifeSpec => []WithinPolicy
<1>1. IInv => WithinPolicy
  BY DEF IInv, UploadInv, DownloadInv, WithinPolicy
<1>2. QED
  BY <1>1, Inductive, PTL

=============================================================================
