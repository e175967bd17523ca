------------------------------- MODULE Lifecycles -------------------------------
(***************************************************************************)
(* What begins, holds goroutines and other resources, and ends: the service   *)
(* (HTTPLifecycle), the InvenTree of the integration tests (TestEnvironment),  *)
(* the reading of an upload source (UploadSources) and the download of a        *)
(* release (ReleaseDownload).                                                  *)
(* They have nothing in common, and a behaviour is of one of them.             *)
(***************************************************************************)
EXTENDS HTTPLifecycle

CONSTANTS Hosts, Allowed, MaxRedirects, MaxBytes, MaxChanges  \* of UploadSources
CONSTANTS LastRelease, Builds, Sound, MaxHops, MaxReleaseChanges     \* of ReleaseDownload

ASSUME LifecyclesAssumption ==
  /\ Allowed \subseteq Hosts /\ Sound \subseteq Builds /\ LastRelease \in Nat \ {0}
  /\ {MaxRedirects, MaxBytes, MaxChanges, MaxHops, MaxReleaseChanges} \subseteq Nat

VARIABLES phase, withWorker, step, env, docker, orphan, producers, inLogf, logsOver, late,
          releases, refused, answer  \* of TestEnvironment

VARIABLES source, at, place, location, names, host, hops, dialed, handle, got, reader, expired,
          changes, moved, outcome  \* of UploadSources

VARIABLES running, goal, tokenGiven, latest, stored, listed, edits, doing, request, tag, archive,
          sums, seen  \* of ReleaseDownload

E == INSTANCE TestEnvironment

environment == <<phase, withWorker, step, env, docker, orphan, producers, inLogf, logsOver, late,
                 releases, refused, answer>>

U == INSTANCE UploadSources

upload == <<source, at, place, location, names, host, hops, dialed, handle, got, reader, expired,
            changes, moved, outcome>>

D == INSTANCE ReleaseDownload

download == <<running, goal, tokenGiven, latest, stored, listed, edits, doing, request, tag, archive,
              sums, seen>>

\* Neither there nor to come.
NoService ==
  /\ transport = "http" /\ main = "exited" /\ exit = "0" /\ result = "nil" /\ cancelled = FALSE
  /\ listener = "none" /\ serving = "none" /\ errCh = "empty" /\ dog = "none" /\ dogStop = FALSE
  /\ requests = 0 /\ deadline = FALSE /\ told = {} /\ beats = 0 /\ cut = FALSE
NoEnvironment ==
  /\ phase = "over" /\ withWorker = FALSE /\ step = 1
  /\ env = [containers |-> <<>>, network |-> FALSE] /\ docker = {} /\ orphan = {}
  /\ producers = {} /\ inLogf = {} /\ logsOver = FALSE /\ late = FALSE
  /\ releases = <<>> /\ refused = {} /\ answer = "none"

NoUpload ==
  /\ source = [kind |-> "inline", size |-> 0, file |-> "other"] /\ at = "over"
  /\ place = "none" /\ location = "inside" /\ names = [h \in Hosts |-> {}]
  /\ host = (CHOOSE h \in Hosts : TRUE) /\ hops = 0 /\ dialed = {} /\ handle = "none" /\ got = 0
  /\ reader = "none" /\ expired = FALSE /\ changes = 0 /\ moved = FALSE /\ outcome = "none"

NoDownload ==
  /\ running = 1 /\ goal = 0 /\ tokenGiven = FALSE /\ latest = 1 /\ stored = <<>> /\ listed = <<>>
  /\ edits = 0 /\ doing = "failed" /\ request = D!NoRequest /\ tag = 0 /\ archive = "none"
  /\ sums = "none" /\ seen = {}

LifeInit ==
  \/ Init /\ NoEnvironment /\ NoUpload /\ NoDownload
  \/ NoService /\ E!Init /\ NoUpload /\ NoDownload
  \/ NoService /\ NoEnvironment /\ U!Init /\ NoDownload
  \/ NoService /\ NoEnvironment /\ NoUpload /\ D!Init
LifeNext ==
  \/ Next /\ UNCHANGED <<environment, upload, download>>
  \/ E!Next /\ UNCHANGED <<vars, upload, download>>
  \/ U!Next /\ UNCHANGED <<vars, environment, download>>
  \/ D!Next /\ UNCHANGED <<vars, environment, upload>>
LifeSpec ==
  /\ LifeInit /\ [][LifeNext]_<<vars, environment, upload, download>>
  /\ Fairness /\ E!Fairness /\ U!Fairness /\ D!Fairness

-----------------------------------------------------------------------------
(* Properties: those of the parts.                                          *)

\* The service leaves no goroutine, no request cut short under a clean exit code and
\* no systemd that believes in it (serveHTTP, RunWatchdog); the environment leaves
\* what Docker would not release, and calls nobody back (Environment.Close).
OrderlyEnd == CleanExit /\ SystemdKnows /\ E!OrderlyEnvironment

\* An upload source is read within the policy for addresses, roots and size, and a
\* release installed only after its verification, with the token kept to the API,
\* whatever changes meanwhile (ResolveLocalFile, URLFetcher.Fetch, readBounded;
\* Updater.Run).
WithinPolicy == U!WithinPolicy /\ D!OnlyVerified

\* What was told to stop stops, a start comes to an end (serveHTTP's shutdown,
\* waitForWorker's polling), and a reading does and its goroutine (readBounded), and the
\* download of a release that is redirected for ever (CheckRedirect).
ComesToAnEnd == StopsWhenTold /\ E!StartReturns /\ U!ReadingEnds /\ D!DownloadEnds
=============================================================================
