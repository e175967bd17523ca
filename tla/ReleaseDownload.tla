----------------------------- MODULE ReleaseDownload -----------------------------
(***************************************************************************)
(* How self-update comes by the executable it installs                       *)
(* (internal/selfupdate/selfupdate.go Run, http.go, archive.go): a release is  *)
(* resolved, its archive and its checksums are downloaded one after the other, *)
(* verified and unpacked.  What follows is SelfUpdate.                         *)
(*                                                                          *)
(* GitHub is external: releases appear and disappear, their files are          *)
(* replaced one at a time, and any request may be redirected or fail.           *)
(***************************************************************************)
EXTENDS Naturals

CONSTANTS
  LastRelease,      \* bound of the model: versions 1..LastRelease
  Builds, Sound, \* contents of an archive; those that unpack to one executable
  MaxHops,       \* 5 requests in a chain of redirects
  MaxReleaseChanges  \* bound of the model

VARIABLES
  running, goal,   \* currentVersion; options.TargetVersion, 0 without
  tokenGiven,      \* options.GitHubToken
  latest, stored, listed,  \* GitHub: the latest release, the archive of each and its checksum
  edits,
  doing,           \* what Run is doing
  request,         \* the request in progress
  tag,             \* the resolved release
  archive, sums,   \* what was downloaded
  seen             \* history: the hosts asked, and whether they saw the token

vars == <<running, goal, tokenGiven, latest, stored, listed, edits, doing, request, tag, archive,
          sums, seen>>
options == <<running, goal, tokenGiven>>
github == <<latest, stored, listed, edits>>

Versions == 1..LastRelease
Trusted == {"api", "github", "assets"}
Servers == Trusted \cup {"elsewhere"}
Files == {"metadata", "archive", "checksums"}
NoRequest == [file |-> "none", host |-> "none", hops |-> 0, auth |-> FALSE]

TypeOK ==
  /\ running \in Versions /\ goal \in 0..LastRelease /\ tokenGiven \in BOOLEAN
  /\ latest \in Versions /\ stored \in [Versions -> Builds] /\ listed \in [Versions -> Builds]
  /\ edits \in 0..MaxReleaseChanges
  /\ doing \in Files \cup {"begin", "verify", "extract", "install", "current", "failed"}
  /\ request \in [file : Files, host : Servers, hops : 0..MaxHops, auth : BOOLEAN] \cup {NoRequest}
  /\ tag \in 0..LastRelease
  /\ archive \in Builds \cup {"none"} /\ sums \in Builds \cup {"none"}
  /\ seen \subseteq Servers \X BOOLEAN

Init ==
  /\ running \in Versions /\ goal \in 0..LastRelease /\ tokenGiven \in BOOLEAN
  /\ latest \in Versions /\ \E b \in Builds : stored = [v \in Versions |-> b]
  /\ listed = stored /\ edits = 0
  /\ doing = "begin" /\ request = NoRequest /\ tag = 0 /\ archive = "none" /\ sums = "none"
  /\ seen = {}

-----------------------------------------------------------------------------
(* What the code decides.                                                    *)

\* get: the token is for the API alone, and a redirect takes it away.
FirstHost(file) == IF file = "metadata" THEN "api" ELSE "github"
Get(file) ==
  [file |-> file, host |-> FirstHost(file), hops |-> 1,
   auth |-> tokenGiven /\ FirstHost(file) = "api"]
Redirection(h) == [request EXCEPT !.host = h, !.hops = @ + 1, !.auth = @ /\ h = "api"]

\* newHTTPClient's CheckRedirect.
CheckRedirect(h) == request.hops < MaxHops /\ h \in Trusted

\* resolveRelease: the tag is the one asked for, and the files are those of that tag.
validateAssetURL(version, v) == version = v
resolveRelease(v, version) ==
  /\ goal # 0 => v = goal
  /\ validateAssetURL(version, v)

\* The checksum of the archive's own name.
verifyChecksum == archive = sums
extractExecutable == archive \in Sound

Downgrade == goal # 0 /\ goal < running

-----------------------------------------------------------------------------
(* Run.                                                                      *)

Asks(file) ==
  /\ doing' = file /\ request' = Get(file)
  /\ seen' = seen \cup {<<Get(file).host, Get(file).auth>>}
Ends(how) == doing' = how /\ request' = NoRequest /\ UNCHANGED seen

Run ==
  /\ doing = "begin"
  /\ IF Downgrade THEN Ends("failed") ELSE Asks("metadata")
  /\ UNCHANGED <<options, github, tag, archive, sums>>

Redirected(h) ==
  /\ request # NoRequest
  /\ IF CheckRedirect(h)
     THEN /\ request' = Redirection(h) /\ UNCHANGED doing
          /\ seen' = seen \cup {<<h, Redirection(h).auth>>}
     ELSE Ends("failed")
  /\ UNCHANGED <<options, github, tag, archive, sums>>

\* A request fails, is answered with another status or too much; the metadata are of a
\* draft or incomplete.
Fail ==
  /\ request # NoRequest /\ Ends("failed")
  /\ UNCHANGED <<options, github, tag, archive, sums>>

\* The metadata, whose files may be said to be those of another version.
Resolved(version) ==
  LET v == IF goal = 0 THEN latest ELSE goal IN
  /\ request.file = "metadata"
  /\ IF resolveRelease(v, version) /\ v >= running
     THEN /\ tag' = v
          /\ IF v = running THEN Ends("current") ELSE Asks("archive")
     ELSE Ends("failed") /\ UNCHANGED tag
  /\ UNCHANGED <<options, github, archive, sums>>
DownloadArchive ==
  /\ request.file = "archive"
  /\ archive' = stored[tag] /\ Asks("checksums")
  /\ UNCHANGED <<options, github, tag, sums>>
DownloadChecksums ==
  /\ request.file = "checksums"
  /\ sums' = listed[tag] /\ Ends("verify")
  /\ UNCHANGED <<options, github, tag, archive>>
Verify ==
  /\ doing = "verify" /\ Ends(IF verifyChecksum THEN "extract" ELSE "failed")
  /\ UNCHANGED <<options, github, tag, archive, sums>>
Extract ==
  /\ doing = "extract" /\ Ends(IF extractExecutable THEN "install" ELSE "failed")
  /\ UNCHANGED <<options, github, tag, archive, sums>>

-----------------------------------------------------------------------------
(* GitHub.                                                                   *)

Edit ==
  /\ edits < MaxReleaseChanges /\ doing \in Files /\ edits' = edits + 1
  /\ UNCHANGED <<options, doing, request, tag, archive, sums, seen>>
Publish(v) == Edit /\ v # latest /\ latest' = v /\ UNCHANGED <<stored, listed>>
ReplaceArchive(v, b) ==
  Edit /\ b # stored[v] /\ stored' = [stored EXCEPT ![v] = b] /\ UNCHANGED <<latest, listed>>
ReplaceChecksums(v) ==
  Edit /\ listed[v] # stored[v] /\ listed' = [listed EXCEPT ![v] = stored[v]]
  /\ UNCHANGED <<latest, stored>>

Next ==
  \/ Run \/ Fail \/ DownloadArchive \/ DownloadChecksums \/ Verify \/ Extract
  \/ \E h \in Servers : Redirected(h)
  \/ \E v \in Versions :
       Resolved(v) \/ Publish(v) \/ ReplaceChecksums(v) \/ \E b \in Builds : ReplaceArchive(v, b)

\* Requests are answered or time out.
Fairness ==
  /\ WF_vars(Run \/ Fail \/ DownloadArchive \/ DownloadChecksums)
  /\ WF_vars(Verify) /\ WF_vars(Extract)

Spec == Init /\ [][Next]_vars /\ Fairness

-----------------------------------------------------------------------------
(* Properties.                                                               *)

\* Whatever is published or replaced between its requests, what Run installs is newer
\* than what runs and the version that was asked for, an archive its checksums are of and
\* that unpacks; and whatever redirects follow, only trusted hosts are asked, and the token
\* is seen by the API alone.
OnlyVerified ==
  /\ doing = "install" =>
       tag > running /\ (goal # 0 => tag = goal) /\ archive = sums /\ archive \in Sound
  /\ \A s \in seen : s[1] \in Trusted /\ (s[2] => s[1] = "api" /\ tokenGiven)

\* Run comes to an end.
DownloadEnds == doing = "metadata" ~> doing \in {"install", "current", "failed"}
=============================================================================
