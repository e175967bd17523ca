------------------------------ MODULE UploadSources ------------------------------
(***************************************************************************)
(* The reading of an upload source (internal/upload): bytes given in the call, *)
(* a file below one of the allowed roots, or a URL whose hosts must not lead    *)
(* into the own network.  What is read is bounded in size and time, by a       *)
(* goroutine that may outlive the call.                                       *)
(*                                                                          *)
(* The file system, the name service and the servers are external, and change  *)
(* at any time.  The choice of the file name is left out.                     *)
(***************************************************************************)
EXTENDS Naturals

CONSTANTS
  Hosts, Allowed,  \* host names; those on the URL allowlist
  MaxRedirects,    \* 3
  MaxBytes,        \* size limit
  MaxChanges       \* bound of the model: changes of names and of the file system

VARIABLES
  source,    \* its kind, its size, and what a path leads to
  at,        \* where the call is
  place,     \* where the path led when it was resolved
  location,  \* where it leads
  names,     \* the addresses of each host
  host, hops,
  dialed,    \* history: connections made
  handle,    \* the file or the response body
  got,       \* bytes read
  reader,    \* the reading goroutine
  expired,   \* the call's context is over
  changes,
  moved,     \* history: the path led elsewhere after it was resolved
  outcome

vars == <<source, at, place, location, names, host, hops, dialed, handle, got, reader, expired,
          changes, moved, outcome>>
world == <<location, names, expired, changes, moved>>

Places == {"inside", "outside"}
Addresses == {"open", "blocked"}
Sources ==
  [kind : {"inline", "local", "url"}, size : 0..(MaxBytes + 2), file : {"regular", "other", "pipe"}]

TypeOK ==
  /\ source \in Sources
  /\ at \in {"begin", "check", "open", "stat", "validate", "dial", "response", "read", "over"}
  /\ place \in Places \cup {"none"} /\ location \in Places
  /\ names \in [Hosts -> SUBSET Addresses] /\ host \in Hosts /\ hops \in 0..MaxRedirects
  /\ dialed \subseteq Hosts \X Addresses
  /\ handle \in {"none", "open", "closed"} /\ got \in 0..(MaxBytes + 1)
  /\ reader \in {"none", "reading", "whole", "too_long", "failed"}
  /\ expired \in BOOLEAN /\ changes \in 0..MaxChanges /\ moved \in BOOLEAN
  /\ outcome \in {"none", "ok", "error"}

\* A source of another kind has no file to tell apart.
Init ==
  /\ source \in {s \in Sources : s.kind # "local" => s.file = "other"}
  /\ at = "begin" /\ place = "none" /\ location \in Places
  /\ names \in [Hosts -> SUBSET Addresses] /\ host \in Hosts /\ hops = 0 /\ dialed = {}
  /\ handle = "none" /\ got = 0 /\ reader = "none" /\ expired = FALSE /\ changes = 0
  /\ moved = FALSE /\ outcome = "none"

-----------------------------------------------------------------------------
(* What the code decides; a faulty variant stands before the operator it      *)
(* varies.                                                                   *)

\* validateFetchURL: the host has addresses, none of which is blocked.
allowlistMatches(h) == h \in Allowed
blockedAddress(address) == address = "blocked"
validateFetchURL(h) ==
  /\ names[h] # {}
  /\ allowlistMatches(h) \/ \A address \in names[h] : ~blockedAddress(address)

\* secureURLTransport: the name is resolved again, and the first address that is not
\* blocked is taken.
DialsAsChecked(h) == names[h]
Dialable(h) == {address \in names[h] : allowlistMatches(h) \/ ~blockedAddress(address)}

requireAllowedPath == place = "inside"

Returns(how) ==
  /\ outcome' = how /\ at' = "over"
  /\ handle' = IF handle = "open" THEN "closed" ELSE handle
Goes(where) == at' = where /\ UNCHANGED <<outcome, handle>>

-----------------------------------------------------------------------------
(* The call.                                                                 *)

ResolveInline ==
  /\ at = "begin" /\ source.kind = "inline"
  /\ Returns(IF source.size <= MaxBytes /\ ~expired THEN "ok" ELSE "error")
  /\ got' = IF source.size <= MaxBytes THEN source.size ELSE got
  /\ UNCHANGED <<source, place, host, hops, dialed, reader, world>>

\* The links of the path are resolved, and those of the allowed roots.
canonicalPath ==
  /\ at = "begin" /\ source.kind = "local"
  /\ place' = location /\ Goes("check")
  /\ UNCHANGED <<source, host, hops, dialed, got, reader, world>>
ResolveLocalFile ==
  /\ at = "check"
  /\ IF requireAllowedPath THEN Goes("open") ELSE Returns("error")
  /\ UNCHANGED <<source, place, host, hops, dialed, got, reader, world>>

\* What the path leads to by now; opening a pipe waits for a writer.
OpenFile ==
  /\ at = "open" /\ at' = "stat" /\ handle' = "open" /\ place' = location
  /\ UNCHANGED <<source, host, hops, dialed, got, reader, outcome, world>>
StatFile ==
  /\ at = "stat"
  /\ IF source.file = "regular" THEN Goes("read") /\ reader' = "reading"
     ELSE Returns("error") /\ UNCHANGED reader
  /\ UNCHANGED <<source, place, host, hops, dialed, got, world>>

Fetch ==
  /\ at = "begin" /\ source.kind = "url" /\ Goes("validate")
  /\ UNCHANGED <<source, place, host, hops, dialed, got, reader, world>>
Validate ==
  /\ at = "validate"
  /\ IF validateFetchURL(host) THEN Goes("dial") ELSE Returns("error")
  /\ UNCHANGED <<source, place, host, hops, dialed, got, reader, world>>
Dial ==
  /\ at = "dial" /\ ~expired
  /\ \/ Dialable(host) = {} /\ Returns("error") /\ UNCHANGED dialed
     \/ \E address \in Dialable(host) :
          dialed' = dialed \cup {<<host, address>>} /\ Goes("response")
  /\ UNCHANGED <<source, place, host, hops, got, reader, world>>

\* CheckRedirect counts the requests made before this one.
Redirected(h) ==
  /\ at = "response"
  /\ IF hops + 1 >= MaxRedirects THEN Returns("error") /\ UNCHANGED <<host, hops>>
     ELSE Goes("validate") /\ host' = h /\ hops' = hops + 1
  /\ UNCHANGED <<source, place, dialed, got, reader, world>>
Responded ==
  /\ at = "response"
  /\ at' = "read" /\ handle' = "open" /\ reader' = "reading"
  /\ UNCHANGED <<source, place, host, hops, dialed, got, outcome, world>>

\* A resolver, an open, a stat, a request or a status that is not 2xx; or the end of
\* the context, which an open does not heed.
Fails ==
  /\ at \in {"begin", "check", "open", "stat", "validate", "dial", "response"}
  /\ source.kind # "inline"
  /\ Returns("error")
  /\ UNCHANGED <<source, place, host, hops, dialed, got, reader, world>>

-----------------------------------------------------------------------------
(* readBounded: the goroutine, and the call that waits for it or its context. *)

\* One byte more than the limit is asked for.
Asks == MaxBytes + 1

ReadByte ==
  /\ reader = "reading" /\ handle = "open" /\ got < Asks /\ got < source.size
  /\ got' = got + 1
  /\ UNCHANGED <<source, at, place, host, hops, dialed, handle, reader, outcome, world>>

\* The end of the source or of what is asked for; an error, a closed source included.
ReadAll ==
  /\ reader = "reading" /\ handle = "open" /\ got \in {Asks, source.size}
  /\ reader' = IF got > MaxBytes THEN "too_long" ELSE "whole"
  /\ UNCHANGED <<source, at, place, host, hops, dialed, handle, got, outcome, world>>
ReadFails ==
  /\ reader = "reading" /\ reader' = "failed"
  /\ UNCHANGED <<source, at, place, host, hops, dialed, handle, got, outcome, world>>

readBounded ==
  /\ at = "read"
  /\ \/ reader \notin {"none", "reading"} /\ Returns(IF reader = "whole" THEN "ok" ELSE "error")
     \/ expired /\ Returns("error")
  /\ UNCHANGED <<source, place, host, hops, dialed, got, reader, world>>

-----------------------------------------------------------------------------
(* The environment.                                                          *)

call == <<source, at, place, host, hops, dialed, handle, got, reader, outcome>>

\* The timeout, or the caller.
Expire ==
  /\ ~expired /\ at # "over" /\ expired' = TRUE
  /\ UNCHANGED <<call, location, names, changes, moved>>
Rename(h, addresses) ==
  /\ source.kind = "url" /\ at # "over" /\ addresses # names[h]
  /\ changes < MaxChanges /\ changes' = changes + 1
  /\ names' = [names EXCEPT ![h] = addresses]
  /\ UNCHANGED <<call, location, expired, moved>>
Relink ==
  /\ source.kind = "local" /\ at # "over"
  /\ changes < MaxChanges /\ changes' = changes + 1
  /\ location' = IF location = "inside" THEN "outside" ELSE "inside"
  /\ moved' = (moved \/ at \in {"check", "open"})
  /\ UNCHANGED <<call, names, expired>>

\* A step of the call that nothing else has to come about for.
CallStep ==
  \/ ResolveInline \/ canonicalPath \/ ResolveLocalFile \/ StatFile
  \/ (OpenFile /\ source.file # "pipe")
  \/ Fetch \/ Validate \/ Dial \/ readBounded
  \/ (Fails /\ expired /\ at \in {"validate", "dial", "response"})

Next ==
  \/ ResolveInline \/ canonicalPath \/ ResolveLocalFile \/ OpenFile \/ StatFile
  \/ Fetch \/ Validate \/ Dial \/ Responded \/ \E h \in Hosts : Redirected(h)
  \/ Fails \/ ReadByte \/ ReadAll \/ ReadFails \/ readBounded
  \/ Expire \/ Relink \/ \E h \in Hosts, addresses \in SUBSET Addresses : Rename(h, addresses)

\* Servers may be slow for ever; time passes, and a read of what was closed returns.
Fairness ==
  /\ WF_vars(CallStep) /\ WF_vars(Expire)
  /\ WF_vars(ReadFails /\ handle = "closed")

Spec == Init /\ [][Next]_vars /\ Fairness

-----------------------------------------------------------------------------
(* Properties.                                                               *)

\* However names and links change while a source is read: no connection is made to a
\* blocked address of a host that is not on the allowlist, what is read of a file lies
\* below the allowed roots unless the path was bent in the short time after it was
\* resolved, what is returned is the whole of the source and never a part, and
\* nothing stays open.
WithinPolicy ==
  /\ \A c \in dialed : blockedAddress(c[2]) => c[1] \in Allowed
  /\ outcome = "ok" /\ source.kind = "local" => place = "inside" \/ moved
  /\ outcome = "ok" => got = source.size /\ got <= MaxBytes
  /\ at = "over" => handle # "open"

\* The call returns, unless it waits for the writer of a pipe, and the goroutine it
\* started ends.
ReadingEnds ==
  /\ at = "begin" /\ source.file # "pipe" ~> at = "over"
  /\ at = "over" ~> reader # "reading"
=============================================================================
