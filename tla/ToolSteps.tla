------------------------------- MODULE ToolSteps -------------------------------
(***************************************************************************)
(* What a write tool (internal/tools) does to InvenTree: one after the       *)
(* other, requests that read, plan, write and check, each with what the tool *)
(* answers when the request does not do what it hoped for.  A tool is the    *)
(* set of the step sequences its input and its reads lead it through;        *)
(* ToolCalls runs them.                                                     *)
(*                                                                          *)
(* A tool sees "own" records, which it writes, and "related" ones, which its  *)
(* own stand beside or which hang on them.  All the own records in sight have *)
(* the identity the call is about (the name, number or reference it searches  *)
(* by); contents are what the call may change.  What else a tool reads, it     *)
(* looks at.                                                                *)
(***************************************************************************)
EXTENDS Naturals, Sequences

p ++ q == {s \o t : s \in p, t \in q}
Maybe(p) == p \cup {<<>>}

(* What can go wrong with a request.  Of a read: the record named is absent,   *)
(* the records or the input are unfit for the call, or the read failed or      *)
(* timed out.  Of a write: InvenTree refuses it (400, 422), answers that the   *)
(* record is absent (404), turns it away definitely (another 4xx) or for its   *)
(* pacing (408, 425, 429), or it times out in the client, or fails: 5xx, a     *)
(* broken connection, an answer that cannot be read.                          *)
(*                                                                          *)
(* What a tool makes of it: it answers "refused" (a clarification, not_found   *)
(* or validation_failed: nothing was done), "error", "deadline" (the error of  *)
(* the context), "partial" (partial_failure), or goes on to "verify".         *)
Plainly == [absent |-> "refused", unfit |-> "refused", failed |-> "error",
            refused |-> "refused", definite |-> "error", pacing |-> "error",
            timeout |-> "error", failure |-> "error"]

\* safeToolError alone: refusals and absence too are errors.
AsError == [e \in DOMAIN Plainly |-> "error"]

\* A refusal is told as such, everything else is an error.
OrError == [Plainly EXCEPT !.absent = "error"]

\* Takes 408, 425 and 429 for rejections.
AnyClientError == [OrError EXCEPT !.pacing = "refused", !.timeout = "verify", !.failure = "verify"]

\* definiteMutationRejection: an answer that leaves open what happened, a timeout
\* included, is settled by a read.
Verifying == [OrError EXCEPT !.pacing = "verify", !.timeout = "verify", !.failure = "verify"]

\* After a write: what cannot be confirmed is partial.
Confirming == [e \in DOMAIN Plainly |-> "partial"]

\* Refusals told as errors; a timeout passed on as the error of the context.
Untold(on) == [on EXCEPT !.refused = "error"]
UnlessLate(on) == [on EXCEPT !.timeout = "deadline"]

Step(op, kind, on) == {<<[op |-> op, kind |-> kind, on |-> on, apart |-> {}]>>}

\* Reads: the record the caller names is taken as given, exists, or exists and is not
\* as asked for already; no record like the one to come is there, or one that is just as asked;
\* the one record to go on with, or the one if there is any.
Look == Step("look", "own", Plainly)
Named == Step("name", "own", Plainly)
Get(kind) == Step("get", kind, Plainly)
Require(kind) == Step("get", kind, OrError)
Unsettled(kind, on) == Step("settled", kind, on)
Free(kind) == Step("free", kind, Plainly)
Same(kind) == Step("same", kind, Plainly)
One(kind) == Step("one", kind, Plainly)
Find(kind) == Step("find", kind, Plainly)

\* Confirmation: a flag of the input, a digest of what was read, a token for it.
Flag == Step("flag", "own", Plainly)
Hash == Step("hash", "own", Plainly)
Token == Step("token", "own", Plainly)

\* Reads after the write: something the answer is to show; nothing else is there.
Refresh == Step("look", "own", Confirming)
StillFree(kind) == Step("free", kind, Confirming)

\* Writes.  `apart`: the kinds of which nothing else may be there.
Write(op, kind, apart, on) == {<<[op |-> op, kind |-> kind, on |-> on, apart |-> apart]>>}
Create(kind, on) == Write("create", kind, {kind}, on)  \* one that must not exist yet
Add(kind, on) == Write("create", kind, {}, on)         \* another one
Patch(kind, on) == Write("patch", kind, {}, on)
Move(on) == Write("patch", "own", {"own"}, on)         \* to an identity of its own
Strip(on) == Write("patch", "own", {"related"}, on)    \* of what the related ones need
Put(kind, on) == Write("put", kind, {kind}, on)        \* patch the one found, or create it
Delete(kind, on) == Write("delete", kind, {"related"}, on)
Remove(kind, on) == Write("delete", kind, {}, on)      \* one on which nothing hangs

\* Read-back: the record is there, it is as asked, it is gone.
Exists(kind, on) == Step("exists", kind, on)
Matches(kind, on) == Step("matches", kind, on)
Absent(kind, on) == Step("absent", kind, on)
=============================================================================
