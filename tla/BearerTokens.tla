------------------------------- MODULE BearerTokens -------------------------------
(***************************************************************************)
(* The bearer tokens of the MCP endpoint: how the bootstrap endpoint makes    *)
(* one out of a credential of InvenTree (internal/oauth/bootstrap.go), the     *)
(* keys they are sealed with and their rotation over restarts (envelope.go),   *)
(* and how they are accepted (service.go AccessTokenVerifier).                 *)
(*                                                                          *)
(* Sealing is taken as perfect.  InvenTree is external: it makes a token and   *)
(* drops the one of the same name, and may do so after the caller gave up.     *)
(***************************************************************************)
EXTENDS Naturals, Sequences

CONSTANTS
  Posts,             \* bootstrap requests
  Clients,           \* OAuth client IDs
  KeyIds,            \* sealing keys; one ID with other material counts as another
  MaxTokenAttempts,  \* maxDedicatedTokenAttempts, 3
  EnvelopeLifetime, AccessLifetime,
  MaxEnvelopes, MaxTime, MaxRestarts  \* bounds of the model

VARIABLES
  now, restarts,
  config,    \* what the service runs with
  posts,     \* where each bootstrap request is, and its attempts at a token
  made,      \* the tokens there are at InvenTree
  landing,   \* those still to be made, whose caller has given up
  envelopes  \* the sealed bearer tokens, which anybody may present at any time

vars == <<now, restarts, config, posts, made, landing, envelopes>>
upstream == <<made, landing>>

KeyStates == {"active", "decrypt_only", "absent"}
Configs == [keys : [KeyIds -> KeyStates], clients : SUBSET Clients, bootstrap : BOOLEAN]
Stages == {"new", "refused", "admitted", "minting", "asked", "sealing", "sealed", "failed"}

\* NewKeyring: exactly one active key, or the service does not start.
NewKeyring(keys) == \E id \in KeyIds : {k \in KeyIds : keys[k] = "active"} = {id}
Serving == NewKeyring(config.keys)
Active == CHOOSE id \in KeyIds : config.keys[id] = "active"

TypeOK ==
  /\ now \in 0..MaxTime /\ restarts \in 0..MaxRestarts /\ config \in Configs
  /\ posts \in [Posts -> [at : Stages, attempt : 0..MaxTokenAttempts]]
  /\ Len(envelopes) <= MaxEnvelopes

Init ==
  /\ now = 0 /\ restarts = 0
  /\ config \in {c \in Configs : NewKeyring(c.keys) /\ c.clients = Clients /\ c.bootstrap}
  /\ posts = [p \in Posts |-> [at |-> "new", attempt |-> 0]]
  /\ made = {} /\ landing = {} /\ envelopes = <<>>

-----------------------------------------------------------------------------
(* A faulty variant stands before the operator it varies.                   *)

At(p) == posts[p].at
Goes(p, where) == posts' = [posts EXCEPT ![p].at = where]

\* The token of an attempt, and the supplied credential.
Token(p, attempt, name) == [post |-> p, attempt |-> attempt, name |-> name]

\* dedicatedBootstrapTokenName of a random ID.
OfThePost(p, attempt) == <<p, 1>>
dedicatedBootstrapTokenName(p, attempt) == <<p, attempt>>
Asked(p, attempt) == Token(p, attempt, dedicatedBootstrapTokenName(p, attempt))

\* CreateCurrentUserToken, at InvenTree: the token of the same name is gone.
WithToken(tokens, token) == {t \in tokens : t.name # token.name} \cup {token}

\* After the last attempt, or when the request's time is over, nothing is sealed.
GivesUp(p) == Goes(p, "failed")

Envelope(type, client, lifetime, credential) ==
  [key |-> Active, type |-> type, client |-> client, issued |-> now, expires |-> now + lifetime,
   credential |-> credential]

\* Open: the key the envelope names, whatever its state.
OpensActive(e) == e.key = Active
Opens(e) == config.keys[e.key] # "absent"

\* TokenClaims.validateForUse
validateForUse(e) == e.issued <= now /\ e.expires > now

\* The configured clients in turn, then a bootstrap token, if those are enabled: the
\* associated data of an envelope is its client's and its type's.
AccessTokenVerifier(e) ==
  /\ Serving /\ Opens(e) /\ validateForUse(e)
  /\ \/ e.type = "access" /\ e.client \in config.clients
     \/ e.type = "bootstrap_access" /\ config.bootstrap

-----------------------------------------------------------------------------
(* A bootstrap request (handleBootstrap).                                     *)

Serves == Serving /\ config.bootstrap

\* The address's limit, the body, parseBootstrapAuthorization, the credential's limit.
Admit(p) ==
  /\ Serves /\ At(p) = "new"
  /\ Goes(p, "admitted") \/ Goes(p, "refused")
  /\ UNCHANGED <<now, restarts, config, upstream, envelopes>>
ValidateCredential(p) ==
  /\ Serves /\ At(p) = "admitted"
  /\ Goes(p, "minting") \/ Goes(p, "refused")
  /\ UNCHANGED <<now, restarts, config, upstream, envelopes>>

\* createDedicatedCredential: the next attempt, unless the request's time is over or no
\* name can be made.
NextAttempt(p) ==
  /\ Serves /\ At(p) = "minting"
  /\ \/ posts' = [posts EXCEPT ![p].at = "asked", ![p].attempt = @ + 1]
     \/ GivesUp(p)
  /\ UNCHANGED <<now, restarts, config, upstream, envelopes>>
CreateDedicatedCredential(p) ==
  /\ Serves /\ At(p) = "asked" /\ Goes(p, "sealing")
  /\ made' = WithToken(made, Asked(p, posts[p].attempt))
  /\ UNCHANGED <<now, restarts, config, landing, envelopes>>

\* An error, before the token was made, after it, or with it still to come.
CreateFails(p) ==
  /\ Serves /\ At(p) = "asked"
  /\ LET token == Asked(p, posts[p].attempt) IN
     \/ UNCHANGED upstream
     \/ made' = WithToken(made, token) /\ UNCHANGED landing
     \/ landing' = landing \cup {token} /\ UNCHANGED made
  /\ IF posts[p].attempt < MaxTokenAttempts THEN Goes(p, "minting") ELSE GivesUp(p)
  /\ UNCHANGED <<now, restarts, config, envelopes>>
Lands(token) ==
  /\ token \in landing /\ landing' = landing \ {token}
  /\ made' = WithToken(made, token)
  /\ UNCHANGED <<now, restarts, config, posts, envelopes>>

\* ValidateForEnvelope, and Seal, which may find no randomness.
Seal(p) ==
  /\ Serves /\ At(p) = "sealing" /\ Len(envelopes) < MaxEnvelopes
  /\ \/ /\ envelopes' = Append(envelopes, Envelope("bootstrap_access", "", EnvelopeLifetime,
                                                   Asked(p, posts[p].attempt)))
        /\ Goes(p, "sealed")
     \/ Goes(p, "failed") /\ UNCHANGED envelopes
  /\ UNCHANGED <<now, restarts, config, upstream>>

\* issuePair (TokenSessions).
IssueAccess(client) ==
  /\ Serving /\ client \in config.clients /\ Len(envelopes) < MaxEnvelopes
  /\ envelopes' = Append(envelopes, Envelope("access", client, AccessLifetime, client))
  /\ UNCHANGED <<now, restarts, config, posts, upstream>>

\* Another configuration; what was in progress is gone.
Restart(c) ==
  /\ restarts < MaxRestarts /\ restarts' = restarts + 1 /\ config' = c
  /\ posts' = [p \in Posts |-> [posts[p] EXCEPT !.at =
                 IF @ \in {"new", "refused", "sealed"} THEN @ ELSE "failed"]]
  /\ UNCHANGED <<now, upstream, envelopes>>

Tick ==
  /\ now < MaxTime /\ now' = now + 1
  /\ UNCHANGED <<restarts, config, posts, upstream, envelopes>>

Next ==
  \/ \E p \in Posts : Admit(p) \/ ValidateCredential(p) \/ NextAttempt(p)
                      \/ CreateDedicatedCredential(p) \/ CreateFails(p) \/ Seal(p)
  \/ \E token \in landing : Lands(token)
  \/ \E client \in Clients : IssueAccess(client)
  \/ \E c \in Configs : Restart(c)
  \/ Tick

Spec == Init /\ [][Next]_vars

-----------------------------------------------------------------------------
(* Properties.                                                               *)

Bootstrapped == {n \in 1..Len(envelopes) : envelopes[n].type = "bootstrap_access"}
PostOf(n) == envelopes[n].credential.post

\* A bootstrap request ends in at most one bearer token, only if it was told so, and
\* what that carries is a token made for this very request and still there: never the
\* supplied credential, and no other attempt, of this request or another, made before
\* or answered late, has taken its place.  A refused request leaves no token behind.
DedicatedToken ==
  /\ \A n \in Bootstrapped :
       /\ envelopes[n].credential \in made
       /\ At(PostOf(n)) = "sealed"
       /\ \A m \in Bootstrapped : PostOf(m) = PostOf(n) => m = n
  /\ \A t \in made \cup landing :
       At(t.post) \notin {"new", "refused"} /\ t.attempt \in 1..posts[t.post].attempt

\* Every key that could be read can be read, and nothing is withdrawn.
Widened(old, new) ==
  /\ NewKeyring(new.keys) /\ old.clients \subseteq new.clients /\ (old.bootstrap => new.bootstrap)
  /\ \A id \in KeyIds : old.keys[id] # "absent" => new.keys[id] # "absent"

\* A rotation of the keys that keeps the old ones for reading keeps every bearer token
\* that is accepted before it.
RotationKept ==
  Widened(config, config') =>
    \A n \in 1..Len(envelopes) :
      AccessTokenVerifier(envelopes[n]) => AccessTokenVerifier(envelopes[n])'
=============================================================================
