------------------------------ MODULE OAuthServer ------------------------------
(***************************************************************************)
(* The parts of the OAuth server (internal/oauth) side by side: the           *)
(* authorization endpoint, the token endpoint, the rate limiter before both,  *)
(* and the bootstrap endpoint with the bearer tokens.  They meet in the code  *)
(* store and the tokens issued, whose other side each module has as an action *)
(* (IssueCode, Exchanged, IssueAccess); so a behaviour of this module is of   *)
(* one part, and the variables are shared by name.                            *)
(***************************************************************************)
EXTENDS AuthorizationSetup

CONSTANTS
  MaxTokenTime,                                      \* MaxTime of the two others
  Clients, Assertions, MaxCodes, MaxTokens,
  AccessLifetime, RefreshLifetime, SessionLifetime,  \* of TokenSessions
  Keys, Limit, Window, MaxEntries, MaxAttempts,      \* of RequestRateLimiter
  Posts, KeyIds, MaxTokenAttempts,
  EnvelopeLifetime, MaxEnvelopes, MaxBearerTime      \* of BearerTokens

ASSUME ServerAssumption ==
  /\ {MaxTokenTime, MaxCodes, MaxTokens, MaxAttempts, MaxTokenAttempts, MaxEnvelopes,
      MaxBearerTime} \subseteq Nat
  /\ \A a \in Assertions : a[1] \in Clients /\ a[3] \in Nat
  /\ {AccessLifetime, RefreshLifetime, SessionLifetime, EnvelopeLifetime, Limit, Window,
      MaxEntries} \subseteq Nat \ {0}

VARIABLES
  part,                                  \* the part a behaviour is of
  replay, pairs, accepted, exchanged,    \* of TokenSessions
  entries, allowed, attempts, denied,    \* of RequestRateLimiter
  config, posts, made, landing, envelopes  \* of BearerTokens

T == INSTANCE TokenSessions WITH MaxTime <- MaxTokenTime
L == INSTANCE RequestRateLimiter WITH MaxTime <- MaxTokenTime
B == INSTANCE BearerTokens WITH MaxTime <- MaxBearerTime

setupVars == <<setups, pages, minted, refused, begun>>
tokenVars == <<replay, pairs, accepted, exchanged>>
endpointVars == <<codeStore, work, codes, restarts>>
limiterVars == <<entries, allowed, attempts, denied>>
bearerVars == <<config, posts, made, landing, envelopes>>

NoSetup == setups = EmptyStore /\ pages = <<>> /\ minted = {} /\ refused = {} /\ begun = 0
NoTokens == replay = EmptyStore /\ pairs = <<>> /\ accepted = <<>> /\ exchanged = <<>>
NoEndpoint == codeStore = EmptyStore /\ work = <<>> /\ codes = <<>> /\ restarts = 0
NoLimiter == entries = <<>> /\ allowed = <<>> /\ attempts = <<>> /\ denied = <<>>
NoBearer == config = <<>> /\ posts = <<>> /\ made = {} /\ landing = {} /\ envelopes = <<>>

ServerInit ==
  \/ part = "authorization" /\ Init /\ NoTokens /\ NoLimiter /\ NoBearer
  \/ part = "token" /\ T!Init /\ NoSetup /\ NoLimiter /\ NoBearer
  \/ part = "limiter" /\ L!Init /\ NoSetup /\ NoTokens /\ NoEndpoint /\ NoBearer
  \/ /\ part = "bearer" /\ B!Init /\ NoSetup /\ NoTokens /\ NoLimiter
     /\ codeStore = EmptyStore /\ work = <<>> /\ codes = <<>>

ServerNext ==
  \/ part = "authorization" /\ Next /\ UNCHANGED <<part, tokenVars, limiterVars, bearerVars>>
  \/ part = "token" /\ T!Next /\ UNCHANGED <<part, setupVars, limiterVars, bearerVars>>
  \/ /\ part = "limiter" /\ L!Next
     /\ UNCHANGED <<part, setupVars, tokenVars, endpointVars, bearerVars>>
  \/ /\ part = "bearer" /\ B!Next
     /\ UNCHANGED <<part, setupVars, tokenVars, limiterVars, codeStore, work, codes>>

ServerSpec == ServerInit /\ [][ServerNext]_<<vars, part, tokenVars, limiterVars, bearerVars>>

-----------------------------------------------------------------------------
(* Properties: those of the parts.                                          *)

\* However its pages are submitted (completeAuthorization), an authorization ends in at
\* most one code, and whose credential it carries is decided by what InvenTree answered
\* to CreateDedicatedCredential; a bootstrap request (handleBootstrap) ends in at most
\* one bearer token, with a token made for it that nothing has replaced.
MintedOnce ==
  /\ part = "authorization" => OneCodePerAuthorization /\ CredentialOfCode
  /\ part = "bearer" => B!DedicatedToken

\* A page rendered again keeps the deadline of its authorization (renderSetup), and a
\* bearer token stays accepted over a restart with other keys as long as its own can be
\* read (Keyring, AccessTokenVerifier).
StaysValid ==
  /\ [][part = "authorization" =>
          \A id \in 1..Len(pages) : \A later \in 1..Len(pages') :
            pages[id].auth = pages'[later].auth => pages'[later].expiry = pages[id].expiry]_pages
  /\ [][part = "bearer" => B!RotationKept]_config

\* ExchangeAuthorizationCode and Refresh keep to one session for each code, and
\* a chain of refreshes leaves neither the time nor the client of its session.
OneSession == part = "token" => T!OneSessionPerCode /\ T!SessionConfined

\* AssertionReplayStore.Use accepts an assertion once in the life of the process.
UsedOnce == part = "token" => T!AssertionUsedOnce

\* No Window of time sees more than twice the Limit of a key's requests allowed,
\* and a key is turned away only for requests that were allowed, or for a full
\* table (RequestRateLimiter.Allow).
TwiceTheLimit == part = "limiter" => L!TwiceTheLimitAtMost /\ L!DeniedForCause
=============================================================================
