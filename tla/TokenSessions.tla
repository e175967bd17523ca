----------------------------- MODULE TokenSessions -----------------------------
(***************************************************************************)
(* The token endpoint (internal/oauth/authorization_server.go handleToken,   *)
(* service.go, private_key_jwt.go): a client authenticates with a one-time   *)
(* assertion and exchanges an authorization code, or a refresh token, for an *)
(* access and a refresh token.  Everything a token grants is sealed in it;   *)
(* the server keeps only the code IDs not yet used and the assertions used.  *)
(*                                                                          *)
(* Tokens, codes and assertions, once made, can be presented by anybody at   *)
(* any time, repeatedly and concurrently, also after a restart.  Whether the *)
(* upstream credential is still good (Refresh asks InvenTree) is external.   *)
(***************************************************************************)
EXTENDS CodeStore, Sequences

CONSTANTS
  Requests,         \* concurrent token requests
  Clients,
  Assertions,       \* client assertions: (client, jti, exp)
  MaxCodes,         \* bound of the model
  MaxTokens,        \* bound of the model: token pairs issued
  MaxTime,          \* bound of the model
  MaxRestarts,      \* bound of the model
  CodeLifetime, AccessLifetime, RefreshLifetime, SessionLifetime,
  StoreMax          \* limit of both stores

VARIABLES
  now,
  codeStore,  \* Service.CodeStore
  replay,     \* AssertionReplayStore
  codes,      \* the sealed codes issued
  pairs,      \* the sealed token pairs issued
  work,       \* what each token request is doing
  accepted,   \* history: how often each assertion was accepted since the restart
  exchanged,  \* history: when each code was used up, and how often
  restarts

vars == <<now, codeStore, replay, codes, pairs, work, accepted, exchanged, restarts>>

Code == [client : Clients, expiry : Nat]
Pair == [client : Clients, code : 1..MaxCodes, issued : Nat, access : Nat,
         refresh : Nat, session : Nat]
Idle == [stage |-> "idle"]
Work == [stage : {"authenticated", "exchanging", "refreshing", "sealing"},
         client : Clients, code : 0..MaxCodes, session : Nat]

TypeOK ==
  /\ now \in 0..MaxTime /\ restarts \in 0..MaxRestarts
  /\ Cardinality(Ids(codeStore)) <= StoreMax
  /\ \A id \in Ids(codeStore) : id \in 1..Len(codes) /\ codeStore[id] = codes[id].expiry
  /\ Ids(replay) \subseteq Assertions /\ Cardinality(Ids(replay)) <= StoreMax
  /\ Len(codes) <= MaxCodes /\ \A id \in 1..Len(codes) : codes[id] \in Code
  /\ Len(pairs) <= MaxTokens /\ \A n \in 1..Len(pairs) : pairs[n] \in Pair
  /\ DOMAIN work = Requests /\ \A r \in Requests : work[r] \in Work \cup {Idle}
  /\ accepted \in [Assertions -> Nat]
  /\ exchanged \in [1..MaxCodes -> SUBSET (0..MaxTime)]

Init ==
  /\ now = 0 /\ codeStore = EmptyStore /\ replay = EmptyStore
  /\ codes = <<>> /\ pairs = <<>> /\ work = [r \in Requests |-> Idle]
  /\ accepted = [a \in Assertions |-> 0]
  /\ exchanged = [id \in 1..MaxCodes |-> {}] /\ restarts = 0

-----------------------------------------------------------------------------
(* A faulty variant stands before the operator it varies.                   *)

\* AssertionReplayStore.Use: unexpired, unused, and room to remember it.
AtItsExpiry(a) == a[3] >= now /\ Cardinality(Ids(Purged(replay, now))) < StoreMax /\
                  a \notin Ids(Purged(replay, now))
Fresh(a) == CanStore(replay, a, a[3], now, StoreMax)

\* AuthorizationCodeClaims.validateForUse: the code is the client's own.
Presentable(id, client) == codes[id].client = client /\ codes[id].expiry > now

\* The code IDs an exchange leaves.
UsesUp(id) == WithoutId(codeStore, id, now)

\* TokenClaims.validateForUse: a refresh token in its lifetime and its session.
RefreshUsable(p, client) ==
  /\ p.client = client
  /\ p.refresh > now /\ p.refresh > p.issued
  /\ p.session > now /\ p.refresh <= p.session

\* The session a refreshed pair belongs to.
NewSession(p) == now + SessionLifetime
SameSession(p) == p.session

\* issuePair: neither token outlives the session.
Capped(t, session) == IF session < t THEN session ELSE t

-----------------------------------------------------------------------------

\* IssueAuthorizationCode (AuthorizationSetup).
IssueCode(client) ==
  LET id == Len(codes) + 1  expiry == now + CodeLifetime IN
  /\ Len(codes) < MaxCodes
  /\ CanStore(codeStore, id, expiry, now, StoreMax)
  /\ codeStore' = WithId(codeStore, id, expiry, now)
  /\ codes' = Append(codes, [client |-> client, expiry |-> expiry])
  /\ UNCHANGED <<now, replay, pairs, work, accepted, exchanged, restarts>>

\* handleToken up to the verified assertion, which is used up whatever follows.
Authenticate(r, a, client) ==
  /\ work[r] = Idle /\ a[1] = client /\ Fresh(a)
  /\ replay' = WithId(replay, a, a[3], now)
  /\ accepted' = [accepted EXCEPT ![a] = IF @ < 2 THEN @ + 1 ELSE @]
  /\ work' = [work EXCEPT ![r] = [stage |-> "authenticated", client |-> client,
                                   code |-> 0, session |-> 0]]
  /\ UNCHANGED <<now, codeStore, codes, pairs, exchanged, restarts>>

Ends(r) == work' = [work EXCEPT ![r] = Idle]

\* ExchangeAuthorizationCode, up to the checks of the claims.
PresentCode(r, id) ==
  /\ work[r].stage = "authenticated" /\ id <= Len(codes)
  /\ IF Presentable(id, work[r].client)
     THEN work' = [work EXCEPT ![r].stage = "exchanging", ![r].code = id]
     ELSE Ends(r)
  /\ UNCHANGED <<now, codeStore, replay, codes, pairs, accepted, exchanged, restarts>>

\* CodeStore.Consume; the session starts when the code is used up.
ConsumeCode(r) ==
  LET id == work[r].code IN
  /\ work[r].stage = "exchanging"
  /\ IF CanConsume(codeStore, id, now)
     THEN /\ codeStore' = UsesUp(id)
          /\ exchanged' = [exchanged EXCEPT ![id] = @ \cup {now}]
          /\ work' = [work EXCEPT ![r].stage = "sealing", ![r].session = now + SessionLifetime]
     ELSE Ends(r) /\ codeStore' = Purged(codeStore, now) /\ UNCHANGED exchanged
  /\ UNCHANGED <<now, replay, codes, pairs, accepted, restarts>>

\* Refresh, up to the checks of the claims.
PresentRefresh(r, n) ==
  /\ work[r].stage = "authenticated" /\ n <= Len(pairs)
  /\ IF RefreshUsable(pairs[n], work[r].client)
     THEN work' = [work EXCEPT ![r].stage = "refreshing", ![r].code = pairs[n].code,
                                ![r].session = SameSession(pairs[n])]
     ELSE Ends(r)
  /\ UNCHANGED <<now, codeStore, replay, codes, pairs, accepted, exchanged, restarts>>

\* CredentialValidator.ValidateCredential answers.
Validate(r, ok) ==
  /\ work[r].stage = "refreshing"
  /\ IF ok THEN work' = [work EXCEPT ![r].stage = "sealing"] ELSE Ends(r)
  /\ UNCHANGED <<now, codeStore, replay, codes, pairs, accepted, exchanged, restarts>>

\* issuePair, at a time of its own.
IssuePair(r) ==
  LET w == work[r] IN
  /\ w.stage = "sealing" /\ Len(pairs) < MaxTokens
  /\ pairs' = Append(pairs, [client |-> w.client, code |-> w.code, issued |-> now,
       access |-> Capped(now + AccessLifetime, w.session),
       refresh |-> Capped(now + RefreshLifetime, w.session), session |-> w.session])
  /\ Ends(r)
  /\ UNCHANGED <<now, codeStore, replay, codes, accepted, exchanged, restarts>>

\* The service restarts: what it kept in memory is gone, the tokens are not.
Restart ==
  /\ restarts < MaxRestarts /\ restarts' = restarts + 1
  /\ codeStore' = EmptyStore /\ replay' = EmptyStore
  /\ work' = [r \in Requests |-> Idle]
  /\ accepted' = [a \in Assertions |-> 0]
  /\ UNCHANGED <<now, codes, pairs, exchanged>>

Tick ==
  /\ now < MaxTime /\ now' = now + 1
  /\ UNCHANGED <<codeStore, replay, codes, pairs, work, accepted, exchanged, restarts>>

Next ==
  \/ \E client \in Clients : IssueCode(client)
  \/ \E r \in Requests :
       \/ \E a \in Assertions : Authenticate(r, a, a[1])
       \/ \E id \in 1..MaxCodes : work[r] # Idle /\ PresentCode(r, id)
       \/ ConsumeCode(r)
       \/ \E n \in 1..MaxTokens : work[r] # Idle /\ PresentRefresh(r, n)
       \/ \E ok \in BOOLEAN : Validate(r, ok)
       \/ IssuePair(r)
  \/ Restart
  \/ Tick

Spec == Init /\ [][Next]_vars

-----------------------------------------------------------------------------
(* Properties.                                                              *)

Issued == {pairs[n] : n \in 1..Len(pairs)}

\* A code opens one session: every pair that descends from it, through any
\* chain of refreshes, concurrent exchanges and restarts, shares one session end,
\* SessionLifetime after the one time the code was used up.
OneSessionPerCode ==
  \A p \in Issued : exchanged[p.code] = {p.session - SessionLifetime}

\* No token is usable after its session, and a session is over SessionLifetime
\* after the code it came from expired at the latest: refreshing never extends it.
SessionIsBounded ==
  \A p \in Issued :
    /\ p.access <= p.session /\ p.refresh <= p.session
    /\ p.session < codes[p.code].expiry + SessionLifetime

\* A pair belongs to the client its code was issued to, whoever presented the
\* code or a refresh token of the session.
PairsStayWithClient ==
  \A p \in Issued : p.client = codes[p.code].client

\* A chain of refreshes leaves neither the time nor the client of its session.
SessionConfined == SessionIsBounded /\ PairsStayWithClient

\* An assertion authenticates one request in the life of the process: it is
\* remembered for as long as it is valid.
AssertionUsedOnce == \A a \in Assertions : accepted[a] <= 1
=============================================================================
