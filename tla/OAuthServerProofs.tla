--------------------------- MODULE OAuthServerProofs ---------------------------
(***************************************************************************)
(* Proofs about the OAuth server, for any number of requests, clients, pages *)
(* and tokens, any lifetimes and any limits.                                *)
(*                                                                          *)
(* Each part has an inductive invariant of its own.  What the checked ones    *)
(* lack is in all three the same: what a request has read or used up before   *)
(* it answers, and what that excludes for every other.                       *)
(***************************************************************************)
EXTENDS OAuthServer, FiniteSetTheorems, TLAPS

\* The bounds, limits and lifetimes are numbers, and an assertion names a client and a time.
LEMMA Bounds ==
  /\ MaxCodes \in Nat /\ MaxTokens \in Nat /\ MaxAuthorizations \in Nat
  /\ CodeLifetime \in Nat /\ CodeLifetime > 0
  /\ AccessLifetime \in Nat /\ RefreshLifetime \in Nat /\ SessionLifetime \in Nat
  /\ EnvelopeLifetime \in Nat
  /\ \A x \in Assertions : x[1] \in Clients /\ x[3] \in Nat
BY SetupAssumption, ServerAssumption

-----------------------------------------------------------------------------
(* The token endpoint.                                                       *)

TokenTypes ==
  /\ now \in Nat
  /\ codes \in Seq(T!Code) /\ Len(codes) <= MaxCodes
  /\ pairs \in Seq(T!Pair)
  /\ work \in [Requests -> T!Work \cup {T!Idle}]
  /\ accepted \in [Assertions -> Nat]
  /\ exchanged \in [1..MaxCodes -> SUBSET Nat]

\* A code that can be used up has not been, and one that is not issued neither.
UnusedCodes ==
  /\ DOMAIN codeStore \subseteq 1..Len(codes)
  /\ \A id \in DOMAIN codeStore : codeStore[id] = codes[id].expiry
  /\ \A id \in 1..MaxCodes :
       id \in DOMAIN codeStore \/ id > Len(codes) => exchanged[id] = {}

\* A session belongs to the client of its code, and started when that was used up.
SessionOf(issued, used, code, client, session) ==
  /\ code \in 1..Len(issued) /\ client = issued[code].client
  /\ session \in Nat
  /\ used[code] = {session - SessionLifetime}
  /\ session < issued[code].expiry + SessionLifetime

\* A pair is of its session and does not outlast it.
PairOfSession(issued, used, pair) ==
  /\ SessionOf(issued, used, pair.code, pair.client, pair.session)
  /\ pair.access <= pair.session /\ pair.refresh <= pair.session

\* A request has checked that the code is its client's, and then the session.
RequestOfSession(issued, used, w) ==
  /\ w.stage = "exchanging" =>
       w.code \in 1..Len(issued) /\ w.client = issued[w.code].client
  /\ w.stage \in {"refreshing", "sealing"} =>
       SessionOf(issued, used, w.code, w.client, w.session)

\* All the requests under way, and all the pairs issued.
Sessions ==
  /\ \A r \in Requests : RequestOfSession(codes, exchanged, work[r])
  /\ \A n \in 1..Len(pairs) : PairOfSession(codes, exchanged, pairs[n])

\* An assertion accepted is remembered until it expires.
AssertionsRemembered ==
  /\ DOMAIN replay \subseteq Assertions
  /\ \A x \in DOMAIN replay : replay[x] = x[3]
  /\ \A x \in Assertions : accepted[x] # 0 =>
       accepted[x] = 1 /\ (x \in DOMAIN replay \/ x[3] <= now)

TokenInv == TokenTypes /\ UnusedCodes /\ Sessions /\ AssertionsRemembered

\* The token endpoint starts with nothing issued.
LEMMA TokenStart == T!Init => TokenInv
<1> SUFFICES ASSUME T!Init PROVE TokenInv
  OBVIOUS
<1> USE DEF T!Init, T!EmptyStore, T!Idle
<1>1. TokenTypes
  BY Bounds DEF TokenTypes
<1>2. UnusedCodes /\ Sessions
  BY DEF UnusedCodes, Sessions, RequestOfSession
<1>3. AssertionsRemembered
  BY DEF AssertionsRemembered
<1>4. QED
  BY <1>1, <1>2, <1>3 DEF TokenInv

\* Every step of the token endpoint keeps the invariant.
LEMMA TokenStep == TokenInv /\ [T!Next]_T!vars => TokenInv'
<1> SUFFICES ASSUME TokenInv, [T!Next]_T!vars PROVE TokenInv'
  OBVIOUS
<1>0. /\ TokenTypes /\ UnusedCodes /\ Sessions /\ AssertionsRemembered
      /\ Len(codes) \in Nat /\ Len(pairs) \in Nat /\ 1..Len(codes) \subseteq 1..MaxCodes
  <2>1. /\ TokenTypes /\ UnusedCodes /\ Sessions /\ AssertionsRemembered
        /\ Len(codes) \in Nat /\ Len(pairs) \in Nat
    BY DEF TokenInv, TokenTypes
  <2>2. Len(codes) <= MaxCodes
    BY <2>1 DEF TokenTypes
  <2>3. QED
    BY <2>1, <2>2, Bounds
<1>1. ASSUME NEW client \in Clients, T!IssueCode(client)
      PROVE  TokenInv'
  <2> DEFINE code == [client |-> client, expiry |-> now + CodeLifetime]
  <2>1. /\ codes' = Append(codes, code) /\ Len(codes) < MaxCodes
        /\ codeStore' = T!WithId(codeStore, Len(codes) + 1, now + CodeLifetime, now)
        /\ UNCHANGED <<now, replay, pairs, work, accepted, exchanged>>
    BY <1>1 DEF T!IssueCode
  <2>2. code \in T!Code
    BY <1>0, Bounds DEF T!Code, TokenTypes
  <2>3. /\ codes' \in Seq(T!Code) /\ Len(codes') = Len(codes) + 1
        /\ \A id \in 1..Len(codes) : codes'[id] = codes[id]
        /\ codes'[Len(codes) + 1] = code /\ code.expiry = now + CodeLifetime
    BY <1>0, <2>1, <2>2 DEF TokenTypes
  <2>4. TokenTypes'
    BY <1>0, <2>1, <2>3, Bounds DEF TokenTypes
  <2>5. /\ DOMAIN codeStore' \subseteq DOMAIN codeStore \cup {Len(codes) + 1}
        /\ \A id \in DOMAIN codeStore' :
             codeStore'[id] = IF id = Len(codes) + 1 THEN now + CodeLifetime
                              ELSE codeStore[id]
    BY <2>1 DEF T!WithId, T!Purged, T!Restrict, T!Ids
  <2>6. UnusedCodes'
    <3>0. Len(codes) \in Nat /\ Len(codes) + 1 \in 1..MaxCodes
      BY <1>0, <2>1, Bounds DEF TokenTypes
    <3>1. Len(codes) \in Nat /\ exchanged[Len(codes) + 1] = {}
      BY <1>0, <3>0 DEF UnusedCodes
    <3> HIDE DEF code
    <3>2. DOMAIN codeStore' \subseteq 1..Len(codes')
      BY <1>0, <2>3, <2>5, <3>1 DEF UnusedCodes
    <3>3. \A id \in DOMAIN codeStore' : codeStore'[id] = codes'[id].expiry
      BY <1>0, <2>3, <2>5, <3>1 DEF UnusedCodes
    <3>4. \A id \in 1..MaxCodes :
            id \in DOMAIN codeStore' \/ id > Len(codes') => exchanged'[id] = {}
      BY <1>0, <2>1, <2>3, <2>5, <3>1 DEF UnusedCodes
    <3>5. QED
      BY <3>2, <3>3, <3>4 DEF UnusedCodes
  <2>7. Sessions'
    BY <1>0, <2>1, <2>3 DEF Sessions, RequestOfSession, PairOfSession, SessionOf, TokenTypes
  <2>8. AssertionsRemembered'
    BY <1>0, <2>1 DEF AssertionsRemembered
  <2>9. QED
    BY <2>4, <2>6, <2>7, <2>8 DEF TokenInv
<1>2. ASSUME NEW r \in Requests, NEW x \in Assertions, T!Authenticate(r, x, x[1])
      PROVE  TokenInv'
  <2>1. /\ work' = [work EXCEPT ![r] = [stage |-> "authenticated", client |-> x[1],
                                          code |-> 0, session |-> 0]]
        /\ replay' = T!WithId(replay, x, x[3], now)
        /\ accepted' = [accepted EXCEPT ![x] = IF @ < 2 THEN @ + 1 ELSE @]
        /\ UNCHANGED <<now, codeStore, codes, pairs, exchanged>>
        /\ x[3] > now /\ x \notin T!Ids(T!Purged(replay, now))
    BY <1>2 DEF T!Authenticate, T!Fresh, T!CanStore
  <2>2. x[1] \in Clients /\ x[3] \in Nat /\ MaxCodes \in Nat
    BY Bounds
  <2>3. /\ work' \in [Requests -> T!Work \cup {T!Idle}]
        /\ work'[r].stage = "authenticated"
        /\ \A q \in Requests : q # r => work'[q] = work[q]
    BY <1>0, <2>1, <2>2 DEF TokenTypes, T!Work
  <2>4. TokenTypes'
    BY <1>0, <2>1, <2>3 DEF TokenTypes
  <2>k. \A y : /\ RequestOfSession(codes, exchanged, y) => RequestOfSession(codes', exchanged', y)
              /\ PairOfSession(codes, exchanged, y) => PairOfSession(codes', exchanged', y)
    BY <2>1 DEF RequestOfSession, PairOfSession, SessionOf
  <2>s. Sessions'
    BY <1>0, <2>1, <2>3, <2>k DEF Sessions, RequestOfSession
  <2>5. UnusedCodes' /\ Sessions'
    BY <1>0, <2>1, <2>s DEF UnusedCodes
  <2>6. /\ x \in DOMAIN replay => replay[x] <= now
        /\ DOMAIN replay' = {y \in DOMAIN replay : replay[y] > now} \cup {x}
        /\ \A y \in DOMAIN replay' : replay'[y] = IF y = x THEN x[3] ELSE replay[y]
    BY <1>0, <2>1, <2>2 DEF T!WithId, T!Purged, T!Restrict, T!Ids, AssertionsRemembered,
       TokenTypes
  <2>7. accepted[x] = 0
    BY <1>0, <2>1, <2>2, <2>6 DEF AssertionsRemembered, TokenTypes
  <2>8. AssertionsRemembered'
    <3>1. DOMAIN replay' \subseteq Assertions /\ \A y \in DOMAIN replay' : replay'[y] = y[3]
      BY <1>0, <2>6 DEF AssertionsRemembered
    <3>2. ASSUME NEW y \in Assertions, accepted'[y] # 0
          PROVE  accepted'[y] = 1 /\ (y \in DOMAIN replay' \/ y[3] <= now')
      <4>1. CASE y = x
        BY <1>0, <2>1, <2>6, <2>7, <4>1 DEF TokenTypes
      <4>2. CASE y # x
        <5>1. accepted'[y] = accepted[y] /\ y[3] \in Nat
          BY <1>0, <2>1, <4>2, Bounds DEF TokenTypes
        <5>2. accepted[y] = 1 /\ (y \in DOMAIN replay \/ y[3] <= now)
          BY <1>0, <3>2, <5>1 DEF AssertionsRemembered
        <5>3. y \in DOMAIN replay => replay[y] = y[3]
          BY <1>0 DEF AssertionsRemembered
        <5>4. QED
          BY <1>0, <2>1, <2>6, <5>1, <5>2, <5>3 DEF TokenTypes
      <4>3. QED
        BY <4>1, <4>2
    <3>3. QED
      BY <3>1, <3>2 DEF AssertionsRemembered
  <2>9. QED
    BY <2>4, <2>5, <2>8 DEF TokenInv
<1>3. ASSUME NEW r \in Requests, NEW id \in 1..MaxCodes, T!PresentCode(r, id)
      PROVE  TokenInv'
  <2>1. /\ UNCHANGED <<now, codeStore, replay, codes, pairs, accepted, exchanged>>
        /\ work[r].stage = "authenticated" /\ id \in 1..Len(codes)
        /\ \/ /\ codes[id].client = work[r].client
              /\ work' = [work EXCEPT ![r].stage = "exchanging", ![r].code = id]
           \/ work' = [work EXCEPT ![r] = T!Idle]
    BY <1>0, <1>3 DEF T!PresentCode, T!Presentable, T!Ends, TokenTypes
  <2>2. work[r] \in T!Work
    BY <1>0, <2>1 DEF TokenTypes, T!Idle
  <2>3. /\ work' \in [Requests -> T!Work \cup {T!Idle}]
        /\ \A q \in Requests : q # r => work'[q] = work[q]
        /\ \/ /\ codes[id].client = work[r].client /\ work'[r].client = work[r].client
              /\ work'[r].stage = "exchanging" /\ work'[r].code = id
           \/ work'[r].stage = "idle"
    <3> DEFINE w == [work[r] EXCEPT !.stage = "exchanging", !.code = id]
    <3>1. /\ w \in T!Work /\ w.client = work[r].client /\ w.stage = "exchanging"
          /\ w.code = id
      <4>1. id \in 0..MaxCodes
        BY <1>3, Bounds
      <4>2. QED
        BY <2>2, <4>1 DEF T!Work
    <3>2. \/ work' = [work EXCEPT ![r] = w] /\ codes[id].client = work[r].client
          \/ work' = [work EXCEPT ![r] = T!Idle] /\ T!Idle.stage = "idle"
      BY <2>1 DEF T!Idle
    <3> HIDE DEF w
    <3>3. QED
      BY <1>0, <3>1, <3>2 DEF TokenTypes
  <2>4. TokenTypes'
    BY <1>0, <2>1, <2>3 DEF TokenTypes
  <2>5. UnusedCodes' /\ AssertionsRemembered'
    BY <1>0, <2>1 DEF UnusedCodes, AssertionsRemembered
  <2>k. \A x : /\ RequestOfSession(codes, exchanged, x) => RequestOfSession(codes', exchanged', x)
              /\ PairOfSession(codes, exchanged, x) => PairOfSession(codes', exchanged', x)
    BY <2>1 DEF RequestOfSession, PairOfSession, SessionOf
  <2>r. RequestOfSession(codes', exchanged', work'[r])
    BY <2>1, <2>3 DEF RequestOfSession
  <2>6. Sessions'
    BY <1>0, <2>1, <2>3, <2>k, <2>r DEF Sessions
  <2>7. QED
    BY <2>4, <2>5, <2>6 DEF TokenInv
<1>4. ASSUME NEW r \in Requests, T!ConsumeCode(r)
      PROVE  TokenInv'
  <2> DEFINE id == work[r].code
  <2>1. /\ UNCHANGED <<now, replay, codes, pairs, accepted>>
        /\ work[r].stage = "exchanging"
        /\ id \in 1..Len(codes) /\ work[r].client = codes[id].client
    BY <1>0, <1>4 DEF T!ConsumeCode, Sessions, RequestOfSession
  <2>2. work[r] \in T!Work /\ id \in 1..MaxCodes
    BY <1>0, <2>1, Bounds DEF TokenTypes, T!Idle
  <2>3. AssertionsRemembered'
    BY <1>0, <2>1 DEF AssertionsRemembered
  <2>4. CASE /\ codeStore' = T!WithoutId(codeStore, id, now)
             /\ id \in DOMAIN codeStore /\ codeStore[id] > now
             /\ exchanged' = [exchanged EXCEPT ![id] = @ \cup {now}]
             /\ work' = [work EXCEPT ![r].stage = "sealing",
                                     ![r].session = now + SessionLifetime]
    <3>1. /\ exchanged[id] = {} /\ codes[id].expiry > now
          /\ now \in Nat /\ SessionLifetime \in Nat
      BY <1>0, <2>1, <2>2, <2>4, Bounds DEF UnusedCodes, TokenTypes
    <3>2. exchanged' = [exchanged EXCEPT ![id] = {now}]
      BY <2>4, <3>1
    <3> DEFINE w == [work[r] EXCEPT !.stage = "sealing", !.session = now + SessionLifetime]
    <3>a. /\ w \in T!Work /\ w.stage = "sealing" /\ w.session = now + SessionLifetime
          /\ w.code = id /\ w.client = work[r].client
      <4>1. \A v \in T!Work, t \in Nat :
              LET u == [v EXCEPT !.stage = "sealing", !.session = t]
              IN  /\ u \in T!Work /\ u.stage = "sealing" /\ u.session = t
                  /\ u.code = v.code /\ u.client = v.client
        BY DEF T!Work
      <4>2. now + SessionLifetime \in Nat
        BY <3>1
      <4>3. QED
        BY <2>2, <4>1, <4>2
    <3>b. work' = [work EXCEPT ![r] = w]
      BY <2>4
    <3> HIDE DEF w
    <3>3. /\ work' \in [Requests -> T!Work \cup {T!Idle}]
          /\ \A q \in Requests : q # r => work'[q] = work[q]
          /\ work'[r].stage = "sealing" /\ work'[r].session = now + SessionLifetime
          /\ work'[r].code = id /\ work'[r].client = work[r].client
      BY <1>0, <3>a, <3>b DEF TokenTypes
    <3>4. TokenTypes'
      BY <1>0, <2>1, <3>2, <3>3 DEF TokenTypes
    <3>5. /\ DOMAIN codeStore' \subseteq DOMAIN codeStore \ {id}
          /\ \A i \in DOMAIN codeStore' : codeStore'[i] = codeStore[i]
      BY <2>4 DEF T!WithoutId, T!Purged, T!Restrict, T!Ids
    <3>6. UnusedCodes'
      BY <1>0, <2>1, <2>2, <3>2, <3>5 DEF UnusedCodes, TokenTypes
    <3>7. ASSUME NEW code, NEW client, NEW session, SessionOf(codes, exchanged, code, client, session)
          PROVE  SessionOf(codes', exchanged', code, client, session)
      <4>1. code # id
        BY <3>1, <3>7 DEF SessionOf
      <4>2. code \in 1..MaxCodes
        BY <1>0, <3>7, Bounds DEF SessionOf, TokenTypes
      <4>3. QED
        BY <1>0, <2>1, <3>2, <3>7, <4>1, <4>2 DEF SessionOf, TokenTypes
    <3>8. SessionOf(codes', exchanged', work'[r].code, work'[r].client, work'[r].session)
      <4>1. exchanged'[id] = {now} /\ (now + SessionLifetime) - SessionLifetime = now
        BY <1>0, <2>2, <3>1, <3>2 DEF TokenTypes
      <4>2. codes[id] \in T!Code
        BY <1>0, <2>1 DEF TokenTypes
      <4>3. now + SessionLifetime < codes[id].expiry + SessionLifetime
        BY <3>1, <4>2 DEF T!Code
      <4>4. QED
        BY <2>1, <3>1, <3>3, <4>1, <4>3 DEF SessionOf
    <3>9. Sessions'
      <4>1. \A x : PairOfSession(codes, exchanged, x) => PairOfSession(codes', exchanged', x)
        BY <3>7 DEF PairOfSession
      <4>2. \A x : RequestOfSession(codes, exchanged, x) => RequestOfSession(codes', exchanged', x)
        BY <2>1, <3>7 DEF RequestOfSession
      <4>3. RequestOfSession(codes', exchanged', work'[r])
        BY <3>3, <3>8 DEF RequestOfSession
      <4>4. QED
        BY <1>0, <2>1, <3>3, <4>1, <4>2, <4>3 DEF Sessions
    <3>10. QED
      BY <2>3, <3>4, <3>6, <3>9 DEF TokenInv
  <2>5. CASE /\ work' = [work EXCEPT ![r] = T!Idle]
             /\ codeStore' = T!Purged(codeStore, now) /\ UNCHANGED exchanged
    <3>1. /\ work' \in [Requests -> T!Work \cup {T!Idle}] /\ work'[r].stage = "idle"
          /\ \A q \in Requests : q # r => work'[q] = work[q]
      BY <1>0, <2>5 DEF TokenTypes, T!Idle
    <3>2. /\ DOMAIN codeStore' \subseteq DOMAIN codeStore
          /\ \A i \in DOMAIN codeStore' : codeStore'[i] = codeStore[i]
      BY <2>5 DEF T!Purged, T!Restrict, T!Ids
    <3>3. TokenTypes' /\ UnusedCodes'
      BY <1>0, <2>1, <2>5, <3>1, <3>2 DEF TokenTypes, UnusedCodes
    <3>4. Sessions'
      BY <1>0, <2>1, <2>5, <3>1 DEF Sessions, RequestOfSession, PairOfSession, SessionOf
    <3>5. QED
      BY <2>3, <3>3, <3>4 DEF TokenInv
  <2>6. QED
    BY <1>4, <2>4, <2>5
       DEF T!ConsumeCode, T!CanConsume, T!UsesUp, T!Purged, T!Restrict, T!Ids, T!Ends
<1>5. ASSUME NEW r \in Requests, NEW n \in 1..MaxTokens, T!PresentRefresh(r, n)
      PROVE  TokenInv'
  <2>1. /\ UNCHANGED <<now, codeStore, replay, codes, pairs, accepted, exchanged>>
        /\ work[r].stage = "authenticated" /\ n \in 1..Len(pairs)
        /\ \/ /\ pairs[n].client = work[r].client
              /\ work' = [work EXCEPT ![r].stage = "refreshing", ![r].code = pairs[n].code,
                                      ![r].session = pairs[n].session]
           \/ work' = [work EXCEPT ![r] = T!Idle]
    <3>1. /\ UNCHANGED <<now, codeStore, replay, codes, pairs, accepted, exchanged>>
          /\ work[r].stage = "authenticated"
      BY <1>5 DEF T!PresentRefresh
    <3>2. n \in 1..Len(pairs)
      <4>1. n <= Len(pairs)
        BY <1>5 DEF T!PresentRefresh
      <4>2. Len(pairs) \in Nat /\ MaxTokens \in Nat
        BY <1>0, Bounds DEF TokenTypes
      <4>3. QED
        BY <4>1, <4>2
    <3>3. \/ T!RefreshUsable(pairs[n], work[r].client)
             /\ work' = [work EXCEPT ![r].stage = "refreshing", ![r].code = pairs[n].code,
                                     ![r].session = T!SameSession(pairs[n])]
          \/ T!Ends(r)
      BY <1>5 DEF T!PresentRefresh
    <3>4. QED
      BY <3>1, <3>2, <3>3 DEF T!RefreshUsable, T!SameSession, T!Ends
  <2>2. work[r] \in T!Work /\ pairs[n] \in T!Pair
    BY <1>0, <2>1 DEF TokenTypes, T!Idle
  <2> DEFINE w == [work[r] EXCEPT !.stage = "refreshing", !.code = pairs[n].code,
                                  !.session = pairs[n].session]
  <2>a. /\ w \in T!Work /\ w.client = work[r].client /\ w.stage = "refreshing"
        /\ w.code = pairs[n].code /\ w.session = pairs[n].session
    <3>2. pairs[n].code \in 0..MaxCodes /\ pairs[n].session \in Nat
      BY <2>2, Bounds DEF T!Pair
    <3>3. PICK v \in T!Work, c \in 0..MaxCodes, t \in Nat :
            v = work[r] /\ c = pairs[n].code /\ t = pairs[n].session
      BY <2>2, <3>2
    <3>4. w = [v EXCEPT !.stage = "refreshing", !.code = c, !.session = t]
      BY <3>3
    <3> HIDE DEF w
    <3>5. /\ w \in T!Work /\ w.client = v.client /\ w.stage = "refreshing"
          /\ w.code = c /\ w.session = t
      BY <3>4 DEF T!Work
    <3>6. QED
      BY <3>3, <3>5
  <2>b. \/ work' = [work EXCEPT ![r] = w] /\ w.client = pairs[n].client
        \/ work' = [work EXCEPT ![r] = T!Idle] /\ T!Idle.stage = "idle"
    BY <2>1, <2>a DEF T!Idle
  <2> HIDE DEF w
  <2>3. /\ work' \in [Requests -> T!Work \cup {T!Idle}]
        /\ \A q \in Requests : q # r => work'[q] = work[q]
        /\ \/ /\ work'[r].client = pairs[n].client /\ work'[r].stage = "refreshing"
              /\ work'[r].code = pairs[n].code /\ work'[r].session = pairs[n].session
           \/ work'[r].stage = "idle"
    BY <1>0, <2>a, <2>b DEF TokenTypes
  <2>4. TokenTypes'
    BY <1>0, <2>1, <2>3 DEF TokenTypes
  <2>5. UnusedCodes' /\ AssertionsRemembered'
    BY <1>0, <2>1 DEF UnusedCodes, AssertionsRemembered
  <2>6. \A x : /\ RequestOfSession(codes, exchanged, x) => RequestOfSession(codes', exchanged', x)
              /\ PairOfSession(codes, exchanged, x) => PairOfSession(codes', exchanged', x)
    BY <2>1 DEF RequestOfSession, PairOfSession, SessionOf
  <2>r. RequestOfSession(codes', exchanged', work'[r])
    BY <1>0, <2>1, <2>3 DEF Sessions, RequestOfSession, PairOfSession, SessionOf
  <2>7. Sessions'
    BY <1>0, <2>1, <2>3, <2>6, <2>r DEF Sessions
  <2>8. QED
    BY <2>4, <2>5, <2>7 DEF TokenInv
<1>6. ASSUME NEW r \in Requests, NEW ok \in BOOLEAN, T!Validate(r, ok)
      PROVE  TokenInv'
  <2>1. /\ UNCHANGED <<now, codeStore, replay, codes, pairs, accepted, exchanged>>
        /\ work[r].stage = "refreshing"
        /\ \/ work' = [work EXCEPT ![r].stage = "sealing"]
           \/ work' = [work EXCEPT ![r] = T!Idle]
    BY <1>6 DEF T!Validate, T!Ends
  <2>2. work[r] \in T!Work
    BY <1>0, <2>1 DEF TokenTypes, T!Idle
  <2> DEFINE w == [work[r] EXCEPT !.stage = "sealing"]
  <2>a. /\ w \in T!Work /\ w.client = work[r].client /\ w.stage = "sealing"
        /\ w.code = work[r].code /\ w.session = work[r].session
    BY <2>2 DEF T!Work
  <2>b. \/ work' = [work EXCEPT ![r] = w]
        \/ work' = [work EXCEPT ![r] = T!Idle] /\ T!Idle.stage = "idle"
    BY <2>1 DEF T!Idle
  <2> HIDE DEF w
  <2>3. /\ work' \in [Requests -> T!Work \cup {T!Idle}]
        /\ \A q \in Requests : q # r => work'[q] = work[q]
        /\ \/ /\ work'[r].client = work[r].client /\ work'[r].stage = "sealing"
              /\ work'[r].code = work[r].code /\ work'[r].session = work[r].session
           \/ work'[r].stage = "idle"
    BY <1>0, <2>a, <2>b DEF TokenTypes
  <2>4. TokenTypes'
    BY <1>0, <2>1, <2>3 DEF TokenTypes
  <2>5. UnusedCodes' /\ AssertionsRemembered'
    BY <1>0, <2>1 DEF UnusedCodes, AssertionsRemembered
  <2>6. \A x : /\ RequestOfSession(codes, exchanged, x) => RequestOfSession(codes', exchanged', x)
              /\ PairOfSession(codes, exchanged, x) => PairOfSession(codes', exchanged', x)
    BY <2>1 DEF RequestOfSession, PairOfSession, SessionOf
  <2>r. RequestOfSession(codes', exchanged', work'[r])
    BY <1>0, <2>1, <2>3 DEF Sessions, RequestOfSession, SessionOf
  <2>7. Sessions'
    BY <1>0, <2>1, <2>3, <2>6, <2>r DEF Sessions
  <2>8. QED
    BY <2>4, <2>5, <2>7 DEF TokenInv
<1>7. ASSUME NEW r \in Requests, T!IssuePair(r)
      PROVE  TokenInv'
  <2> DEFINE w == work[r]
             pair == [client |-> w.client, code |-> w.code, issued |-> now,
                      access |-> T!Capped(now + AccessLifetime, w.session),
                      refresh |-> T!Capped(now + RefreshLifetime, w.session),
                      session |-> w.session]
  <2>1. /\ UNCHANGED <<now, codeStore, replay, codes, accepted, exchanged>>
        /\ pairs' = Append(pairs, pair) /\ work' = [work EXCEPT ![r] = T!Idle]
        /\ w.stage = "sealing"
    BY <1>7 DEF T!IssuePair, T!Ends
  <2>2. SessionOf(codes, exchanged, w.code, w.client, w.session) /\ w \in T!Work
    BY <1>0, <2>1 DEF Sessions, RequestOfSession, TokenTypes, T!Idle
  <2>3. w.session \in Nat /\ w.client \in Clients /\ w.code \in 1..MaxCodes /\ now \in Nat
    BY <1>0, <2>2, Bounds DEF TokenTypes, T!Work, SessionOf
  <2>4. \A t \in Nat : T!Capped(t, w.session) \in Nat /\ T!Capped(t, w.session) <= w.session
    BY <2>3 DEF T!Capped
  <2>5. /\ pair.access \in Nat /\ pair.access <= pair.session
        /\ pair.refresh \in Nat /\ pair.refresh <= pair.session
    BY <2>3, <2>4, Bounds
  <2>6. pair \in T!Pair
    BY <2>3, <2>5 DEF T!Pair
  <2>7. /\ pairs' \in Seq(T!Pair) /\ Len(pairs') = Len(pairs) + 1
        /\ \A n \in 1..Len(pairs) : pairs'[n] = pairs[n]
        /\ pairs'[Len(pairs) + 1] = pair
    BY <1>0, <2>1, <2>6 DEF TokenTypes
  <2>8. /\ work' \in [Requests -> T!Work \cup {T!Idle}] /\ work'[r].stage = "idle"
        /\ \A q \in Requests : q # r => work'[q] = work[q]
    BY <1>0, <2>1 DEF TokenTypes, T!Idle
  <2>9. TokenTypes'
    BY <1>0, <2>1, <2>7, <2>8 DEF TokenTypes
  <2>10. UnusedCodes' /\ AssertionsRemembered'
    BY <1>0, <2>1 DEF UnusedCodes, AssertionsRemembered
  <2>12. PairOfSession(codes, exchanged, pair) /\ Len(pairs) \in Nat
    BY <1>0, <2>2, <2>5 DEF PairOfSession, TokenTypes
  <2>13. Sessions'
    <3> HIDE DEF pair
    <3>2. ASSUME NEW n \in 1..(Len(pairs) + 1)
          PROVE  PairOfSession(codes, exchanged, pairs[n])'
      <4>1. CASE n \in 1..Len(pairs)
        BY <1>0, <2>1, <2>7, <4>1 DEF Sessions, PairOfSession, SessionOf
      <4>2. CASE n = Len(pairs) + 1
        BY <2>1, <2>7, <2>12, <4>2 DEF PairOfSession, SessionOf
      <4>3. QED
        BY <2>12, <4>1, <4>2
    <3>3. ASSUME NEW q \in Requests
          PROVE  RequestOfSession(codes, exchanged, work[q])'
      <4>1. CASE q = r
        BY <2>8, <4>1 DEF RequestOfSession
      <4>2. CASE q # r
        BY <1>0, <2>1, <2>8, <4>2 DEF Sessions, RequestOfSession, SessionOf
      <4>3. QED
        BY <4>1, <4>2
    <3>4. QED
      BY <2>7, <3>2, <3>3 DEF Sessions
  <2>14. QED
    BY <2>9, <2>10, <2>13 DEF TokenInv
<1>8. CASE T!Restart
  <2>1. /\ UNCHANGED <<now, codes, pairs, exchanged>>
        /\ codeStore' = T!EmptyStore /\ replay' = T!EmptyStore
        /\ work' = [r \in Requests |-> T!Idle]
        /\ accepted' = [x \in Assertions |-> 0]
    BY <1>8 DEF T!Restart
  <2>2. TokenTypes'
    BY <1>0, <2>1 DEF TokenTypes
  <2>3. UnusedCodes' /\ AssertionsRemembered'
    BY <1>0, <2>1 DEF UnusedCodes, AssertionsRemembered, T!EmptyStore
  <2>k. \A x : /\ RequestOfSession(codes, exchanged, x) => RequestOfSession(codes', exchanged', x)
              /\ PairOfSession(codes, exchanged, x) => PairOfSession(codes', exchanged', x)
    BY <2>1 DEF RequestOfSession, PairOfSession, SessionOf
  <2>4. Sessions'
    BY <1>0, <2>1, <2>k DEF Sessions, RequestOfSession, T!Idle
  <2>5. QED
    BY <2>2, <2>3, <2>4 DEF TokenInv
<1>9. CASE T!Tick \/ UNCHANGED T!vars
  <2>1. /\ UNCHANGED <<codeStore, replay, codes, pairs, work, accepted, exchanged>>
        /\ now \in Nat /\ now' \in Nat /\ now' >= now
    BY <1>0, <1>9 DEF T!Tick, T!vars, TokenTypes
  <2>2. TokenTypes'
    BY <1>0, <2>1 DEF TokenTypes
  <2>k. \A x : /\ RequestOfSession(codes, exchanged, x) => RequestOfSession(codes', exchanged', x)
              /\ PairOfSession(codes, exchanged, x) => PairOfSession(codes', exchanged', x)
    BY <2>1 DEF RequestOfSession, PairOfSession, SessionOf
  <2>3. UnusedCodes' /\ Sessions'
    BY <1>0, <2>1, <2>k DEF UnusedCodes, Sessions
  <2>4. AssertionsRemembered'
    BY <1>0, <2>1, Bounds DEF AssertionsRemembered
  <2>5. QED
    BY <2>2, <2>3, <2>4 DEF TokenInv
<1>10. QED
  BY <1>1, <1>2, <1>3, <1>4, <1>5, <1>6, <1>7, <1>8, <1>9 DEF T!Next

-----------------------------------------------------------------------------
(* The bootstrap endpoint and the bearer tokens.                              *)

TokenRecords == [post : Posts, attempt : Nat, name : Posts \X Nat]
EnvelopeRecords ==
  [key : KeyIds, type : {"access", "bootstrap_access"}, client : Clients \cup {""},
   issued : Nat, expires : Nat, credential : TokenRecords \cup Clients]

BearerTypes ==
  /\ now \in Nat /\ config \in B!Configs
  /\ posts \in [Posts -> [at : B!Stages, attempt : Nat]]
  /\ made \subseteq TokenRecords /\ landing \subseteq TokenRecords
  /\ envelopes \in Seq(EnvelopeRecords)

\* A request counts its attempts once it is past its checks, and asks with a first one.
AttemptsCounted ==
  \A p \in Posts :
    /\ posts[p].at \in {"new", "admitted", "refused"} => posts[p].attempt = 0
    /\ posts[p].at = "asked" => posts[p].attempt # 0

\* A token bears the name of its attempt, which its request did make.
TokensOfAttempts ==
  \A t \in made \cup landing :
    /\ t.name = <<t.post, t.attempt>>
    /\ posts[t.post].at \notin {"new", "admitted", "refused"}
    /\ t.attempt # 0 /\ t.attempt <= posts[t.post].attempt

\* What a request is about to seal, and what it has sealed, is at InvenTree.
Sealable(p) == B!Asked(p, posts[p].attempt) \in made
SealedTokens ==
  /\ \A p \in Posts : posts[p].at = "sealing" => Sealable(p)
  /\ \A n \in 1..Len(envelopes) : envelopes[n].type = "bootstrap_access" =>
       \E p \in Posts : /\ envelopes[n].credential = B!Asked(p, posts[p].attempt)
                        /\ posts[p].at = "sealed" /\ Sealable(p)
  /\ \A m, n \in 1..Len(envelopes) :
       /\ envelopes[m].type = "bootstrap_access" /\ envelopes[n].type = "bootstrap_access"
       /\ envelopes[m].credential.post = envelopes[n].credential.post
       => m = n

BearerInv == BearerTypes /\ AttemptsCounted /\ TokensOfAttempts /\ SealedTokens

\* The service starts with no token and no request.
LEMMA BearerStart == B!Init => BearerInv
<1> SUFFICES ASSUME B!Init PROVE BearerInv
  OBVIOUS
<1>1. /\ now = 0 /\ made = {} /\ landing = {} /\ envelopes = <<>> /\ config \in B!Configs
      /\ posts = [p \in Posts |-> [at |-> "new", attempt |-> 0]]
  BY DEF B!Init
<1>2. BearerTypes
  BY <1>1 DEF BearerTypes, B!Stages
<1>3. AttemptsCounted /\ TokensOfAttempts /\ SealedTokens
  BY <1>1 DEF AttemptsCounted, TokensOfAttempts, SealedTokens
<1>4. QED
  BY <1>2, <1>3 DEF BearerInv

\* What an attempt asks for is a token record of its own name.
LEMMA AskedRecord ==
  ASSUME NEW p \in Posts, NEW n \in Nat
  PROVE  /\ B!Asked(p, n) \in TokenRecords /\ B!Asked(p, n).post = p
         /\ B!Asked(p, n).attempt = n /\ B!Asked(p, n).name = <<p, n>>
BY DEF B!Asked, B!Token, B!dedicatedBootstrapTokenName, TokenRecords

\* InvenTree drops a token for one of the same name only, which is the same token.
LEMMA TokenReplaced ==
  ASSUME BearerInv, NEW t \in TokenRecords, t.name = <<t.post, t.attempt>>
  PROVE  B!WithToken(made, t) = made \cup {t}
<1>1. \A u \in made : u.name = t.name => u = t
  BY DEF BearerInv, BearerTypes, TokensOfAttempts, TokenRecords
<1>2. QED
  BY <1>1 DEF B!WithToken

\* Only the post of a request that goes on is another one.
LEMMA PostMoved ==
  ASSUME BearerInv, NEW p \in Posts, NEW where \in B!Stages, B!Goes(p, where)
  PROVE  /\ posts' \in [Posts -> [at : B!Stages, attempt : Nat]]
         /\ posts'[p].at = where /\ posts'[p].attempt = posts[p].attempt
         /\ \A q \in Posts : q # p => posts'[q] = posts[q]
BY DEF BearerInv, BearerTypes, B!Goes

\* A request that is not sealed, before or after, and the tokens it asks for.
LEMMA RequestMoves ==
  ASSUME BearerInv, NEW p \in Posts, UNCHANGED <<now, config, envelopes>>,
         posts' \in [Posts -> [at : B!Stages, attempt : Nat]],
         \A q \in Posts : q # p => posts'[q] = posts[q],
         posts[p].at # "sealed", posts'[p].at # "sealed",
         posts[p].attempt <= posts'[p].attempt,
         posts'[p].at \in {"new", "admitted", "refused"} =>
           posts[p].at \in {"new", "admitted", "refused"} /\ posts'[p].attempt = 0,
         posts'[p].at = "asked" => posts'[p].attempt # 0,
         posts'[p].at = "sealing" => B!Asked(p, posts'[p].attempt) \in made',
         made \subseteq made',
         \A t \in made' \cup landing' :
           \/ t \in made \cup landing
           \/ /\ t = B!Asked(p, posts'[p].attempt) /\ posts'[p].attempt # 0
              /\ posts'[p].at \notin {"new", "admitted", "refused"}
  PROVE  BearerInv'
<1>1. \A n \in Nat : /\ B!Asked(p, n) \in TokenRecords /\ B!Asked(p, n).post = p
                     /\ B!Asked(p, n).attempt = n /\ B!Asked(p, n).name = <<p, n>>
  BY AskedRecord
<1>2. posts'[p].attempt \in Nat /\ posts \in [Posts -> [at : B!Stages, attempt : Nat]]
  BY DEF BearerInv, BearerTypes
<1>3. BearerTypes'
  BY <1>1, <1>2 DEF BearerInv, BearerTypes
<1>4. AttemptsCounted'
  BY <1>2 DEF BearerInv, AttemptsCounted
<1>5. TokensOfAttempts'
  <2> SUFFICES ASSUME NEW t \in made' \cup landing'
               PROVE  /\ t.name = <<t.post, t.attempt>>
                      /\ posts'[t.post].at \notin {"new", "admitted", "refused"}
                      /\ t.attempt # 0 /\ t.attempt <= posts'[t.post].attempt
    BY DEF TokensOfAttempts
  <2>1. CASE t \in made \cup landing
    <3>1. /\ t \in TokenRecords /\ t.name = <<t.post, t.attempt>>
          /\ posts[t.post].at \notin {"new", "admitted", "refused"}
          /\ t.attempt # 0 /\ t.attempt <= posts[t.post].attempt
      BY <2>1 DEF BearerInv, BearerTypes, TokensOfAttempts
    <3>2. t.post \in Posts /\ t.attempt \in Nat
      BY <3>1 DEF TokenRecords
    <3>3. QED
      BY <1>2, <3>1, <3>2
  <2>2. CASE t \notin made \cup landing
    BY <1>1, <1>2, <2>2
  <2>3. QED
    BY <2>1, <2>2
<1>6. SealedTokens'
  <2>1. \A q \in Posts : posts'[q].at = "sealing" => B!Asked(q, posts'[q].attempt) \in made'
    BY DEF BearerInv, SealedTokens, Sealable
  <2>2. ASSUME NEW n \in 1..Len(envelopes), envelopes[n].type = "bootstrap_access"
        PROVE  \E q \in Posts : /\ envelopes[n].credential = B!Asked(q, posts'[q].attempt)
                                /\ posts'[q].at = "sealed"
                                /\ B!Asked(q, posts'[q].attempt) \in made'
    <3>1. PICK q \in Posts : /\ envelopes[n].credential = B!Asked(q, posts[q].attempt)
                             /\ posts[q].at = "sealed" /\ B!Asked(q, posts[q].attempt) \in made
      BY <2>2 DEF BearerInv, SealedTokens, Sealable
    <3>2. posts'[q] = posts[q]
      BY <3>1
    <3>3. QED
      BY <3>1, <3>2
  <2>3. QED
    BY <2>1, <2>2 DEF BearerInv, SealedTokens, Sealable
<1>7. QED
  BY <1>3, <1>4, <1>5, <1>6 DEF BearerInv

\* A service that runs has a key to seal with.
LEMMA ActiveKey == B!Serving => B!Active \in KeyIds
BY DEF B!Serving, B!NewKeyring, B!Active

\* Every step of the bootstrap endpoint, and a restart, keep the invariant.
LEMMA BearerStep == BearerInv /\ [B!Next]_B!vars => BearerInv'
<1> SUFFICES ASSUME BearerInv, [B!Next]_B!vars PROVE BearerInv'
  OBVIOUS
<1>0. /\ posts \in [Posts -> [at : B!Stages, attempt : Nat]]
      /\ made \subseteq TokenRecords /\ landing \subseteq TokenRecords
      /\ envelopes \in Seq(EnvelopeRecords) /\ now \in Nat /\ config \in B!Configs
  BY DEF BearerInv, BearerTypes
<1>1. ASSUME NEW p \in Posts,
             B!Admit(p) \/ B!ValidateCredential(p) \/ (B!NextAttempt(p) /\ B!GivesUp(p))
                        \/ (B!Seal(p) /\ UNCHANGED envelopes)
      PROVE  BearerInv'
  <2>1. /\ UNCHANGED <<now, config, envelopes, made, landing>>
        /\ posts[p].at \in {"new", "admitted", "minting", "sealing"}
        /\ \E where \in {"admitted", "refused", "minting", "failed"} :
             /\ B!Goes(p, where)
             /\ where \in {"admitted", "refused"} => posts[p].at \in {"new", "admitted"}
    <3>1. Len(envelopes) \in Nat
      BY <1>0
    <3>2. CASE B!Admit(p)
      BY <3>2 DEF B!Admit, B!At, B!upstream
    <3>3. CASE B!ValidateCredential(p)
      BY <3>3 DEF B!ValidateCredential, B!At, B!upstream
    <3>4. CASE B!NextAttempt(p) /\ B!GivesUp(p)
      BY <3>4 DEF B!NextAttempt, B!GivesUp, B!At, B!upstream
    <3>5. CASE B!Seal(p) /\ UNCHANGED envelopes
      <4>1. \A e : Append(envelopes, e) # envelopes
        BY <1>0
      <4>2. QED
        BY <3>5, <4>1 DEF B!Seal, B!At, B!upstream
    <3>6. QED
      BY <1>1, <3>2, <3>3, <3>4, <3>5
  <2>2. PICK where \in {"admitted", "refused", "minting", "failed"} :
          /\ B!Goes(p, where)
          /\ where \in {"admitted", "refused"} => posts[p].at \in {"new", "admitted"}
    BY <2>1
  <2>3. where \in B!Stages
    BY DEF B!Stages
  <2>4. /\ posts' \in [Posts -> [at : B!Stages, attempt : Nat]]
        /\ posts'[p].at = where /\ posts'[p].attempt = posts[p].attempt
        /\ \A q \in Posts : q # p => posts'[q] = posts[q]
    BY <2>2, <2>3, PostMoved
  <2>5. posts[p].at \in {"new", "admitted", "refused"} => posts[p].attempt = 0
    BY DEF BearerInv, AttemptsCounted
  <2>6. posts[p].attempt \in Nat
    BY <1>0
  <2>7. QED
    BY <2>1, <2>2, <2>4, <2>5, <2>6, RequestMoves
<1>2. ASSUME NEW p \in Posts, B!NextAttempt(p), ~ B!GivesUp(p)
      PROVE  BearerInv'
  <2>1. /\ UNCHANGED <<now, config, envelopes, made, landing>>
        /\ posts[p].at = "minting"
        /\ posts' = [posts EXCEPT ![p].at = "asked", ![p].attempt = @ + 1]
    BY <1>2 DEF B!NextAttempt, B!At, B!upstream
  <2>2. /\ posts' \in [Posts -> [at : B!Stages, attempt : Nat]]
        /\ posts'[p].at = "asked" /\ posts'[p].attempt = posts[p].attempt + 1
        /\ posts[p].attempt \in Nat
        /\ \A q \in Posts : q # p => posts'[q] = posts[q]
    BY <1>0, <2>1 DEF B!Stages
  <2>3. QED
    BY <2>1, <2>2, RequestMoves
<1>3. ASSUME NEW p \in Posts, B!CreateDedicatedCredential(p) \/ B!CreateFails(p)
      PROVE  BearerInv'
  <2> DEFINE token == B!Asked(p, posts[p].attempt)
  <2>1. /\ UNCHANGED <<now, config, envelopes>> /\ posts[p].at = "asked"
        /\ \E where \in {"sealing", "minting", "failed"} :
             B!Goes(p, where) /\ (where = "sealing" => made' = B!WithToken(made, token))
        /\ \/ made' = B!WithToken(made, token) /\ landing' = landing
           \/ made' = made /\ landing' \in {landing, landing \cup {token}}
    BY <1>3 DEF B!CreateDedicatedCredential, B!CreateFails, B!GivesUp, B!At, B!upstream
  <2>2. PICK where \in {"sealing", "minting", "failed"} :
          B!Goes(p, where) /\ (where = "sealing" => made' = B!WithToken(made, token))
    BY <2>1
  <2>3. where \in B!Stages
    BY DEF B!Stages
  <2>4. /\ posts' \in [Posts -> [at : B!Stages, attempt : Nat]]
        /\ posts'[p].at = where /\ posts'[p].attempt = posts[p].attempt
        /\ \A q \in Posts : q # p => posts'[q] = posts[q]
    BY <2>2, <2>3, PostMoved
  <2>5. posts[p].attempt \in Nat /\ posts[p].attempt # 0
    BY <1>0, <2>1 DEF BearerInv, AttemptsCounted
  <2>6. token \in TokenRecords /\ token.name = <<token.post, token.attempt>>
    BY <2>5, AskedRecord
  <2>7. B!WithToken(made, token) = made \cup {token}
    BY <2>6, TokenReplaced
  <2>8. /\ made \subseteq made' /\ (where = "sealing" => token \in made')
        /\ \A t \in made' \cup landing' : t \in made \cup landing \/ t = token
    BY <2>1, <2>2, <2>7
  <2> HIDE DEF token
  <2>9. token = B!Asked(p, posts'[p].attempt)
    BY <2>4 DEF token
  <2>10. QED
    BY <2>1, <2>2, <2>4, <2>5, <2>8, <2>9, RequestMoves
<1>4. ASSUME NEW token \in landing, B!Lands(token)
      PROVE  BearerInv'
  <2>1. /\ UNCHANGED <<now, config, posts, envelopes>>
        /\ landing' = landing \ {token} /\ made' = B!WithToken(made, token)
    BY <1>4 DEF B!Lands
  <2>2. token \in TokenRecords /\ token.name = <<token.post, token.attempt>>
    BY <1>0 DEF BearerInv, TokensOfAttempts
  <2>3. made' = made \cup {token}
    BY <2>1, <2>2, TokenReplaced
  <2>4. BearerTypes' /\ AttemptsCounted'
    BY <1>0, <2>1, <2>2, <2>3 DEF BearerInv, BearerTypes, AttemptsCounted
  <2>5. TokensOfAttempts'
    BY <2>1, <2>3 DEF BearerInv, TokensOfAttempts
  <2>6. SealedTokens'
    BY <2>1, <2>3 DEF BearerInv, SealedTokens, Sealable
  <2>7. QED
    BY <2>4, <2>5, <2>6 DEF BearerInv
<1>5. ASSUME NEW p \in Posts, B!Seal(p), ~ UNCHANGED envelopes
      PROVE  BearerInv'
  <2> DEFINE token == B!Asked(p, posts[p].attempt)
             e == B!Envelope("bootstrap_access", "", EnvelopeLifetime, token)
  <2>1. /\ UNCHANGED <<now, config, made, landing>> /\ posts[p].at = "sealing"
        /\ envelopes' = Append(envelopes, e) /\ B!Goes(p, "sealed") /\ B!Serving
    BY <1>5 DEF B!Seal, B!At, B!Serves, B!upstream
  <2>2. /\ posts' \in [Posts -> [at : B!Stages, attempt : Nat]]
        /\ posts'[p].at = "sealed" /\ posts'[p].attempt = posts[p].attempt
        /\ \A q \in Posts : q # p => posts'[q] = posts[q]
    BY <2>1, PostMoved DEF B!Stages
  <2>3. token \in TokenRecords /\ token.post = p /\ token \in made
    BY <1>0, <2>1, AskedRecord DEF BearerInv, SealedTokens, Sealable
  <2>4. e \in EnvelopeRecords /\ e.type = "bootstrap_access" /\ e.credential = token
    <3>1. B!Active \in KeyIds
      BY <2>1, ActiveKey
    <3>2. now + EnvelopeLifetime \in Nat
      BY <1>0, Bounds
    <3> HIDE DEF token
    <3>3. QED
      BY <1>0, <2>3, <3>1, <3>2 DEF B!Envelope, EnvelopeRecords
  <2> HIDE DEF e
  <2>5. /\ envelopes' \in Seq(EnvelopeRecords) /\ Len(envelopes') = Len(envelopes) + 1
        /\ \A n \in 1..Len(envelopes) : envelopes'[n] = envelopes[n]
        /\ envelopes'[Len(envelopes) + 1] = e /\ Len(envelopes) \in Nat
    BY <1>0, <2>1, <2>4
  <2>6. BearerTypes' /\ AttemptsCounted'
    BY <1>0, <2>1, <2>2, <2>5 DEF BearerInv, BearerTypes, AttemptsCounted
  <2>7. TokensOfAttempts'
    <3> SUFFICES ASSUME NEW t \in made \cup landing
                 PROVE  /\ t.name = <<t.post, t.attempt>>
                        /\ posts'[t.post].at \notin {"new", "admitted", "refused"}
                        /\ t.attempt # 0 /\ t.attempt <= posts'[t.post].attempt
      BY <2>1 DEF TokensOfAttempts
    <3>1. /\ t.name = <<t.post, t.attempt>> /\ t.post \in Posts
          /\ posts[t.post].at \notin {"new", "admitted", "refused"}
          /\ t.attempt # 0 /\ t.attempt <= posts[t.post].attempt
      BY <1>0 DEF BearerInv, TokensOfAttempts, TokenRecords
    <3>2. QED
      BY <2>2, <3>1
  <2>8. \A n \in 1..Len(envelopes) : envelopes[n].type = "bootstrap_access" =>
          /\ envelopes[n].credential.post # p
          /\ \E q \in Posts : /\ envelopes[n].credential = B!Asked(q, posts[q].attempt)
                              /\ posts[q].at = "sealed" /\ B!Asked(q, posts[q].attempt) \in made
                              /\ q # p
    <3> SUFFICES ASSUME NEW n \in 1..Len(envelopes), envelopes[n].type = "bootstrap_access"
                 PROVE  /\ envelopes[n].credential.post # p
                        /\ \E q \in Posts :
                             /\ envelopes[n].credential = B!Asked(q, posts[q].attempt)
                             /\ posts[q].at = "sealed"
                             /\ B!Asked(q, posts[q].attempt) \in made /\ q # p
      OBVIOUS
    <3>1. PICK q \in Posts : /\ envelopes[n].credential = B!Asked(q, posts[q].attempt)
                             /\ posts[q].at = "sealed" /\ B!Asked(q, posts[q].attempt) \in made
      BY DEF BearerInv, SealedTokens, Sealable
    <3>2. posts[q].attempt \in Nat /\ q # p
      BY <1>0, <2>1, <3>1
    <3>3. B!Asked(q, posts[q].attempt).post = q
      BY <3>2, AskedRecord
    <3>4. QED
      BY <3>1, <3>2, <3>3
  <2>9. SealedTokens'
    <3>1. \A q \in Posts : posts'[q].at = "sealing" => B!Asked(q, posts'[q].attempt) \in made'
      BY <2>1, <2>2 DEF BearerInv, SealedTokens, Sealable
    <3>2. ASSUME NEW n \in 1..(Len(envelopes) + 1), envelopes'[n].type = "bootstrap_access"
          PROVE  \E q \in Posts : /\ envelopes'[n].credential = B!Asked(q, posts'[q].attempt)
                                  /\ posts'[q].at = "sealed"
                                  /\ B!Asked(q, posts'[q].attempt) \in made'
      <4>1. CASE n = Len(envelopes) + 1
        BY <2>1, <2>2, <2>3, <2>4, <2>5, <4>1
      <4>2. CASE n \in 1..Len(envelopes)
        <5>1. PICK q \in Posts : /\ envelopes[n].credential = B!Asked(q, posts[q].attempt)
                                 /\ posts[q].at = "sealed" /\ q # p
                                 /\ B!Asked(q, posts[q].attempt) \in made
          BY <2>5, <2>8, <3>2, <4>2
        <5>2. posts'[q] = posts[q] /\ envelopes'[n] = envelopes[n]
          BY <2>2, <2>5, <4>2, <5>1
        <5>3. QED
          BY <2>1, <5>1, <5>2
      <4>3. QED
        BY <2>5, <4>1, <4>2
    <3>3. ASSUME NEW m \in 1..(Len(envelopes) + 1), NEW n \in 1..(Len(envelopes) + 1),
                 envelopes'[m].type = "bootstrap_access", envelopes'[n].type = "bootstrap_access",
                 envelopes'[m].credential.post = envelopes'[n].credential.post
          PROVE  m = n
      BY <2>3, <2>4, <2>5, <2>8, <3>3 DEF BearerInv, SealedTokens
    <3>4. QED
      BY <2>5, <3>1, <3>2, <3>3 DEF SealedTokens, Sealable
  <2>10. QED
    BY <2>6, <2>7, <2>9 DEF BearerInv
<1>6. ASSUME NEW client \in Clients, B!IssueAccess(client)
      PROVE  BearerInv'
  <2> DEFINE e == B!Envelope("access", client, AccessLifetime, client)
  <2>1. /\ UNCHANGED <<now, config, posts, made, landing>>
        /\ envelopes' = Append(envelopes, e) /\ B!Serving
    BY <1>6 DEF B!IssueAccess, B!upstream
  <2>2. e \in EnvelopeRecords /\ e.type = "access"
    <3>1. B!Active \in KeyIds
      BY <2>1, ActiveKey
    <3>2. now + AccessLifetime \in Nat
      BY <1>0, Bounds
    <3>3. QED
      BY <1>0, <3>1, <3>2 DEF B!Envelope, EnvelopeRecords
  <2> HIDE DEF e
  <2>3. /\ envelopes' \in Seq(EnvelopeRecords) /\ Len(envelopes') = Len(envelopes) + 1
        /\ \A n \in 1..Len(envelopes) : envelopes'[n] = envelopes[n]
        /\ envelopes'[Len(envelopes) + 1].type = "access" /\ Len(envelopes) \in Nat
    BY <1>0, <2>1, <2>2
  <2>4. BearerTypes' /\ AttemptsCounted' /\ TokensOfAttempts'
    BY <1>0, <2>1, <2>3 DEF BearerInv, BearerTypes, AttemptsCounted, TokensOfAttempts
  <2>5. \A n \in 1..(Len(envelopes) + 1) : envelopes'[n].type = "bootstrap_access" =>
          n \in 1..Len(envelopes) /\ envelopes'[n] = envelopes[n]
    BY <2>3
  <2>6. SealedTokens'
    BY <2>1, <2>3, <2>5 DEF BearerInv, SealedTokens, Sealable
  <2>7. QED
    BY <2>4, <2>6 DEF BearerInv
<1>7. ASSUME NEW c \in B!Configs, B!Restart(c)
      PROVE  BearerInv'
  <2>1. /\ UNCHANGED <<now, made, landing, envelopes>> /\ config' = c
        /\ posts' \in [Posts -> [at : B!Stages, attempt : Nat]]
        /\ \A p \in Posts :
             /\ posts'[p].attempt = posts[p].attempt
             /\ \/ posts'[p].at = posts[p].at /\ posts[p].at \in {"new", "refused", "sealed"}
                \/ posts'[p].at = "failed" /\ posts[p].at # "sealed"
    BY <1>0, <1>7 DEF B!Restart, B!upstream, B!Stages
  <2>2. BearerTypes' /\ AttemptsCounted'
    BY <1>0, <2>1 DEF BearerInv, BearerTypes, AttemptsCounted
  <2>3. TokensOfAttempts'
    <3>1. \A t \in made \cup landing : t.post \in Posts
      BY <1>0 DEF TokenRecords
    <3>2. QED
      BY <2>1, <3>1 DEF BearerInv, TokensOfAttempts
  <2>4. SealedTokens'
    <3>1. \A p \in Posts : posts'[p].at # "sealing"
      BY <2>1
    <3>2. \A q \in Posts : posts[q].at = "sealed" => posts'[q].at = "sealed"
      BY <2>1
    <3>3. ASSUME NEW n \in 1..Len(envelopes), envelopes[n].type = "bootstrap_access"
          PROVE  \E q \in Posts : /\ envelopes[n].credential = B!Asked(q, posts'[q].attempt)
                                  /\ posts'[q].at = "sealed"
                                  /\ B!Asked(q, posts'[q].attempt) \in made'
      BY <2>1, <3>2, <3>3 DEF BearerInv, SealedTokens, Sealable
    <3>4. QED
      BY <2>1, <3>1, <3>3 DEF BearerInv, SealedTokens, Sealable
  <2>5. QED
    BY <2>2, <2>3, <2>4 DEF BearerInv
<1>8. CASE B!Tick \/ UNCHANGED B!vars
  <2>1. UNCHANGED <<config, posts, made, landing, envelopes>> /\ now' \in Nat
    BY <1>0, <1>8 DEF B!Tick, B!vars, B!upstream
  <2>2. BearerTypes' /\ AttemptsCounted' /\ TokensOfAttempts'
    BY <1>0, <2>1 DEF BearerInv, BearerTypes, AttemptsCounted, TokensOfAttempts
  <2>3. SealedTokens'
    BY <2>1 DEF BearerInv, SealedTokens, Sealable
  <2>4. QED
    BY <2>2, <2>3 DEF BearerInv
<1>9. QED
  BY <1>1, <1>2, <1>3, <1>4, <1>5, <1>6, <1>7, <1>8 DEF B!Next

\* A service started again with every key it could read still reads every token.
LEMMA RotationStep ==
  ASSUME BearerInv, [B!Next]_B!vars, config' # config PROVE B!RotationKept
<1>1. \E c \in B!Configs : B!Restart(c)
  BY DEF B!Next, B!vars, B!Admit, B!ValidateCredential, B!NextAttempt, B!Seal,
     B!CreateDedicatedCredential, B!CreateFails, B!Lands, B!IssueAccess, B!Tick
<1>2. UNCHANGED <<now, envelopes>>
  BY <1>1 DEF B!Restart
<1>3. SUFFICES ASSUME B!Widened(config, config'), NEW n \in 1..Len(envelopes),
                      B!AccessTokenVerifier(envelopes[n])
               PROVE  B!AccessTokenVerifier(envelopes[n])'
  BY DEF B!RotationKept
<1>4. envelopes[n].key \in KeyIds
  <2>1. envelopes \in Seq(EnvelopeRecords)
    BY DEF BearerInv, BearerTypes
  <2>2. envelopes[n] \in EnvelopeRecords
    BY <2>1
  <2>3. QED
    BY <2>2 DEF EnvelopeRecords
<1>5. QED
  BY <1>2, <1>3, <1>4
     DEF B!AccessTokenVerifier, B!Widened, B!Serving, B!Opens, B!validateForUse

-----------------------------------------------------------------------------
(* The authorization endpoint.                                                *)

SetupTypes ==
  /\ now \in Nat /\ begun \in Nat
  /\ pages \in Seq(Page) /\ codes \in Seq(Code)
  /\ work \in [Requests -> Work \cup {Idle}]
  /\ DOMAIN setups \subseteq 1..Len(pages)

\* A page is of an authorization that was begun, whose deadline it bears, and offers the
\* supplied credential only when InvenTree refused a dedicated one.
PagesOfAuthorizations ==
  /\ \A id \in 1..Len(pages) :
       pages[id].auth <= begun /\ (pages[id].fallback => pages[id].auth \in refused)
  /\ \A i, j \in 1..Len(pages) :
       pages[i].auth = pages[j].auth => pages[i].expiry = pages[j].expiry

\* A submission is of a page, and so is a code.
SubmissionOf(w) ==
  w # Idle =>
    /\ w.id \in 1..Len(pages) /\ w.page = pages[w.id]
    /\ w.stage \in {"validating", "creating"} => w.source = "supplied_token"
    /\ w.stage = "issuing" =>
         IF w.source = "dedicated_token" THEN w.id \in minted ELSE w.page.auth \in refused
CodeFrom(c) ==
  /\ c.setup \in 1..Len(pages) /\ pages[c.setup].auth = c.auth
  /\ IF c.source = "dedicated_token" THEN c.setup \in minted ELSE c.auth \in refused
Submissions ==
  /\ \A r \in Requests : SubmissionOf(work[r])
  /\ \A n \in 1..Len(codes) : CodeFrom(codes[n])

\* An authorization has a live page, a submission under way or a code, and one of them only.
PageExcludes(i) ==
  /\ \A j \in DOMAIN setups : pages[i].auth = pages[j].auth => i = j
  /\ \A r \in Requests : work[r] # Idle => pages[i].auth # work[r].page.auth
  /\ \A n \in 1..Len(codes) : pages[i].auth # codes[n].auth
SubmissionExcludes(r) ==
  work[r] # Idle =>
    /\ \A q \in Requests : work[q] # Idle /\ work[r].page.auth = work[q].page.auth => q = r
    /\ \A n \in 1..Len(codes) : work[r].page.auth # codes[n].auth
OneChance ==
  /\ \A i \in DOMAIN setups : PageExcludes(i)
  /\ \A r \in Requests : SubmissionExcludes(r)
  /\ \A m, n \in 1..Len(codes) : codes[m].auth = codes[n].auth => m = n

SetupInv == SetupTypes /\ PagesOfAuthorizations /\ Submissions /\ OneChance

\* The authorization endpoint starts with nothing begun.
LEMMA SetupStart == Init => SetupInv
BY DEF Init, EmptyStore, SetupInv, SetupTypes, PagesOfAuthorizations, Submissions, SubmissionOf,
   OneChance, PageExcludes, SubmissionExcludes

\* A page rendered is the last one, and no other setup ID becomes live.
LEMMA Rendered ==
  ASSUME SetupInv, NEW page \in Page, Renders(page)
  PROVE  /\ pages' \in Seq(Page) /\ Len(pages) \in Nat
         /\ \/ pages' = pages /\ DOMAIN setups' \subseteq DOMAIN setups
            \/ /\ Len(pages') = Len(pages) + 1 /\ pages'[Len(pages) + 1] = page
               /\ \A id \in 1..Len(pages) : pages'[id] = pages[id]
               /\ DOMAIN setups' \subseteq DOMAIN setups \cup {Len(pages) + 1}
<1>1. pages \in Seq(Page)
  BY DEF SetupInv, SetupTypes
<1>2. DOMAIN Purged(setups, now) \subseteq DOMAIN setups
  BY DEF Purged, Restrict, Ids
<1>3. CASE /\ setups' = WithId(setups, Len(pages) + 1, page.expiry, now)
           /\ pages' = Append(pages, page)
  <2>1. DOMAIN setups' = DOMAIN Purged(setups, now) \cup {Len(pages) + 1}
    BY <1>3 DEF WithId, Ids
  <2>2. QED
    BY <1>1, <1>2, <1>3, <2>1
<1>4. CASE setups' = Purged(setups, now) /\ UNCHANGED pages
  BY <1>1, <1>2, <1>4
<1>5. QED
  BY <1>3, <1>4 DEF Renders

\* A submission that goes on keeps its page and setup ID, and answers for its credential.
LEMMA SubmissionAdvances ==
  ASSUME SetupInv, NEW r \in Requests, work[r] # Idle,
         UNCHANGED <<now, setups, pages, codes, refused, begun>>, minted \subseteq minted',
         NEW w \in Work, work' = [work EXCEPT ![r] = w], SubmissionOf(w)',
         w.page = work[r].page, w.id = work[r].id
  PROVE  SetupInv'
<1>0. /\ SetupTypes /\ PagesOfAuthorizations /\ Submissions /\ OneChance
      /\ work \in [Requests -> Work \cup {Idle}]
  BY DEF SetupInv, SetupTypes
<1>1. /\ work' \in [Requests -> Work \cup {Idle}] /\ work'[r] = w
      /\ \A q \in Requests : q # r => work'[q] = work[q]
  BY <1>0
<1>2. SetupTypes' /\ PagesOfAuthorizations'
  BY <1>0, <1>1 DEF SetupTypes, PagesOfAuthorizations
<1>3. Submissions'
  BY <1>0, <1>1 DEF Submissions, SubmissionOf, CodeFrom
<1>4. OneChance'
  BY <1>0, <1>1 DEF OneChance, PageExcludes, SubmissionExcludes
<1>5. QED
  BY <1>2, <1>3, <1>4 DEF SetupInv

\* A submission that fails ends with its page rendered again, or with nothing.
LEMMA SubmissionFails ==
  ASSUME SetupInv, NEW r \in Requests, work[r] # Idle, NEW page \in Page, Renders(page),
         UNCHANGED <<now, codes, minted, begun>>, refused \subseteq refused',
         work' = [work EXCEPT ![r] = Idle],
         page.auth = work[r].page.auth, page.expiry = work[r].page.expiry,
         page.fallback => page.auth \in refused'
  PROVE  SetupInv'
<1>0. /\ SetupTypes /\ PagesOfAuthorizations /\ Submissions /\ OneChance
      /\ pages \in Seq(Page) /\ DOMAIN setups \subseteq 1..Len(pages)
      /\ work \in [Requests -> Work \cup {Idle}]
  BY DEF SetupInv, SetupTypes
<1>1. /\ work' \in [Requests -> Work \cup {Idle}] /\ work'[r] = Idle
      /\ \A q \in Requests : q # r => work'[q] = work[q]
  BY <1>0
<1>2. /\ pages' \in Seq(Page) /\ Len(pages) \in Nat
      /\ \/ pages' = pages /\ DOMAIN setups' \subseteq DOMAIN setups
         \/ /\ Len(pages') = Len(pages) + 1 /\ pages'[Len(pages) + 1] = page
            /\ \A id \in 1..Len(pages) : pages'[id] = pages[id]
            /\ DOMAIN setups' \subseteq DOMAIN setups \cup {Len(pages) + 1}
  BY Rendered
<1>3. /\ work[r].id \in 1..Len(pages) /\ pages[work[r].id].auth = page.auth
      /\ pages[work[r].id].expiry = page.expiry
  BY <1>0 DEF Submissions, SubmissionOf
<1>4. SetupTypes'
  BY <1>0, <1>1, <1>2 DEF SetupTypes
<1>5. PagesOfAuthorizations'
  <2>1. \A id \in 1..Len(pages') :
          (id \in 1..Len(pages) /\ pages'[id] = pages[id]) \/ pages'[id] = page
    BY <1>2
  <2>2. page.auth <= begun /\ \A id \in 1..Len(pages) :
          pages[id].auth = page.auth => pages[id].expiry = page.expiry
    BY <1>0, <1>3 DEF PagesOfAuthorizations
  <2>3. \A id \in 1..Len(pages') :
          pages'[id].auth <= begun' /\ (pages'[id].fallback => pages'[id].auth \in refused')
    BY <1>0, <2>1, <2>2 DEF PagesOfAuthorizations
  <2>4. \A i, j \in 1..Len(pages') :
          pages'[i].auth = pages'[j].auth => pages'[i].expiry = pages'[j].expiry
    BY <1>0, <2>1, <2>2 DEF PagesOfAuthorizations
  <2>5. QED
    BY <2>3, <2>4 DEF PagesOfAuthorizations
<1>6. Submissions'
  BY <1>0, <1>1, <1>2 DEF Submissions, SubmissionOf, CodeFrom
<1>7. OneChance'
  <2>1. \A id \in 1..Len(pages) : pages'[id] = pages[id]
    BY <1>2
  <2>2. \A i \in DOMAIN setups' : i \in DOMAIN setups \/
          (i = Len(pages) + 1 /\ i \notin DOMAIN setups /\ pages'[i].auth = work[r].page.auth)
    BY <1>0, <1>2
  <2>3. QED
    BY <1>0, <1>1, <2>1, <2>2 DEF OneChance, PageExcludes, SubmissionExcludes
<1>8. QED
  BY <1>4, <1>5, <1>6, <1>7 DEF SetupInv

\* Every step of the authorization endpoint keeps the invariant.
LEMMA SetupStep == SetupInv /\ [Next]_vars => SetupInv'
<1> SUFFICES ASSUME SetupInv, [Next]_vars PROVE SetupInv'
  OBVIOUS
<1>0. /\ SetupTypes /\ PagesOfAuthorizations /\ Submissions /\ OneChance
      /\ now \in Nat /\ begun \in Nat /\ pages \in Seq(Page) /\ codes \in Seq(Code)
      /\ work \in [Requests -> Work \cup {Idle}] /\ DOMAIN setups \subseteq 1..Len(pages)
      /\ Len(pages) \in Nat /\ Len(codes) \in Nat
  BY DEF SetupInv, SetupTypes
<1>1. ASSUME Begin PROVE SetupInv'
  <2> DEFINE page == [auth |-> begun + 1, fallback |-> FALSE, expiry |-> now + CodeLifetime]
  <2>1. /\ begun < MaxAuthorizations /\ begun' = begun + 1 /\ Renders(page)
        /\ UNCHANGED <<now, work, codes, minted, refused>>
    BY <1>1 DEF Begin
  <2>2. begun + 1 \in 1..MaxAuthorizations /\ now + CodeLifetime \in Nat
    BY <1>0, <2>1, Bounds
  <2>3. page \in Page /\ page.auth = begun + 1 /\ page.fallback = FALSE
    BY <2>2 DEF Page
  <2> HIDE DEF page
  <2>4. /\ pages' \in Seq(Page)
        /\ \/ pages' = pages /\ DOMAIN setups' \subseteq DOMAIN setups
           \/ /\ Len(pages') = Len(pages) + 1 /\ pages'[Len(pages) + 1] = page
              /\ \A id \in 1..Len(pages) : pages'[id] = pages[id]
              /\ DOMAIN setups' \subseteq DOMAIN setups \cup {Len(pages) + 1}
    BY <2>1, <2>3, Rendered
  <2>5. /\ \A id \in 1..Len(pages) : pages[id].auth # begun + 1 /\ pages[id].auth \in Nat
        /\ \A r \in Requests : work[r] # Idle => work[r].page.auth # begun + 1
        /\ \A n \in 1..Len(codes) : codes[n].auth # begun + 1
    <3>1. \A id \in 1..Len(pages) : pages[id].auth # begun + 1 /\ pages[id].auth \in Nat
      <4>1. \A id \in 1..Len(pages) : pages[id] \in Page
        BY <1>0
      <4>2. \A id \in 1..Len(pages) : pages[id].auth \in Nat
        BY <4>1 DEF Page
      <4>3. QED
        BY <1>0, <4>2 DEF PagesOfAuthorizations
    <3>2. QED
      BY <1>0, <3>1 DEF Submissions, SubmissionOf, CodeFrom
  <2>6. SetupTypes'
    BY <1>0, <2>1, <2>4 DEF SetupTypes
  <2>7. PagesOfAuthorizations'
    <3>1. \A id \in 1..Len(pages') :
            (id \in 1..Len(pages) /\ pages'[id] = pages[id]) \/ pages'[id] = page
      BY <2>4
    <3>2. \A id \in 1..Len(pages') :
            pages'[id].auth <= begun' /\ (pages'[id].fallback => pages'[id].auth \in refused')
      BY <1>0, <2>1, <2>3, <2>5, <3>1 DEF PagesOfAuthorizations
    <3>3. \A i, j \in 1..Len(pages') :
            pages'[i].auth = pages'[j].auth => pages'[i].expiry = pages'[j].expiry
      BY <1>0, <2>3, <2>5, <3>1 DEF PagesOfAuthorizations
    <3>4. QED
      BY <3>2, <3>3 DEF PagesOfAuthorizations
  <2>8. Submissions'
    BY <1>0, <2>1, <2>4 DEF Submissions, SubmissionOf, CodeFrom
  <2>9. OneChance'
    <3>1. \A i \in DOMAIN setups' :
            \/ i \in DOMAIN setups /\ pages'[i] = pages[i] /\ pages[i].auth # begun + 1
            \/ i = Len(pages) + 1 /\ pages'[i].auth = begun + 1
      BY <1>0, <2>3, <2>4, <2>5
    <3>2. ASSUME NEW i \in DOMAIN setups' PROVE PageExcludes(i)'
      <4>1. CASE i \in DOMAIN setups /\ pages'[i] = pages[i] /\ pages[i].auth # begun + 1
        BY <1>0, <2>1, <3>1, <4>1 DEF OneChance, PageExcludes
      <4>2. CASE i = Len(pages) + 1 /\ pages'[i].auth = begun + 1
        <5>1. \A j \in DOMAIN setups' : pages'[i].auth = pages'[j].auth => i = j
          BY <3>1, <4>2
        <5>2. QED
          BY <2>1, <2>5, <4>2, <5>1 DEF PageExcludes
      <4>3. QED
        BY <3>1, <4>1, <4>2
    <3>3. /\ \A r \in Requests : SubmissionExcludes(r)'
          /\ \A m, n \in 1..Len(codes') : codes'[m].auth = codes'[n].auth => m = n
      BY <1>0, <2>1 DEF OneChance, SubmissionExcludes
    <3>4. QED
      BY <3>2, <3>3 DEF OneChance
  <2>10. QED
    BY <2>6, <2>7, <2>8, <2>9 DEF SetupInv
<1>2. ASSUME NEW r \in Requests, NEW id \in 1..Len(pages), NEW consent \in BOOLEAN,
             Submit(r, id, consent)
      PROVE  SetupInv'
  <2> DEFINE w == [stage |-> "validating", page |-> pages[id], id |-> id,
                   consent |-> consent, source |-> "supplied_token"]
  <2>1. /\ UNCHANGED <<now, pages, codes, minted, refused, begun>> /\ work[r] = Idle
        /\ id \in DOMAIN setups /\ DOMAIN setups' \subseteq DOMAIN setups \ {id}
        /\ work' = work \/ work' = [work EXCEPT ![r] = w]
    BY <1>2 DEF Submit, Submittable, CanConsume, UsesUp, WithoutId, Purged, Restrict, Ids
  <2>2. /\ w \in Work /\ w.stage = "validating" /\ w.page = pages[id] /\ w.id = id
        /\ w.source = "supplied_token"
    BY <1>0, <1>2 DEF Work
  <2> HIDE DEF w
  <2>3. /\ work' \in [Requests -> Work \cup {Idle}]
        /\ work'[r] = Idle \/ work'[r] = w
        /\ \A q \in Requests : q # r => work'[q] = work[q]
    BY <1>0, <2>1, <2>2
  <2>4. SetupTypes' /\ PagesOfAuthorizations'
    BY <1>0, <2>1, <2>3 DEF SetupTypes, PagesOfAuthorizations
  <2>5. Submissions'
    BY <1>0, <2>1, <2>2, <2>3 DEF Submissions, SubmissionOf, CodeFrom
  <2>6. OneChance'
    <3>1. \A i \in DOMAIN setups' : PageExcludes(i)'
      BY <1>0, <2>1, <2>2, <2>3 DEF OneChance, PageExcludes
    <3>2. \A q \in Requests : SubmissionExcludes(q)'
      BY <1>0, <2>1, <2>2, <2>3 DEF OneChance, PageExcludes, SubmissionExcludes
    <3>3. \A m, k \in 1..Len(codes') : codes'[m].auth = codes'[k].auth => m = k
      BY <1>0, <2>1 DEF OneChance
    <3>4. QED
      BY <3>1, <3>2, <3>3 DEF OneChance
  <2>7. QED
    BY <2>4, <2>5, <2>6 DEF SetupInv
<1>3. ASSUME NEW r \in Requests, NEW ok \in BOOLEAN, work[r] # Idle, Validate(r, ok) \/ Create(r, ok)
      PROVE  SetupInv'
  <2>1. work[r] \in Work /\ SubmissionOf(work[r]) /\ work[r].page \in Page
    BY <1>0, <1>3 DEF Submissions, Work
  <2>2. CASE Validate(r, ok) /\ ok
    <3>1. PICK stage \in {"issuing", "creating"} :
            /\ work' = [work EXCEPT ![r].stage = stage]
            /\ stage = "issuing" => work[r].page.fallback
      BY <2>2 DEF Validate, UsesSupplied
    <3>2. /\ UNCHANGED <<now, setups, pages, codes, minted, refused, begun>>
          /\ work[r].stage = "validating"
      BY <2>2 DEF Validate
    <3>3. stage = "issuing" => work[r].page.auth \in refused
      BY <1>0, <1>3, <2>1, <3>1 DEF SubmissionOf, PagesOfAuthorizations
    <3>4. PICK w \in Work :
            /\ w = [work[r] EXCEPT !.stage = stage] /\ w.page = work[r].page
            /\ w.id = work[r].id /\ w.source = work[r].source /\ w.stage = stage
      <4>1. \A v \in Work : LET w == [v EXCEPT !.stage = stage] IN
              /\ w \in Work /\ w.page = v.page /\ w.id = v.id /\ w.source = v.source
              /\ w.stage = stage
        BY <3>1 DEF Work
      <4>2. QED
        BY <2>1, <4>1
    <3>5. SubmissionOf(w)'
      BY <1>3, <2>1, <3>2, <3>3, <3>4 DEF SubmissionOf
    <3>6. QED
      BY <1>3, <3>1, <3>2, <3>4, <3>5, SubmissionAdvances
  <2>3. CASE Create(r, ok) /\ ok
    <3>1. /\ UNCHANGED <<now, setups, pages, codes, refused, begun>>
          /\ minted' = minted \cup {work[r].id} /\ work[r].stage = "creating"
          /\ work' = [work EXCEPT ![r].stage = "issuing", ![r].source = "dedicated_token"]
      BY <2>3 DEF Create
    <3>2. PICK w \in Work :
            /\ w = [work[r] EXCEPT !.stage = "issuing", !.source = "dedicated_token"]
            /\ w.page = work[r].page /\ w.id = work[r].id
            /\ w.source = "dedicated_token" /\ w.stage = "issuing"
      <4>1. \A v \in Work :
              LET w == [v EXCEPT !.stage = "issuing", !.source = "dedicated_token"] IN
              /\ w \in Work /\ w.page = v.page /\ w.id = v.id
              /\ w.source = "dedicated_token" /\ w.stage = "issuing"
        BY DEF Work
      <4>2. QED
        BY <2>1, <4>1
    <3>3. SubmissionOf(w)'
      BY <1>3, <2>1, <3>1, <3>2 DEF SubmissionOf
    <3>4. QED
      BY <1>3, <3>1, <3>2, <3>3, SubmissionAdvances
  <2>4. CASE ~ ok
    <3>1. /\ UNCHANGED <<now, codes, minted, begun>> /\ work' = [work EXCEPT ![r] = Idle]
          /\ \/ Renders(work[r].page) /\ UNCHANGED refused
             \/ /\ Renders(Offering(work[r].page))
                /\ refused' = refused \cup {work[r].page.auth}
      BY <1>3, <2>4 DEF Validate, Create, Again
    <3>2. PICK page \in Page :
            /\ Renders(page) /\ page.auth = work[r].page.auth
            /\ page.expiry = work[r].page.expiry
            /\ page.fallback => page.auth \in refused'
      <4>1. CASE Renders(work[r].page) /\ UNCHANGED refused
        BY <1>0, <1>3, <2>1, <4>1 DEF SubmissionOf, PagesOfAuthorizations
      <4>2. CASE /\ Renders(Offering(work[r].page))
                 /\ refused' = refused \cup {work[r].page.auth}
        <5>1. ASSUME NEW v \in Page
              PROVE  /\ Offering(v) \in Page /\ Offering(v).auth = v.auth
                     /\ Offering(v).expiry = v.expiry
          BY DEF Page, Offering
        <5>2. QED
          BY <2>1, <4>2, <5>1
      <4>3. QED
        BY <3>1, <4>1, <4>2
    <3>3. refused \subseteq refused'
      BY <3>1
    <3>4. QED
      BY <1>3, <3>1, <3>2, <3>3, SubmissionFails
  <2>5. QED
    BY <1>3, <2>2, <2>3, <2>4
<1>4. ASSUME NEW r \in Requests, IssueCode(r)
      PROVE  SetupInv'
  <2> DEFINE code == [auth |-> work[r].page.auth, source |-> work[r].source,
                      setup |-> work[r].id]
  <2>1. /\ UNCHANGED <<now, setups, pages, minted, refused, begun>>
        /\ work[r].stage = "issuing" /\ work' = [work EXCEPT ![r] = Idle]
        /\ codes' = codes \/ codes' = Append(codes, code)
    BY <1>4 DEF IssueCode
  <2>2. /\ work[r] # Idle /\ work[r] \in Work /\ SubmissionOf(work[r])
        /\ work[r].page \in Page
    BY <1>0, <2>1 DEF Submissions, Idle, Work
  <2>3. code \in Code /\ CodeFrom(code) /\ code.auth = work[r].page.auth
    <3>1. PICK w \in Work : w = work[r]
      BY <2>2
    <3>2. w.page.auth \in 1..MaxAuthorizations
      BY <2>2, <3>1 DEF Page
    <3>3. code \in Code
      BY <3>1, <3>2 DEF Work, Code
    <3>4. QED
      BY <2>1, <2>2, <3>3 DEF SubmissionOf, CodeFrom
  <2> HIDE DEF code
  <2>4. /\ codes' \in Seq(Code) /\ \A n \in 1..Len(codes) : codes'[n] = codes[n]
        /\ \A n \in 1..Len(codes') :
             n \in 1..Len(codes) \/ (n = Len(codes) + 1 /\ codes'[n] = code)
    <3>1. CASE codes' = codes
      BY <1>0, <3>1
    <3>2. CASE codes' = Append(codes, code)
      BY <1>0, <2>3, <3>2
    <3>3. QED
      BY <2>1, <3>1, <3>2
  <2>5. /\ work' \in [Requests -> Work \cup {Idle}] /\ work'[r] = Idle
        /\ \A q \in Requests : q # r => work'[q] = work[q]
    BY <1>0, <2>1
  <2>6. SetupTypes' /\ PagesOfAuthorizations'
    BY <1>0, <2>1, <2>4, <2>5 DEF SetupTypes, PagesOfAuthorizations
  <2>7. Submissions'
    <3>1. \A q \in Requests : SubmissionOf(work[q])'
      BY <1>0, <2>1, <2>5 DEF Submissions, SubmissionOf
    <3>2. ASSUME NEW n \in 1..Len(codes') PROVE CodeFrom(codes[n])'
      <4>1. CASE n \in 1..Len(codes)
        BY <1>0, <2>1, <2>4, <4>1 DEF Submissions, CodeFrom
      <4>2. CASE codes'[n] = code
        BY <2>1, <2>3, <4>2 DEF CodeFrom
      <4>3. QED
        BY <2>4, <4>1, <4>2
    <3>3. QED
      BY <3>1, <3>2 DEF Submissions
  <2>8. OneChance'
    <3>1. \A n \in 1..Len(codes') :
            \/ n \in 1..Len(codes) /\ codes'[n] = codes[n]
               /\ codes'[n].auth # work[r].page.auth
            \/ n = Len(codes) + 1 /\ codes'[n].auth = work[r].page.auth
      BY <1>0, <2>2, <2>3, <2>4 DEF OneChance, SubmissionExcludes
    <3>2. \A i \in DOMAIN setups' : PageExcludes(i)'
      BY <1>0, <2>1, <2>2, <2>5, <3>1 DEF OneChance, PageExcludes
    <3>3. ASSUME NEW q \in Requests PROVE SubmissionExcludes(q)'
      <4>1. SUFFICES ASSUME work'[q] # Idle PROVE SubmissionExcludes(q)'
        BY DEF SubmissionExcludes
      <4>2. q # r /\ work'[q] = work[q] /\ work[q].page.auth # work[r].page.auth
        BY <1>0, <2>2, <2>5, <4>1 DEF OneChance, SubmissionExcludes
      <4>3. QED
        BY <1>0, <2>5, <3>1, <4>1, <4>2 DEF OneChance, SubmissionExcludes
    <3>4. \A m, n \in 1..Len(codes') : codes'[m].auth = codes'[n].auth => m = n
      BY <1>0, <3>1 DEF OneChance
    <3>5. QED
      BY <3>2, <3>3, <3>4 DEF OneChance
  <2>9. QED
    BY <2>6, <2>7, <2>8 DEF SetupInv
<1>5. CASE Restart
  <2>1. /\ UNCHANGED <<now, pages, codes, minted, refused, begun>>
        /\ DOMAIN setups' = {} /\ work' = [r \in Requests |-> Idle]
    BY <1>5 DEF Restart, EmptyStore
  <2>2. SetupTypes' /\ PagesOfAuthorizations'
    BY <1>0, <2>1 DEF SetupTypes, PagesOfAuthorizations
  <2>3. Submissions' /\ OneChance'
    BY <1>0, <2>1 DEF Submissions, SubmissionOf, CodeFrom, OneChance, PageExcludes,
       SubmissionExcludes
  <2>4. QED
    BY <2>2, <2>3 DEF SetupInv
<1>6. CASE (\E id \in Ids(codeStore) : Exchanged(id)) \/ Tick \/ UNCHANGED vars
  <2>1. UNCHANGED <<setups, pages, work, codes, minted, refused, begun>> /\ now' \in Nat
    BY <1>0, <1>6 DEF Exchanged, Tick, vars
  <2>2. SetupTypes' /\ PagesOfAuthorizations'
    BY <1>0, <2>1 DEF SetupTypes, PagesOfAuthorizations
  <2>3. Submissions' /\ OneChance'
    BY <1>0, <2>1 DEF Submissions, SubmissionOf, CodeFrom, OneChance, PageExcludes,
       SubmissionExcludes
  <2>4. QED
    BY <2>2, <2>3 DEF SetupInv
<1>7. QED
  BY <1>1, <1>2, <1>3, <1>4, <1>5, <1>6 DEF Next

\* A page once rendered is not changed.
LEMMA PagesStay ==
  ASSUME SetupInv, Next
  PROVE  \A id \in 1..Len(pages) : id \in 1..Len(pages') /\ pages'[id] = pages[id]
<1>1. pages \in Seq(Page)
  BY DEF SetupInv, SetupTypes
<1>2. pages' = pages \/ \E page : pages' = Append(pages, page)
  BY DEF Next, Begin, Submit, Validate, Create, IssueCode, Exchanged, Restart, Tick, Renders
<1>3. CASE pages' = pages
  BY <1>3
<1>4. ASSUME NEW page, pages' = Append(pages, page)
      PROVE  \A id \in 1..Len(pages) : id \in 1..Len(pages') /\ pages'[id] = pages[id]
  BY <1>1, <1>4
<1>5. QED
  BY <1>2, <1>3, <1>4

-----------------------------------------------------------------------------
(* The rate limiter.                                                          *)

LimiterTypes ==
  /\ now \in 0..MaxTokenTime /\ attempts \in [Keys -> 0..MaxAttempts]
  /\ DOMAIN entries \subseteq Keys
  /\ \A k \in DOMAIN entries : entries[k].started \in 0..now /\ entries[k].count \in Nat \ {0}
  /\ allowed \in [Keys -> SUBSET L!Request]

\* What a key was allowed from a time on, and in the Window up to just before it.
Since(E, t) == {q \in E : q.time >= t}
Before(E, t) == {q \in E : q.time < t /\ t < q.time + Window}

\* A key whose window was dropped: what it was allowed is past, and at most one window's.
Quiet(E, t) == (\A q \in E : q.time < t) /\ Cardinality(Before(E, t)) <= Limit

\* The requests of a key's window are those it counted, up to the limit; of the windows
\* before, at most the limit is less than a Window ago.
InWindow(E, window) ==
  /\ \A q \in E : q.time < window.started + Window
  /\ Cardinality(Since(E, window.started)) = IF window.count <= Limit THEN window.count ELSE Limit
  /\ Cardinality(Before(E, window.started)) <= Limit

\* What was allowed is past, and of this instant are only attempts made by now.
Allowed(E, t, tries) ==
  IsFiniteSet(E) /\ \A q \in E : q.time <= t /\ (q.time = t => q.nth < tries)

KeyInv(k) ==
  /\ Allowed(allowed[k], now, attempts[k])
  /\ k \in DOMAIN entries => InWindow(allowed[k], entries[k])
  /\ k \notin DOMAIN entries => Quiet(allowed[k], now)

LimiterInv ==
  /\ LimiterTypes
  /\ \A k \in Keys : KeyInv(k)
  /\ L!TwiceTheLimitAtMost /\ L!DeniedForCause

\* Cardinality means the same in the limiter.
LEMMA SameCardinality ==
  ASSUME NEW C
  PROVE  L!Cardinality(C) = Cardinality(C)
BY DEF Cardinality, L!Cardinality

\* The windows that are not over.
LEMMA Currently ==
  /\ DOMAIN L!Current = {k \in DOMAIN entries : L!Open(k)}
  /\ \A k \in DOMAIN L!Current : L!Current[k] = entries[k]
BY DEF L!Current, L!Restrict

\* Times are numbers.
LEMMA Times ==
  ASSUME LimiterTypes, NEW k \in Keys
  PROVE  \A q \in allowed[k] : q.time \in Nat /\ q.nth \in Nat
<1>1. allowed[k] \subseteq L!Request
  BY DEF LimiterTypes
<1>2. \A q \in L!Request : q.time \in Nat /\ q.nth \in Nat
  BY ServerAssumption DEF L!Request
<1>3. QED
  BY <1>1, <1>2

\* A part of a finite set has no more elements.
LEMMA Fewer ==
  ASSUME NEW C, IsFiniteSet(C), NEW U, U \subseteq C
  PROVE  /\ IsFiniteSet(U) /\ Cardinality(U) \in Nat /\ Cardinality(C) \in Nat
         /\ Cardinality(U) <= Cardinality(C)
<1>1. U \in SUBSET C
  OBVIOUS
<1>2. IsFiniteSet(U) /\ Cardinality(U) <= Cardinality(C)
  BY <1>1, FS_Subset
<1>3. QED
  BY <1>2, FS_CardinalityType

\* A window that is over can be dropped.
LEMMA Quieted ==
  ASSUME LimiterTypes, NEW k \in Keys, KeyInv(k), k \notin DOMAIN L!Current
  PROVE  Quiet(allowed[k], now)
<1>1. CASE k \notin DOMAIN entries
  BY <1>1 DEF KeyInv
<1>2. CASE k \in DOMAIN entries
  <2>1. ~L!Open(k)
    BY <1>2, Currently
  <2>2. entries[k].started \in Nat /\ now \in Nat /\ entries[k].started + Window <= now
    BY <1>2, <2>1, ServerAssumption DEF LimiterTypes, L!Open
  <2>3. InWindow(allowed[k], entries[k]) /\ IsFiniteSet(allowed[k])
    BY <1>2 DEF KeyInv, Allowed
  <2>4. \A q \in allowed[k] : q.time < now
    BY <2>2, <2>3, Times, ServerAssumption DEF InWindow
  <2>5. Before(allowed[k], now) \subseteq Since(allowed[k], entries[k].started)
    BY <2>2, Times, ServerAssumption DEF Before, Since
  <2>6. Since(allowed[k], entries[k].started) \subseteq allowed[k]
    BY DEF Since
  <2>7. Cardinality(Since(allowed[k], entries[k].started)) <= Limit
    BY <1>2, <2>3, ServerAssumption DEF InWindow, LimiterTypes
  <2>8. IsFiniteSet(Since(allowed[k], entries[k].started))
    BY <2>3, <2>6, Fewer
  <2>9. Cardinality(Before(allowed[k], now)) \in Nat /\ Cardinality(Since(allowed[k], entries[k].started)) \in Nat
        /\ Cardinality(Before(allowed[k], now)) <= Cardinality(Since(allowed[k], entries[k].started))
    BY <2>5, <2>8, Fewer
  <2>10. Cardinality(Before(allowed[k], now)) <= Limit
    BY <2>7, <2>9, ServerAssumption
  <2>11. QED
    BY <2>4, <2>10 DEF Quiet
<1>3. QED
  BY <1>1, <1>2

\* No more than two windows fill the last Window of time.
LEMMA NowAtMostTwice ==
  ASSUME LimiterTypes, NEW k \in Keys, KeyInv(k)
  PROVE  L!AllowedBy(k, now) <= 2 * Limit
<1>1. IsFiniteSet(allowed[k]) /\ Limit \in Nat /\ now \in Nat
  BY ServerAssumption DEF KeyInv, Allowed, LimiterTypes
<1>2. CASE k \notin DOMAIN entries
  <2>1. Quiet(allowed[k], now)
    BY <1>2 DEF KeyInv
  <2>2. L!Recent(k, now) \subseteq Before(allowed[k], now)
    BY <2>1 DEF Quiet, L!Recent, Before
  <2>3. Before(allowed[k], now) \subseteq allowed[k]
    BY DEF Before
  <2>4. IsFiniteSet(Before(allowed[k], now))
    BY <1>1, <2>3, Fewer
  <2>5. Cardinality(L!Recent(k, now)) \in Nat /\ Cardinality(Before(allowed[k], now)) \in Nat
        /\ Cardinality(L!Recent(k, now)) <= Cardinality(Before(allowed[k], now))
    BY <2>2, <2>4, Fewer
  <2>6. Cardinality(Before(allowed[k], now)) <= Limit
    BY <2>1 DEF Quiet
  <2>7. Cardinality(L!Recent(k, now)) <= 2 * Limit
    BY <1>1, <2>5, <2>6
  <2>8. QED
    BY <2>7, SameCardinality DEF L!AllowedBy
<1>3. CASE k \in DOMAIN entries
  <2> DEFINE s == entries[k].started
  <2>1. InWindow(allowed[k], entries[k]) /\ s \in Nat /\ s <= now /\ entries[k].count \in Nat
    BY <1>1, <1>3 DEF KeyInv, LimiterTypes
  <2>2. L!Recent(k, now) \subseteq Since(allowed[k], s) \cup Before(allowed[k], s)
    BY <1>1, <2>1, Times, ServerAssumption DEF L!Recent, Since, Before
  <2>3. Since(allowed[k], s) \subseteq allowed[k] /\ Before(allowed[k], s) \subseteq allowed[k]
    BY DEF Since, Before
  <2>4. IsFiniteSet(Since(allowed[k], s)) /\ IsFiniteSet(Before(allowed[k], s))
    BY <1>1, <2>3, Fewer
  <2>5. IsFiniteSet(Since(allowed[k], s) \cup Before(allowed[k], s))
        /\ Cardinality(Since(allowed[k], s) \cup Before(allowed[k], s))
           = Cardinality(Since(allowed[k], s)) + Cardinality(Before(allowed[k], s)) - Cardinality(Since(allowed[k], s) \cap Before(allowed[k], s))
    BY <2>4, FS_Union
  <2>6. Cardinality(Since(allowed[k], s) \cap Before(allowed[k], s)) \in Nat
    BY <2>4, Fewer
  <2>7. Cardinality(Since(allowed[k], s)) \in Nat /\ Cardinality(Before(allowed[k], s)) \in Nat
    BY <2>4, FS_CardinalityType
  <2>8. Cardinality(Since(allowed[k], s)) <= Limit /\ Cardinality(Before(allowed[k], s)) <= Limit
    BY <1>1, <2>1 DEF InWindow
  <2>9. Cardinality(L!Recent(k, now)) \in Nat
        /\ Cardinality(L!Recent(k, now)) <= Cardinality(Since(allowed[k], s) \cup Before(allowed[k], s))
    BY <2>2, <2>5, Fewer
  <2>10. Cardinality(L!Recent(k, now)) <= 2 * Limit
    BY <1>1, <2>5, <2>6, <2>7, <2>8, <2>9
  <2>11. QED
    BY <2>10, SameCardinality DEF L!AllowedBy
<1>4. QED
  BY <1>2, <1>3

\* An attempt of one key leaves every other its window, or drops that as over.
LEMMA OthersKept ==
  ASSUME LimiterTypes, NEW k \in Keys, L!Allow(k), NEW j \in Keys, j # k, KeyInv(j)
  PROVE  KeyInv(j)'
<1>1. now' = now /\ allowed'[j] = allowed[j] /\ attempts'[j] = attempts[j]
  BY DEF L!Allow, LimiterTypes
<1>2. Allowed(allowed'[j], now', attempts'[j])
  BY <1>1 DEF KeyInv, Allowed
<1>3. j \in DOMAIN entries' <=> j \in DOMAIN L!Current
  BY DEF L!Allow
<1>4. CASE j \in DOMAIN L!Current
  <2>1. entries'[j] = entries[j] /\ j \in DOMAIN entries
    BY <1>4, Currently DEF L!Allow
  <2>2. InWindow(allowed[j], entries[j])
    BY <2>1 DEF KeyInv
  <2>3. InWindow(allowed'[j], entries'[j])
    BY <1>1, <2>1, <2>2 DEF InWindow, Since, Before
  <2>4. QED
    BY <1>2, <1>3, <1>4, <2>3 DEF KeyInv
<1>5. CASE j \notin DOMAIN L!Current
  <2>1. Quiet(allowed[j], now)
    BY <1>5, Quieted
  <2>2. Quiet(allowed'[j], now')
    BY <1>1, <2>1 DEF Quiet, Before
  <2>3. QED
    BY <1>2, <1>3, <1>5, <2>2 DEF KeyInv
<1>6. QED
  BY <1>4, <1>5

\* A key turned away because the table is full has no window, as before.
LEMMA FullKept ==
  ASSUME LimiterTypes, NEW k \in Keys, KeyInv(k), L!Allow(k),
         k \notin DOMAIN L!Current, L!Full
  PROVE  KeyInv(k)'
<1>1. now' = now /\ allowed' = allowed /\ attempts' = [attempts EXCEPT ![k] = @ + 1]
      /\ k \notin DOMAIN entries'
  BY DEF L!Allow
<1>2. attempts[k] \in Nat /\ attempts'[k] = attempts[k] + 1 /\ now \in Nat
  BY <1>1, ServerAssumption DEF LimiterTypes
<1>3. Quiet(allowed[k], now) /\ Allowed(allowed[k], now, attempts[k])
  BY Quieted DEF KeyInv
<1>4. Quiet(allowed'[k], now')
  BY <1>1, <1>3 DEF Quiet, Before
<1>5. Allowed(allowed'[k], now', attempts'[k])
  BY <1>1, <1>2, <1>3, Times DEF Allowed, Quiet
<1>6. QED
  BY <1>1, <1>4, <1>5 DEF KeyInv

\* A key that gets as far as its counter has a window; what it was allowed before, less
\* this attempt, is what the counter says.
LEMMA CountingWindow ==
  ASSUME LimiterTypes, NEW k \in Keys, KeyInv(k), NEW w, w = L!Counted(k)
  PROVE  /\ w.started \in 0..now /\ w.count \in Nat \ {0} /\ now < w.started + Window
         /\ InWindow(allowed[k], [started |-> w.started, count |-> w.count - 1])
<1>1. Limit \in Nat \ {0} /\ Window \in Nat \ {0} /\ now \in Nat
  BY ServerAssumption DEF LimiterTypes
<1>2. CASE k \in DOMAIN L!Current
  <2>1. k \in DOMAIN entries /\ L!Open(k) /\ L!Current[k] = entries[k]
    BY <1>2, Currently
  <2>2. entries[k].started \in 0..now /\ entries[k].count \in Nat \ {0}
    BY <2>1 DEF LimiterTypes
  <2>3. w = [entries[k] EXCEPT !.count = @ + 1]
    BY <1>2, <2>1 DEF L!Counted
  <2>4. w.started = entries[k].started /\ w.count = entries[k].count + 1
    BY <2>3
  <2>5. InWindow(allowed[k], entries[k])
    BY <2>1 DEF KeyInv
  <2>6. now < w.started + Window
    BY <1>1, <2>1, <2>2, <2>4 DEF L!Open
  <2>7. w.count - 1 = entries[k].count
    BY <2>2, <2>4
  <2>8. InWindow(allowed[k], [started |-> w.started, count |-> w.count - 1])
    BY <2>4, <2>5, <2>7 DEF InWindow
  <2>9. QED
    BY <2>2, <2>4, <2>6, <2>8
<1>3. CASE k \notin DOMAIN L!Current
  <2>1. Quiet(allowed[k], now)
    BY <1>3, Quieted
  <2>2. w.started = now /\ w.count = 1
    BY <1>3 DEF L!Counted
  <2>3. Since(allowed[k], now) = {}
    BY <1>1, <2>1, Times DEF Quiet, Since
  <2>4. Cardinality(Since(allowed[k], now)) = 0
    BY <2>3, FS_EmptySet
  <2>5. \A q \in allowed[k] : q.time < now + Window
    BY <1>1, <2>1, Times DEF Quiet
  <2>6. InWindow(allowed[k], [started |-> now, count |-> 0])
    BY <1>1, <2>1, <2>4, <2>5 DEF Quiet, InWindow
  <2>7. w.count - 1 = 0
    BY <2>2
  <2>8. QED
    BY <1>1, <2>2, <2>6, <2>7
<1>4. QED
  BY <1>2, <1>3

\* One more request of a window that is not over.
LEMMA OneMore ==
  ASSUME NEW E, IsFiniteSet(E), \A q \in E : q.time \in Nat, NEW x, x \notin E, x.time \in Nat,
         NEW start \in Nat, start <= x.time, x.time < start + Window,
         NEW n \in Nat \ {0}, n <= Limit, InWindow(E, [started |-> start, count |-> n - 1])
  PROVE  InWindow(E \cup {x}, [started |-> start, count |-> n])
<1>1. Limit \in Nat \ {0} /\ Window \in Nat \ {0}
  BY ServerAssumption
<1>2. /\ \A q \in E : q.time < start + Window
      /\ Cardinality(Since(E, start)) = IF n - 1 <= Limit THEN n - 1 ELSE Limit
      /\ Cardinality(Before(E, start)) <= Limit
  BY DEF InWindow
<1>3. Since(E \cup {x}, start) = Since(E, start) \cup {x} /\ Before(E \cup {x}, start) = Before(E, start)
  BY <1>1 DEF Since, Before
<1>4. Since(E, start) \subseteq E
  BY DEF Since
<1>5. IsFiniteSet(Since(E, start)) /\ x \notin Since(E, start)
  BY <1>4, Fewer
<1>6. Cardinality(Since(E, start) \cup {x}) = Cardinality(Since(E, start)) + 1
  BY <1>5, FS_AddElement
<1>7. Cardinality(Since(E \cup {x}, start)) = n
  <2>1. n \in Int /\ n - 1 <= Limit /\ (n - 1) + 1 = n
    BY <1>1
  <2>2. Cardinality(Since(E, start)) = n - 1
    BY <1>2, <2>1
  <2>3. QED
    BY <1>3, <1>6, <2>1, <2>2
<1> DEFINE window == [started |-> start, count |-> n]
<1>9. window.started = start /\ window.count = n
  OBVIOUS
<1> HIDE DEF window
<1>10. \A q \in E \cup {x} : q.time < window.started + Window
  BY <1>2, <1>9
<1>11. /\ Cardinality(Since(E \cup {x}, window.started)) = n
       /\ Cardinality(Before(E \cup {x}, window.started)) <= Limit
  BY <1>2, <1>3, <1>7, <1>9
<1>12. InWindow(E \cup {x}, window)
  BY <1>9, <1>10, <1>11 DEF InWindow
<1>13. QED
  BY <1>12 DEF window

\* An attempt that was counted leaves its key a window that counted it.
LEMMA CountedKept ==
  ASSUME LimiterTypes, NEW k \in Keys, KeyInv(k), L!Allow(k),
         k \in DOMAIN L!Current \/ ~L!Full
  PROVE  KeyInv(k)'
<1>1. PICK w : w = L!Counted(k)
  OBVIOUS
<1>2. PICK x : x = L!ThisRequest(k)
  OBVIOUS
<1>3. /\ now' = now /\ attempts' = [attempts EXCEPT ![k] = @ + 1]
      /\ k \in DOMAIN entries' /\ entries'[k] = w
      /\ w.count <= Limit => allowed' = [allowed EXCEPT ![k] = @ \cup {x}]
      /\ ~(w.count <= Limit) => allowed' = allowed
  BY <1>1, <1>2 DEF L!Allow
<1>4. /\ now \in Nat /\ attempts[k] \in Nat /\ attempts'[k] = attempts[k] + 1
      /\ Limit \in Nat \ {0} /\ Window \in Nat \ {0}
  BY <1>3, ServerAssumption DEF LimiterTypes
<1>5. /\ w.started \in 0..now /\ w.count \in Nat \ {0} /\ now < w.started + Window
      /\ InWindow(allowed[k], [started |-> w.started, count |-> w.count - 1])
  BY <1>1, CountingWindow
<1>6. Allowed(allowed[k], now, attempts[k])
  BY DEF KeyInv
<1>7. x.time = now /\ x.nth = attempts[k]
  BY <1>2 DEF L!ThisRequest
<1>8. CASE w.count <= Limit
  <2>1. allowed'[k] = allowed[k] \cup {x}
    BY <1>3, <1>8 DEF LimiterTypes
  <2>2. IsFiniteSet(allowed[k]) /\ x \notin allowed[k]
    BY <1>4, <1>6, <1>7 DEF Allowed
  <2>3. IsFiniteSet(allowed'[k])
    BY <2>1, <2>2, FS_AddElement
  <2>4. \A q \in allowed'[k] : q.time <= now' /\ (q.time = now' => q.nth < attempts'[k])
    BY <1>3, <1>4, <1>6, <1>7, <2>1, Times DEF Allowed
  <2>5. \A q \in allowed[k] : q.time \in Nat
    BY Times
  <2>6. InWindow(allowed[k] \cup {x}, [started |-> w.started, count |-> w.count])
    BY <1>4, <1>5, <1>7, <1>8, <2>2, <2>5, OneMore
  <2>7. InWindow(allowed'[k], w)
    BY <2>1, <2>6 DEF InWindow
  <2>8. QED
    BY <1>3, <2>3, <2>4, <2>7 DEF KeyInv, Allowed
<1>9. CASE ~(w.count <= Limit)
  <2>1. allowed' = allowed
    BY <1>3, <1>9
  <2>2. InWindow(allowed[k], w)
    BY <1>4, <1>5, <1>9 DEF InWindow
  <2>3. Allowed(allowed'[k], now', attempts'[k])
    BY <1>3, <1>4, <1>6, <2>1, Times DEF Allowed
  <2>4. QED
    BY <1>3, <2>1, <2>2, <2>3 DEF KeyInv
<1>10. QED
  BY <1>8, <1>9

\* What an attempt writes is of its type.
LEMMA LimiterTypesKept ==
  ASSUME LimiterTypes, \A k \in Keys : KeyInv(k), L!Next
  PROVE  LimiterTypes'
<1>1. ASSUME NEW k \in Keys, L!Allow(k) PROVE LimiterTypes'
  <2>1. now' = now /\ attempts[k] < MaxAttempts /\ attempts' = [attempts EXCEPT ![k] = @ + 1]
    BY <1>1 DEF L!Allow
  <2>2. attempts' \in [Keys -> 0..MaxAttempts]
    BY <2>1, ServerAssumption DEF LimiterTypes
  <2>3. \A j \in DOMAIN L!Current : j \in DOMAIN entries /\ L!Current[j] = entries[j]
    BY Currently
  <2>4. DOMAIN entries' \subseteq DOMAIN L!Current \cup {k}
    BY <1>1 DEF L!Allow
  <2>5. DOMAIN entries' \subseteq Keys
    BY <2>3, <2>4 DEF LimiterTypes
  <2>6. PICK w : w = L!Counted(k)
    OBVIOUS
  <2>7. w.started \in 0..now /\ w.count \in Nat \ {0}
    BY <2>6, CountingWindow
  <2>8. \A j \in DOMAIN entries' : entries'[j] = w \/ (j \in DOMAIN L!Current /\ entries'[j] = L!Current[j])
    BY <1>1, <2>6 DEF L!Allow
  <2>9. \A j \in DOMAIN entries' : entries'[j].started \in 0..now' /\ entries'[j].count \in Nat \ {0}
    BY <2>1, <2>3, <2>7, <2>8 DEF LimiterTypes
  <2>10. allowed' \in [Keys -> SUBSET L!Request]
    <3>1. PICK x : x = L!ThisRequest(k)
      OBVIOUS
    <3>2. x \in L!Request
      BY <2>1, <3>1, ServerAssumption DEF L!ThisRequest, L!Request, LimiterTypes
    <3>3. allowed' = allowed \/ allowed' = [allowed EXCEPT ![k] = @ \cup {x}]
      BY <1>1, <3>1 DEF L!Allow
    <3>4. QED
      BY <3>2, <3>3 DEF LimiterTypes
  <2>11. QED
    BY <2>1, <2>2, <2>5, <2>9, <2>10 DEF LimiterTypes
<1>2. CASE L!Tick
  <2>1. /\ now < MaxTokenTime /\ now' = now + 1 /\ UNCHANGED <<entries, allowed>>
        /\ attempts' = [k \in Keys |-> 0]
    BY <1>2 DEF L!Tick
  <2>2. now' \in 0..MaxTokenTime /\ now \in Nat /\ attempts' \in [Keys -> 0..MaxAttempts]
    BY <2>1, ServerAssumption DEF LimiterTypes
  <2>3. QED
    BY <2>1, <2>2 DEF LimiterTypes
<1>3. QED
  BY <1>1, <1>2 DEF L!Next

\* Time makes what was allowed older.
LEMMA TimePasses ==
  ASSUME LimiterTypes, NEW k \in Keys, KeyInv(k), L!Tick
  PROVE  KeyInv(k)'
<1>1. /\ now' = now + 1 /\ entries' = entries /\ allowed' = allowed /\ now \in Nat
      /\ Window \in Nat \ {0} /\ Limit \in Nat
  BY ServerAssumption DEF L!Tick, LimiterTypes
<1>2. Allowed(allowed[k], now, attempts[k])
  BY DEF KeyInv
<1>3. \A q \in allowed[k] : q.time < now'
  BY <1>1, <1>2, Times DEF Allowed
<1>4. Allowed(allowed'[k], now', attempts'[k])
  <2>1. \A q \in allowed[k] : q.time \in Nat /\ q.time # now' /\ q.time <= now'
    BY <1>1, <1>3, Times
  <2>2. allowed'[k] = allowed[k] /\ IsFiniteSet(allowed[k])
    BY <1>1, <1>2 DEF Allowed
  <2>3. QED
    BY <2>1, <2>2 DEF Allowed
<1>5. ASSUME k \notin DOMAIN entries PROVE Quiet(allowed[k], now')
  <2>1. Quiet(allowed[k], now)
    BY <1>5 DEF KeyInv
  <2>2. Before(allowed[k], now') \subseteq Before(allowed[k], now) /\ Before(allowed[k], now) \subseteq allowed[k]
    BY <1>1, <2>1, Times DEF Quiet, Before
  <2>3. IsFiniteSet(Before(allowed[k], now))
    BY <1>2, <2>2, Fewer DEF Allowed
  <2>4. /\ Cardinality(Before(allowed[k], now')) \in Nat /\ Cardinality(Before(allowed[k], now)) \in Nat
        /\ Cardinality(Before(allowed[k], now')) <= Cardinality(Before(allowed[k], now))
    BY <2>2, <2>3, Fewer
  <2>5. QED
    BY <1>1, <1>3, <2>1, <2>4 DEF Quiet
<1>6. QED
  BY <1>1, <1>4, <1>5 DEF KeyInv

\* What is known of all keys, and what follows for this instant.
Keyed == LimiterTypes /\ \A k \in Keys : KeyInv(k)
NowTwice == \A k \in Keys : L!AllowedBy(k, now) <= 2 * Limit

LEMMA NowBounded == Keyed => NowTwice
BY NowAtMostTwice DEF Keyed, NowTwice

LEMMA NextBounded == Keyed' => NowTwice'
BY NowBounded, PTL

\* An attempt in its parts.
LEMMA Attempt ==
  ASSUME NEW k \in Keys, NEW w, w = L!Counted(k), NEW x, x = L!ThisRequest(k), L!Allow(k)
  PROVE  /\ now' = now
         /\ k \notin DOMAIN L!Current /\ L!Full =>
              denied' = [key |-> k, full |-> TRUE] /\ allowed' = allowed
         /\ (k \in DOMAIN L!Current \/ ~L!Full) /\ w.count <= Limit =>
              denied' = L!Nobody /\ allowed' = [allowed EXCEPT ![k] = @ \cup {x}]
         /\ (k \in DOMAIN L!Current \/ ~L!Full) /\ ~(w.count <= Limit) =>
              denied' = [key |-> k, full |-> FALSE] /\ allowed' = allowed
<1>1. now' = now
  BY DEF L!Allow
<1>2. ASSUME k \notin DOMAIN L!Current, L!Full
      PROVE  denied' = [key |-> k, full |-> TRUE] /\ allowed' = allowed
  BY <1>2 DEF L!Allow
<1>3. ASSUME k \in DOMAIN L!Current \/ ~L!Full, w.count <= Limit
      PROVE  denied' = L!Nobody /\ allowed' = [allowed EXCEPT ![k] = @ \cup {x}]
  BY <1>3 DEF L!Allow
<1>4. ASSUME k \in DOMAIN L!Current \/ ~L!Full, ~(w.count <= Limit)
      PROVE  denied' = [key |-> k, full |-> FALSE] /\ allowed' = allowed
  BY <1>4 DEF L!Allow
<1>5. QED
  BY <1>1, <1>2, <1>3, <1>4

\* The history only grows, and by requests of this instant.
LEMMA HistoryGrows ==
  ASSUME LimiterTypes, L!Next, NEW j \in Keys
  PROVE  /\ now' = now \/ (now' = now + 1 /\ allowed' = allowed)
         /\ allowed[j] \subseteq allowed'[j]
         /\ \A q \in allowed'[j] : q \in allowed[j] \/ q.time = now'
<1>1. ASSUME NEW k \in Keys, L!Allow(k)
      PROVE  /\ now' = now /\ allowed[j] \subseteq allowed'[j]
             /\ \A q \in allowed'[j] : q \in allowed[j] \/ q.time = now'
  <2>1. PICK w : w = L!Counted(k)
    OBVIOUS
  <2>2. PICK x : x = L!ThisRequest(k)
    OBVIOUS
  <2>3. x.time = now
    BY <2>2 DEF L!ThisRequest
  <2>4. now' = now /\ (allowed' = allowed \/ allowed' = [allowed EXCEPT ![k] = @ \cup {x}])
    BY <1>1, <2>1, <2>2, Attempt
  <2>5. QED
    BY <2>3, <2>4 DEF LimiterTypes
<1>2. CASE L!Tick
  BY <1>2 DEF L!Tick
<1>3. QED
  BY <1>1, <1>2 DEF L!Next

\* The two promises follow, for the past because it does not change.
LEMMA TwiceKept ==
  ASSUME LimiterInv, L!Next, Keyed'
  PROVE  L!TwiceTheLimitAtMost'
<1>1. SUFFICES ASSUME NEW k \in Keys, NEW t \in 0..now' PROVE L!AllowedBy(k, t)' <= 2 * Limit
  BY DEF L!TwiceTheLimitAtMost
<1>2. LimiterTypes
  BY DEF LimiterInv
<1>3. now \in Nat /\ t \in Nat /\ t <= now' /\ now' \in Nat
  BY <1>2, ServerAssumption, HistoryGrows DEF LimiterTypes
<1>4. CASE t = now'
  BY <1>4, NextBounded DEF NowTwice
<1>5. CASE t < now'
  <2>1. t \in 0..now
    BY <1>2, <1>3, <1>5, HistoryGrows
  <2>2. L!AllowedBy(k, t) <= 2 * Limit
    BY <2>1 DEF LimiterInv, L!TwiceTheLimitAtMost
  <2>3. \A q \in allowed'[k] : q.time <= t => q \in allowed[k]
    BY <1>2, <1>3, <1>5, HistoryGrows
  <2>4. allowed[k] \subseteq allowed'[k]
    BY <1>2, HistoryGrows
  <2>5. L!Recent(k, t)' = L!Recent(k, t)
    BY <2>3, <2>4 DEF L!Recent
  <2>6. L!AllowedBy(k, t)' = L!AllowedBy(k, t)
    BY <2>5, SameCardinality DEF L!AllowedBy
  <2>7. QED
    BY <2>2, <2>6
<1>6. QED
  BY <1>3, <1>4, <1>5

\* A denial leaves the window that caused it as it was.
LEMMA DenialsKept ==
  ASSUME LimiterInv, L!Next
  PROVE  L!DeniedForCause'
<1>1. CASE L!Tick
  BY <1>1 DEF L!Tick, L!DeniedForCause
<1>2. ASSUME NEW k \in Keys, L!Allow(k), denied' # L!Nobody, ~denied'.full
      PROVE  L!AllowedBy(denied.key, now)' >= Limit
  <2>1. PICK w : w = L!Counted(k)
    OBVIOUS
  <2> PICK x : x = L!ThisRequest(k)
    OBVIOUS
  <2>0. [key |-> k, full |-> TRUE].full = TRUE /\ [key |-> k, full |-> FALSE].key = k
    OBVIOUS
  <2>2. /\ denied'.key = k /\ ~(w.count <= Limit) /\ now' = now /\ allowed' = allowed
        /\ k \in DOMAIN L!Current \/ ~L!Full
    BY <1>2, <2>0, <2>1, Attempt
  <2>3. LimiterTypes /\ KeyInv(k) /\ Limit \in Nat \ {0} /\ Window \in Nat /\ now \in Nat
    BY ServerAssumption DEF LimiterInv, LimiterTypes
  <2>4. /\ w.started \in 0..now /\ w.count \in Nat \ {0} /\ now < w.started + Window
        /\ InWindow(allowed[k], [started |-> w.started, count |-> w.count - 1])
    BY <2>1, <2>3, CountingWindow
  <2>5. Cardinality(Since(allowed[k], w.started)) = IF w.count - 1 <= Limit THEN w.count - 1 ELSE Limit
    BY <2>4 DEF InWindow
  <2>6. Cardinality(Since(allowed[k], w.started)) = Limit
    BY <2>2, <2>3, <2>4, <2>5
  <2>7. Allowed(allowed[k], now, attempts[k])
    BY <2>3 DEF KeyInv
  <2>8. Since(allowed[k], w.started) \subseteq L!Recent(k, now)
    BY <2>3, <2>4, <2>7, Times DEF Allowed, Since, L!Recent
  <2>9. L!Recent(k, now) \subseteq allowed[k]
    BY DEF L!Recent
  <2>10. IsFiniteSet(L!Recent(k, now))
    BY <2>7, <2>9, Fewer DEF Allowed
  <2>11. Cardinality(L!Recent(k, now)) >= Limit
    BY <2>3, <2>6, <2>8, <2>10, Fewer
  <2>12. L!Recent(denied.key, now)' = L!Recent(k, now)
    BY <2>2 DEF L!Recent
  <2>13. QED
    BY <2>11, <2>12, SameCardinality DEF L!AllowedBy
<1>3. QED
  BY <1>1, <1>2 DEF L!Next, L!DeniedForCause

\* The limiter starts with nothing allowed.
LEMMA LimiterStart == L!Init => LimiterInv
<1> SUFFICES ASSUME L!Init PROVE LimiterInv
  OBVIOUS
<1>1. /\ now = 0 /\ DOMAIN entries = {} /\ allowed = [k \in Keys |-> {}]
      /\ attempts = [k \in Keys |-> 0] /\ denied = L!Nobody
  BY DEF L!Init
<1>2. LimiterTypes
  BY <1>1, ServerAssumption DEF LimiterTypes
<1>3. ASSUME NEW k \in Keys PROVE KeyInv(k)
  <2>1. allowed[k] = {} /\ Before({}, now) = {} /\ Limit \in Nat
    BY <1>1, ServerAssumption DEF Before
  <2>2. IsFiniteSet({}) /\ Cardinality({}) = 0
    BY FS_EmptySet
  <2>3. Allowed({}, now, attempts[k])
    BY <2>2 DEF Allowed
  <2>4. Quiet({}, now)
    BY <2>1, <2>2 DEF Quiet
  <2>5. QED
    BY <1>1, <2>1, <2>3, <2>4 DEF KeyInv
<1>4. L!TwiceTheLimitAtMost
  BY <1>1, <1>2, <1>3, NowAtMostTwice DEF L!TwiceTheLimitAtMost
<1>5. L!DeniedForCause
  BY <1>1 DEF L!DeniedForCause
<1>6. QED
  BY <1>2, <1>3, <1>4, <1>5 DEF LimiterInv

LEMMA LimiterStep == LimiterInv /\ [L!Next]_L!vars => LimiterInv'
<1>1. ASSUME LimiterInv, UNCHANGED L!vars PROVE LimiterInv'
  <2>1. UNCHANGED <<now, entries, allowed, attempts, denied>>
    BY <1>1 DEF L!vars
  <2>2. LimiterTypes' /\ \A k \in Keys : KeyInv(k)'
    BY <1>1, <2>1 DEF LimiterInv, LimiterTypes, KeyInv, Allowed, InWindow, Quiet, Since, Before
  <2>3. L!TwiceTheLimitAtMost' /\ L!DeniedForCause'
    <3>1. \A k, t : L!Recent(k, t)' = L!Recent(k, t)
      BY <2>1 DEF L!Recent
    <3>2. \A k, t : L!AllowedBy(k, t)' = L!AllowedBy(k, t)
      BY <3>1, SameCardinality DEF L!AllowedBy
    <3>3. L!TwiceTheLimitAtMost'
      BY <1>1, <2>1, <3>2 DEF LimiterInv, L!TwiceTheLimitAtMost
    <3>4. L!DeniedForCause'
      BY <1>1, <2>1, <3>1, SameCardinality DEF LimiterInv, L!DeniedForCause, L!AllowedBy
    <3>5. QED
      BY <3>3, <3>4
  <2>4. QED
    BY <2>2, <2>3 DEF LimiterInv
<1>2. ASSUME LimiterInv, L!Next PROVE LimiterInv'
  <2>1. LimiterTypes /\ \A k \in Keys : KeyInv(k)
    BY <1>2 DEF LimiterInv
  <2>2. LimiterTypes'
    BY <1>2, <2>1, LimiterTypesKept
  <2>3. ASSUME NEW j \in Keys PROVE KeyInv(j)'
    <3>1. ASSUME NEW k \in Keys, L!Allow(k) PROVE KeyInv(j)'
      <4>1. CASE j # k
        BY <2>1, <3>1, <4>1, OthersKept
      <4>2. CASE j = k /\ k \notin DOMAIN L!Current /\ L!Full
        BY <2>1, <3>1, <4>2, FullKept
      <4>3. CASE j = k /\ (k \in DOMAIN L!Current \/ ~L!Full)
        BY <2>1, <3>1, <4>3, CountedKept
      <4>4. QED
        BY <4>1, <4>2, <4>3
    <3>2. CASE L!Tick
      BY <2>1, <3>2, TimePasses
    <3>3. QED
      BY <1>2, <3>1, <3>2 DEF L!Next
  <2>4. L!TwiceTheLimitAtMost' /\ L!DeniedForCause'
    BY <1>2, <2>2, <2>3, TwiceKept, DenialsKept DEF Keyed
  <2>5. QED
    BY <2>2, <2>3, <2>4 DEF LimiterInv
<1>3. QED
  BY <1>1, <1>2

-----------------------------------------------------------------------------
(* The server.                                                                *)

ServerInv ==
  /\ part = "authorization" => SetupInv
  /\ part = "token" => TokenInv
  /\ part = "bearer" => BearerInv
  /\ part = "limiter" => LimiterInv

\* Each part starts in its invariant and keeps to it, whatever is presented, in whatever
\* order, over restarts.
THEOREM ServerKept == ServerSpec => []ServerInv
<1>1. ServerInit => ServerInv
  BY SetupStart, TokenStart, BearerStart, LimiterStart DEF ServerInit, ServerInv
<1>2. ServerInv /\ [ServerNext]_<<vars, part, tokenVars, limiterVars, bearerVars>> => ServerInv'
  <2> SUFFICES ASSUME ServerInv, [ServerNext]_<<vars, part, tokenVars, limiterVars, bearerVars>>
               PROVE  ServerInv'
    OBVIOUS
  <2>1. /\ part' = part
        /\ part = "authorization" => [Next]_vars
        /\ part = "token" => [T!Next]_T!vars
        /\ part = "bearer" => [B!Next]_B!vars
        /\ part = "limiter" => [L!Next]_L!vars
    BY DEF ServerNext, vars, tokenVars, bearerVars, limiterVars, T!vars, B!vars, L!vars
  <2>2. QED
    BY <2>1, SetupStep, TokenStep, BearerStep, LimiterStep DEF ServerInv
<1>3. QED
  BY <1>1, <1>2, PTL DEF ServerSpec

\* A code opens one session, of its client, which no chain of refreshes outlasts, however
\* ExchangeAuthorizationCode and Refresh interleave and whenever the service restarts.
THEOREM SessionsKept == ServerSpec => []OneSession
<1>1. ServerInv => OneSession
  BY DEF ServerInv, OneSession, TokenInv, Sessions, PairOfSession, SessionOf, T!Issued,
     T!OneSessionPerCode, T!SessionConfined, T!SessionIsBounded, T!PairsStayWithClient
<1>2. QED
  BY <1>1, ServerKept, PTL

\* An assertion is accepted once in the life of the process (AssertionReplayStore.Use).
THEOREM AssertionsKept == ServerSpec => []UsedOnce
<1>1. ServerInv => UsedOnce
  BY DEF ServerInv, UsedOnce, TokenInv, TokenTypes, AssertionsRemembered, T!AssertionUsedOnce
<1>2. QED
  BY <1>1, ServerKept, PTL

\* However a key spreads its requests, no Window of time sees more than twice the Limit
\* of them allowed, and a key is denied only after Limit were, or for a full table
\* (RequestRateLimiter.Allow).
THEOREM LimitKept == ServerSpec => []TwiceTheLimit
<1>1. ServerInv => TwiceTheLimit
  BY DEF ServerInv, LimiterInv, TwiceTheLimit
<1>2. QED
  BY <1>1, ServerKept, PTL

\* A set no two of whose elements differ has one element or none.
LEMMA OneOrNone ==
  ASSUME NEW S, \A x, y \in S : x = y
  PROVE  Cardinality(S) = IF S = {} THEN 0 ELSE 1
<1>1. CASE S = {}
  BY <1>1, FS_EmptySet
<1>2. CASE S # {}
  <2>1. PICK x \in S : S = {x}
    BY <1>2
  <2>2. QED
    BY <2>1, FS_Singleton
<1>3. QED
  BY <1>1, <1>2

\* An authorization has one chance at a time and ends in one code (completeAuthorization);
\* what its code carries, and what a bootstrap request's bearer token carries, is a
\* credential InvenTree made for it, or one the user supplied after it would not.
THEOREM CredentialsKept == ServerSpec => []MintedOnce
<1>1. SetupInv => OneCodePerAuthorization
  <2> SUFFICES ASSUME SetupInv, NEW a \in 1..begun PROVE Chances(a) + CodesOf(a) <= 1
    BY DEF OneCodePerAuthorization
  <2> DEFINE P == {id \in DOMAIN Purged(setups, now) : pages[id].auth = a}
             R == {r \in Requests : work[r] # Idle /\ work[r].page.auth = a}
             C == {n \in 1..Len(codes) : codes[n].auth = a}
  <2>1. P \subseteq {id \in DOMAIN setups : pages[id].auth = a}
    BY DEF Purged, Restrict, Ids
  <2>2. /\ \A x, y \in P : x = y
        /\ \A x, y \in R : x = y
        /\ \A x, y \in C : x = y
    BY <2>1 DEF SetupInv, OneChance, PageExcludes, SubmissionExcludes
  <2>3. (P = {} \/ R = {}) /\ (P = {} \/ C = {}) /\ (R = {} \/ C = {})
    BY <2>1 DEF SetupInv, OneChance, PageExcludes, SubmissionExcludes
  <2>4. Chances(a) = Cardinality(P) + Cardinality(R) /\ CodesOf(a) = Cardinality(C)
    BY DEF Chances, CodesOf
  <2> HIDE DEF P, R, C
  <2>5. QED
    BY <2>2, <2>3, <2>4, OneOrNone
<1>2. SetupInv => CredentialOfCode
  BY DEF SetupInv, SetupTypes, Submissions, CodeFrom, OneChance, Code, CredentialOfCode,
     SuppliedOnlyAfterRefusal, DedicatedPerCode
<1>3. BearerInv => B!DedicatedToken
  <2> SUFFICES ASSUME BearerInv PROVE B!DedicatedToken
    OBVIOUS
  <2>1. \A n \in B!Bootstrapped :
          /\ envelopes[n].credential \in made
          /\ posts[envelopes[n].credential.post].at = "sealed"
          /\ \A m \in B!Bootstrapped :
               envelopes[m].credential.post = envelopes[n].credential.post => m = n
    <3>1. \A p \in Posts : B!Asked(p, posts[p].attempt).post = p
      BY AskedRecord DEF BearerInv, BearerTypes
    <3>2. QED
      BY <3>1 DEF BearerInv, SealedTokens, Sealable, B!Bootstrapped
  <2>2. \A t \in made \cup landing :
          /\ posts[t.post].at \notin {"new", "refused"}
          /\ t.attempt \in 1..posts[t.post].attempt
    <3> SUFFICES ASSUME NEW t \in made \cup landing
                 PROVE  /\ posts[t.post].at \notin {"new", "refused"}
                        /\ t.attempt \in 1..posts[t.post].attempt
      OBVIOUS
    <3>1. /\ t \in TokenRecords /\ posts[t.post].at \notin {"new", "admitted", "refused"}
          /\ t.attempt # 0 /\ t.attempt <= posts[t.post].attempt
      BY DEF BearerInv, BearerTypes, TokensOfAttempts
    <3>2. t.attempt \in Nat
      BY <3>1 DEF TokenRecords
    <3>3. posts[t.post].attempt \in Nat
      BY <3>1 DEF TokenRecords, BearerInv, BearerTypes
    <3>4. QED
      BY <3>1, <3>2, <3>3
  <2>3. QED
    BY <2>1, <2>2 DEF B!DedicatedToken, B!At, B!PostOf
<1>4. ServerInv => MintedOnce
  BY <1>1, <1>2, <1>3 DEF ServerInv, MintedOnce
<1>5. QED
  BY <1>4, ServerKept, PTL

\* A page rendered again keeps its authorization's deadline (renderSetup), and a bearer
\* token stays accepted over a rotation of the keys (Keyring).
THEOREM ValidityKept == ServerSpec => StaysValid
<1> DEFINE Deadline == part = "authorization" =>
      \A id \in 1..Len(pages) : \A later \in 1..Len(pages') :
        pages[id].auth = pages'[later].auth => pages'[later].expiry = pages[id].expiry
<1>1. ServerInv /\ ServerInv' /\ [ServerNext]_<<vars, part, tokenVars, limiterVars, bearerVars>>
      => [Deadline]_pages
  <2> SUFFICES ASSUME ServerInv, ServerInv', ServerNext, part = "authorization"
               PROVE  \A id \in 1..Len(pages) : \A later \in 1..Len(pages') :
                        pages[id].auth = pages'[later].auth =>
                          pages'[later].expiry = pages[id].expiry
    BY DEF vars
  <2>1. SetupInv /\ SetupInv' /\ Next
    BY DEF ServerInv, ServerNext
  <2>2. \A id \in 1..Len(pages) : id \in 1..Len(pages') /\ pages'[id] = pages[id]
    BY <2>1, PagesStay
  <2>3. QED
    BY <2>1, <2>2 DEF SetupInv, PagesOfAuthorizations
<1>2. ServerInv /\ [ServerNext]_<<vars, part, tokenVars, limiterVars, bearerVars>>
      => [part = "bearer" => B!RotationKept]_config
  <2> SUFFICES ASSUME ServerInv, ServerNext, part = "bearer", config' # config
               PROVE  B!RotationKept
    BY DEF vars, bearerVars
  <2>1. BearerInv /\ B!Next
    BY DEF ServerInv, ServerNext
  <2>2. QED
    BY <2>1, RotationStep
<1>3. QED
  BY <1>1, <1>2, ServerKept, PTL DEF ServerSpec, StaysValid
================================================================================
