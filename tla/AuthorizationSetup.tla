-------------------------- MODULE AuthorizationSetup --------------------------
(***************************************************************************)
(* The authorization endpoint (internal/oauth/authorization_server.go): an   *)
(* authorization request renders a setup page; submitting the page validates *)
(* the InvenTree credential, creates a dedicated InvenTree token and issues  *)
(* an authorization code, or renders the page again under a new setup ID.    *)
(*                                                                          *)
(* A page carries its state sealed, so any page ever rendered can be         *)
(* submitted at any time, twice and concurrently, also after a restart; only *)
(* the in-memory store of setup IDs says which still counts.  InvenTree is   *)
(* external and may refuse or fail at every call.                            *)
(***************************************************************************)
EXTENDS CodeStore, Sequences

CONSTANTS
  Requests,           \* concurrent submissions being handled
  MaxAuthorizations,  \* bound of the model: authorization requests
  MaxPages,           \* bound of the model: pages rendered
  MaxTime,            \* bound of the model
  MaxRestarts,        \* bound of the model
  CodeLifetime,       \* DefaultCodeLifetime, which setup pages share
  StoreMax            \* NewCodeStore's limit

ASSUME SetupAssumption ==
  /\ {MaxAuthorizations, MaxPages, MaxTime, MaxRestarts} \subseteq Nat
  /\ {CodeLifetime, StoreMax} \subseteq Nat \ {0}

VARIABLES
  now,
  setups,      \* SetupStore
  codeStore,   \* Service.CodeStore
  pages,       \* the sealed setup states rendered, one for each setup ID
  work,        \* the submission each request is handling
  codes,       \* history: the authorization codes issued
  minted,      \* history: dedicated InvenTree tokens created
  refused,     \* history: authorizations InvenTree refused a dedicated token
  begun,       \* history: authorization requests accepted
  restarts

vars == <<now, setups, codeStore, pages, work, codes, minted, refused, begun, restarts>>

\* setupState: the authorization it belongs to, whether the supplied
\* credential may be used, and when it expires.
Page == [auth : 1..MaxAuthorizations, fallback : BOOLEAN, expiry : Nat]
Idle == [stage |-> "idle"]
Work == [stage : {"validating", "creating", "issuing"}, page : Page, id : Nat,
         consent : BOOLEAN, source : {"dedicated_token", "supplied_token"}]
Code == [auth : 1..MaxAuthorizations, source : {"dedicated_token", "supplied_token"},
         setup : Nat]

TypeOK ==
  /\ now \in 0..MaxTime /\ begun \in 0..MaxAuthorizations /\ restarts \in 0..MaxRestarts
  /\ DOMAIN setups \subseteq 1..Len(pages) /\ Cardinality(DOMAIN setups) <= StoreMax
  /\ \A id \in DOMAIN setups : setups[id] = pages[id].expiry
  /\ DOMAIN codeStore \subseteq 1..Len(codes) /\ Cardinality(DOMAIN codeStore) <= StoreMax
  /\ Len(pages) <= MaxPages /\ \A id \in 1..Len(pages) : pages[id] \in Page
  /\ DOMAIN work = Requests /\ \A r \in Requests : work[r] \in Work \cup {Idle}
  /\ \A n \in 1..Len(codes) : codes[n] \in Code
  /\ minted \subseteq 1..MaxPages /\ refused \subseteq 1..MaxAuthorizations

Init ==
  /\ now = 0 /\ setups = EmptyStore /\ codeStore = EmptyStore
  /\ pages = <<>> /\ work = [r \in Requests |-> Idle] /\ codes = <<>>
  /\ minted = {} /\ refused = {} /\ begun = 0 /\ restarts = 0

-----------------------------------------------------------------------------
(* What the handlers decide.                                                *)

\* What completeAuthorization checks of a page before it uses up its setup ID.
Submittable(id) == pages[id].expiry > now /\ CanConsume(setups, id, now)

\* The setup IDs a submission leaves.
UsesUp(id) == WithoutId(setups, id, now)

\* The supplied credential is used when the page offers it and the user agrees.
UsesSupplied(page, consent) == page.fallback /\ consent

\* renderSetup: the page gets a fresh ID; it is rendered only if the ID fits.
Renders(page) ==
  /\ Len(pages) < MaxPages
  /\ LET id == Len(pages) + 1 IN
     IF CanStore(setups, id, page.expiry, now, StoreMax)
     THEN /\ setups' = WithId(setups, id, page.expiry, now)
          /\ pages' = Append(pages, page)
     ELSE setups' = Purged(setups, now) /\ UNCHANGED pages

\* The page a failed submission renders: the same authorization and deadline.
Again(page) == page
Offering(page) == [auth |-> page.auth, fallback |-> TRUE, expiry |-> page.expiry]

-----------------------------------------------------------------------------

\* beginAuthorization, past its checks of the request and the client.
Begin ==
  /\ begun < MaxAuthorizations
  /\ begun' = begun + 1
  /\ Renders([auth |-> begun + 1, fallback |-> FALSE, expiry |-> now + CodeLifetime])
  /\ UNCHANGED <<now, codeStore, work, codes, minted, refused, restarts>>

\* completeAuthorization up to the consumption of the setup ID; then the user
\* cancelled, or the credential cannot be sealed, or it is to be validated.
Submit(r, id, consent) ==
  /\ work[r] = Idle /\ Submittable(id)
  /\ setups' = UsesUp(id)
  /\ \/ UNCHANGED work
     \/ work' = [work EXCEPT ![r] = [stage |-> "validating", page |-> pages[id], id |-> id,
                                      consent |-> consent, source |-> "supplied_token"]]
  /\ UNCHANGED <<now, codeStore, pages, codes, minted, refused, begun, restarts>>

\* ValidateCredential, or ValidateForEnvelope before it.
Validate(r, ok) ==
  /\ work[r].stage = "validating"
  /\ IF ok
     THEN /\ work' = [work EXCEPT ![r].stage =
                IF UsesSupplied(work[r].page, work[r].consent) THEN "issuing" ELSE "creating"]
          /\ UNCHANGED <<setups, pages>>
     ELSE Renders(Again(work[r].page)) /\ work' = [work EXCEPT ![r] = Idle]
  /\ UNCHANGED <<now, codeStore, codes, minted, refused, begun, restarts>>

\* CreateDedicatedCredential; the page may offer the supplied one from then on.
Create(r, ok) ==
  /\ work[r].stage = "creating"
  /\ IF ok
     THEN /\ work' = [work EXCEPT ![r].stage = "issuing", ![r].source = "dedicated_token"]
          /\ minted' = minted \cup {work[r].id}
          /\ UNCHANGED <<setups, pages, refused>>
     ELSE /\ Renders(Offering(Again(work[r].page)))
          /\ work' = [work EXCEPT ![r] = Idle]
          /\ refused' = refused \cup {work[r].page.auth}
          /\ UNCHANGED minted
  /\ UNCHANGED <<now, codeStore, codes, begun, restarts>>

\* IssueAuthorizationCode: the client's metadata may be refused by now, and
\* the store may be full; the dedicated token is then of no use to anybody.
IssueCode(r) ==
  /\ work[r].stage = "issuing"
  /\ \/ UNCHANGED <<codeStore, codes>>
     \/ LET id == Len(codes) + 1 IN
        /\ CanStore(codeStore, id, now + CodeLifetime, now, StoreMax)
        /\ codeStore' = WithId(codeStore, id, now + CodeLifetime, now)
        /\ codes' = Append(codes, [auth |-> work[r].page.auth, source |-> work[r].source,
                                    setup |-> work[r].id])
  /\ work' = [work EXCEPT ![r] = Idle]
  /\ UNCHANGED <<now, setups, pages, minted, refused, begun, restarts>>

\* The token endpoint uses up a code (TokenSessions).
Exchanged(id) ==
  /\ CanConsume(codeStore, id, now)
  /\ codeStore' = WithoutId(codeStore, id, now)
  /\ UNCHANGED <<now, setups, pages, work, codes, minted, refused, begun, restarts>>

\* The service restarts: what it kept in memory is gone, the pages are not.
Restart ==
  /\ restarts < MaxRestarts /\ restarts' = restarts + 1
  /\ setups' = EmptyStore /\ codeStore' = EmptyStore
  /\ work' = [r \in Requests |-> Idle]
  /\ UNCHANGED <<now, pages, codes, minted, refused, begun>>

Tick == now < MaxTime /\ now' = now + 1 /\
  UNCHANGED <<setups, codeStore, pages, work, codes, minted, refused, begun, restarts>>

Next ==
  \/ Begin
  \/ \E r \in Requests :
       \/ \E id \in 1..MaxPages, consent \in BOOLEAN : id <= Len(pages) /\ Submit(r, id, consent)
       \/ \E ok \in BOOLEAN : work[r] # Idle /\ (Validate(r, ok) \/ Create(r, ok))
       \/ IssueCode(r)
  \/ \E id \in Ids(codeStore) : Exchanged(id)
  \/ Restart
  \/ Tick

Spec == Init /\ [][Next]_vars

-----------------------------------------------------------------------------
(* Properties.                                                              *)

\* The chances an authorization still has: live setup IDs, and submissions
\* past the consumption of one.
Chances(a) ==
  Cardinality({id \in DOMAIN Purged(setups, now) : pages[id].auth = a}) +
  Cardinality({r \in Requests : work[r] # Idle /\ work[r].page.auth = a})
CodesOf(a) == Cardinality({n \in 1..Len(codes) : codes[n].auth = a})

\* An authorization has one chance at a time and ends in at most one code,
\* however often its pages are submitted, concurrently, again after a failed
\* attempt rendered a new page, or after a restart.
OneCodePerAuthorization ==
  \A a \in 1..begun : Chances(a) + CodesOf(a) <= 1

\* The credential the user supplied is sealed into a code only after InvenTree
\* failed to create a dedicated token for that same authorization.
SuppliedOnlyAfterRefusal ==
  \A n \in 1..Len(codes) : codes[n].source = "supplied_token" => codes[n].auth \in refused

\* Every code with a dedicated token has one of its own, named after the setup
\* ID that was used up for it, so no two codes share a token.
DedicatedPerCode ==
  \A m, n \in 1..Len(codes) :
    codes[n].source = "dedicated_token" =>
      codes[n].setup \in minted /\ (codes[m].setup = codes[n].setup => m = n)

\* Whose credential a code carries is decided by what InvenTree did.
CredentialOfCode == SuppliedOnlyAfterRefusal /\ DedicatedPerCode

=============================================================================
