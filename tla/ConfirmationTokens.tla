-------------------------- MODULE ConfirmationTokens --------------------------
(***************************************************************************)
(* What a dry run promises its caller, without clocks, locks or limits: a   *)
(* token is offered for one operation, an operation has at most one         *)
(* outstanding token, and an outstanding token is accepted at most once or  *)
(* becomes void.  PlanStore implements this (module PlanStoreRefinement).   *)
(***************************************************************************)

CONSTANTS
  Tokens, Operations,
  Unused, Accepted, Void   \* the states of a token that is not outstanding

VARIABLE state  \* of each token; an operation while outstanding for it

TokenInit == state = [t \in Tokens |-> Unused]

Outstanding == {t \in Tokens : state[t] \in Operations}

\* t moves to s while the tokens of V become void.
Move(t, s, V) ==
  state' = [u \in Tokens |-> IF u = t THEN s
                             ELSE IF u \in V THEN Void ELSE state[u]]

\* A plan is offered for o; any other outstanding plan for o becomes void.
Offer(t, o, V) ==
  /\ state[t] = Unused
  /\ {u \in Tokens : state[u] = o} \subseteq V
  /\ Move(t, o, V)

Spend(t, V) == state[t] \in Operations /\ Move(t, Accepted, V)

\* An outstanding token expires, or an unused one is dropped unoffered.
Lapse(t, V) == state[t] \in Operations \cup {Unused} /\ Move(t, Void, V)

TokenNext ==
  \E V \in SUBSET Outstanding, t \in Tokens :
    \/ \E o \in Operations : Offer(t, o, V)
    \/ Spend(t, V)
    \/ Lapse(t, V)

TokenSpec == TokenInit /\ [][TokenNext]_state

=============================================================================
