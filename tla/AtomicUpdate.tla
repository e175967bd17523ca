---------------------------- MODULE AtomicUpdate ----------------------------
(***************************************************************************)
(* What a self-update promises an operator: the executable and its          *)
(* `.previous` copy change together, by one whole update, or not at all.    *)
(* Until the update is safely on disk a power loss may take it back, again  *)
(* as a whole.  SelfUpdate implements this.                                 *)
(***************************************************************************)
EXTENDS Integers

CONSTANTS MaxVersion

VARIABLES
  installed,  \* <<version of the executable, version of .previous or 0>>
  atRisk      \* the pairs a power loss may still bring back

\* An update from any version to any other: the executable becomes .previous.
Update ==
  \E t \in 1..MaxVersion :
    /\ installed' = <<t, installed[1]>>
    /\ atRisk' \in SUBSET ({installed} \ {installed'})

Settle == UNCHANGED installed /\ atRisk' = {}

Revert == installed' \in atRisk /\ atRisk' = {}

UpdateInit ==
  /\ installed \in (1..MaxVersion) \X (0..MaxVersion)
  /\ atRisk = {}

UpdateNext == Update \/ Settle \/ Revert

UpdateSpec == UpdateInit /\ [][UpdateNext]_<<installed, atRisk>>

=============================================================================
