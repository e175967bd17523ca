----------------------------- MODULE MCReviewedTools -----------------------------
(* ReviewedTools with two callers, and three for stocktakes, for TLC. *)
EXTENDS ReviewedTools, TLC

\* A receipt on an order of two lines: of one piece, of one of each, of everything.
MCOrdered == "l1" :> 2 @@ "l2" :> 1
OneOfEach == "l1" :> 1 @@ "l2" :> 1
MCInputs ==
  {[items |-> "l1" :> 1, complete |-> FALSE],
   [items |-> OneOfEach, complete |-> TRUE], [items |-> MCOrdered, complete |-> TRUE]}

Symmetry ==
  Permutations(Callers) \cup Permutations(TaskIDs) \cup Permutations(Generators)
=============================================================================
