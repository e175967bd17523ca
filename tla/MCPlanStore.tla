------------------------------ MODULE MCPlanStore ------------------------------
(* Small instances of PlanStore for TLC.                                    *)
EXTENDS PlanStore, TLC

Symmetry == Permutations(Callers) \cup Permutations(Digests)
            \cup Permutations(Tokens) \cup Permutations(Keys)
            \cup Permutations(Principals)

===============================================================================
