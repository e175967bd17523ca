------------------------------ MODULE MCToolCalls ------------------------------
(* ToolCalls with two calls and two records of a kind, for TLC. *)
EXTENDS ToolCalls, TLC

Symmetry == Permutations(Calls)
=============================================================================
