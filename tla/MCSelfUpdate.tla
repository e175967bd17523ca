---------------------------- MODULE MCSelfUpdate ----------------------------
(* Small instances of SelfUpdate for TLC.                                    *)
EXTENDS SelfUpdate, TLC

Symmetry == Permutations(Updaters)

=============================================================================
