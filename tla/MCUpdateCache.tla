---------------------------- MODULE MCUpdateCache ----------------------------
(* Three runs that differ in nothing but their name.                        *)
EXTENDS UpdateCache, TLC

Alike == Permutations(Runs)
=============================================================================
