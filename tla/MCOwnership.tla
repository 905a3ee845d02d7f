----------------------------- MODULE MCOwnership -----------------------------
(***************************************************************************)
(* Three workspaces, the first of them designated: a securable may be      *)
(* bound to none, to one, to several with or without the designated one.   *)
(***************************************************************************)
EXTENDS Ownership, TLC

CONSTANTS w1, w2, w3

MCWorkspaces == {w1, w2, w3}

Others == Permutations({w2, w3})
=============================================================================
