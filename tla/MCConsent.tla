------------------------------ MODULE MCConsent ------------------------------
(* Two runs and two savers; the runs are alike, and so are the savers.      *)
EXTENDS Consent, TLC

Alike == Permutations(Runs) \cup Permutations(Savers)
=============================================================================
