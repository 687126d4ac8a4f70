---------------------------- MODULE MCAdminConfig ----------------------------
(* AdminConfig on a small instance. *)
EXTENDS AdminConfig, TLC

CONSTANTS k1, k2, p1, p2, r1, r2    \* model values

MCSymmetry == Permutations(Keys) \cup Permutations(Processes) \cup Permutations(Requests)
=============================================================================
