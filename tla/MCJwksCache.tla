----------------------------- MODULE MCJwksCache -----------------------------
(***************************************************************************)
(* JwksCache for TLC.                                                      *)
(***************************************************************************)
EXTENDS JwksCache, TLC

Symmetry == Permutations(Task) \cup Permutations(Kid)
==============================================================================
