-------------------------- MODULE MCRequestHandler --------------------------
(***************************************************************************)
(* RequestHandler for TLC.                                                 *)
(***************************************************************************)
EXTENDS RequestHandler, TLC

Symmetry == Permutations(Requests)
=============================================================================
