------------------------- MODULE MCServerConnection -------------------------
(***************************************************************************)
(* ServerConnection for TLC.                                               *)
(***************************************************************************)
EXTENDS ServerConnection, TLC

Symmetry == Permutations(Requests)
=============================================================================
