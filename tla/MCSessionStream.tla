-------------------------- MODULE MCSessionStream --------------------------
(* SessionStream on small capacities; the configurations give the bounds.  *)
EXTENDS SessionStream
=============================================================================
