------------------------------- MODULE MCApp -------------------------------
(***************************************************************************)
(* App on small instances.  Requests are interchangeable.                  *)
(***************************************************************************)
EXTENDS App, TLC

Symmetry == Permutations(Request) \cup Permutations(Email)
=============================================================================
