------------------------------ MODULE MCCamera ------------------------------
(***************************************************************************)
(* Camera on small instances.  Devices, categories and shots are           *)
(* interchangeable.                                                        *)
(***************************************************************************)
EXTENDS Camera, TLC

Symmetry == Permutations(Device) \cup Permutations(Category) \cup Permutations(Shot)
=============================================================================
