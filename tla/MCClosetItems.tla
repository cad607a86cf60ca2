--------------------------- MODULE MCClosetItems ---------------------------
(***************************************************************************)
(* ClosetItems on small instances, with the string order of KeyOrder.      *)
(***************************************************************************)
EXTENDS ClosetItems, KeyOrder, TLC

Symmetry ==
  Permutations(Device) \cup Permutations(Category) \cup Permutations(Photo) \cup Permutations(Tap)
=============================================================================
