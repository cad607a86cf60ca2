----------------------------- MODULE MCCodiSets -----------------------------
(***************************************************************************)
(* CodiSets on small instances.  Pictures, taps and refreshes are          *)
(* interchangeable, and so are devices: the runs without a liveness        *)
(* property use these symmetries.                                          *)
(***************************************************************************)
EXTENDS CodiSets, TLC

Symmetry ==
  Permutations(Device) \cup Permutations(Look) \cup Permutations(Save) \cup Permutations(Refresh)
=============================================================================
