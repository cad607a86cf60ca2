----------------------------- MODULE MCOutfits -----------------------------
(***************************************************************************)
(* Outfits on small instances: two rows, empty or with two photos.         *)
(***************************************************************************)
EXTENDS Outfits, TLC

ScreenLooks == Screen \X Outfit

\* Two photos in either order.
TwoPhotos == {EmptyDict} \cup { row \in [0 .. 1 -> Item] : row[0] # row[1] }

Symmetry == Permutations(Screen) \cup Permutations(Category) \cup Permutations(Item)
=============================================================================
