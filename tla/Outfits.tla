------------------------------ MODULE Outfits ------------------------------
(***************************************************************************)
(* Choosing an outfit.  The user checks photos in the rows of "My closet"; *)
(* DataManager.selectedImageSet keeps one photo for each category, and the *)
(* make-codi screen shows and saves what it holds.                         *)
(*                                                                         *)
(* This module composes the selection with CodiSets: the picture of a      *)
(* make-codi screen is the outfit selected when the screen is opened, and  *)
(* every other step of CodiSets leaves the selection alone.                *)
(***************************************************************************)
EXTENDS CodiSets

CONSTANTS
  Screen,    \* the make-codi screens a run may open
  Category,  \* top, bottom, outer, shoes, cap, socks, bag, acc
  Item,      \* the photos of a row
  NoItem,    \* an image that is no photo
  Contents   \* what a row may show: photos by slot

\* What selectedImageSet may hold.
Outfit == UNION { [cs -> Item] : cs \in SUBSET Category }

ASSUME LookAssumption == Look = Screen \X Outfit

\* Rows are empty until they have been fetched.
ASSUME ContentsAssumption ==
  EmptyDict \in Contents /\ \A row \in Contents : IsDict(row, Nat, Item)

VARIABLES
  tab,              \* "closet", or "away" on another tab or the camera screen
  rows,             \* the photos each device shows in each row (DataManager's)
  marks,            \* the slots of each device with a check mark
  selectedImageSet  \* DataManager.selectedImageSet of each device

selectionVars == << tab, rows, marks, selectedImageSet >>
outfitVars == << vars, selectionVars >>

NoRows == [c \in Category |-> EmptyDict]

OutfitInit ==
  /\ Init
  /\ tab = [d \in Device |-> "away"]
  /\ rows = [d \in Device |-> NoRows]
  /\ marks = [d \in Device |-> {}]
  /\ selectedImageSet = [d \in Device |-> EmptyDict]

\* The rows can be touched.
AtCloset(d) == tab[d] = "closet" /\ screen[d] = NoLook

-----------------------------------------------------------------------------
(* The rows *)

\* A tap on a slot without a check mark, and on one with it.
Check(d, c, slot) ==
  /\ AtCloset(d)
  /\ slot \in DOMAIN rows[d][c]
  /\ << c, slot >> \notin marks[d]
  /\ marks' = [marks EXCEPT ![d] = @ \cup {<< c, slot >>}]
  /\ UNCHANGED << vars, tab, rows >>

Uncheck(d, c, slot) ==
  /\ AtCloset(d)
  /\ << c, slot >> \in marks[d]
  /\ marks' = [marks EXCEPT ![d] = @ \ {<< c, slot >>}]
  /\ UNCHANGED << vars, tab, rows >>

\* Mutant: a second photo of a row takes the first one's entry away.
SelectToggles(d, c, slot) ==
  /\ Check(d, c, slot)
  /\ selectedImageSet' = [selectedImageSet EXCEPT ![d] =
       IF c \in DOMAIN @ THEN Kept(@, DOMAIN @ \ {c}) ELSE Updated(@, c, rows[d][c][slot])]

\* didSelectItemAt.  Rows allow several marks; the set has one entry for the
\* category, and the last tap wins.
Select(d, c, slot) ==
  /\ Check(d, c, slot)
  /\ selectedImageSet' = [selectedImageSet EXCEPT ![d] = Updated(@, c, rows[d][c][slot])]

\* Mutant: the entry is removed only with the last mark of its row.
DeselectLast(d, c, slot) ==
  /\ Uncheck(d, c, slot)
  /\ selectedImageSet' =
       [selectedImageSet EXCEPT ![d] =
          Kept(@, { k \in DOMAIN @ : k # c \/ \E m \in marks'[d] : m[1] = c })]

\* Mutant: the entry is not removed but blanked.
DeselectBlank(d, c, slot) ==
  /\ Uncheck(d, c, slot)
  /\ selectedImageSet' = [selectedImageSet EXCEPT ![d] = Updated(@, c, NoItem)]

\* didDeselectItemAt: the entry of the category goes, even if it is another
\* photo of the row.
Deselect(d, c, slot) ==
  /\ Uncheck(d, c, slot)
  /\ selectedImageSet' = [selectedImageSet EXCEPT ![d] = Kept(@, DOMAIN @ \ {c})]

\* A row's slots are overwritten and extended, never removed; reloadData takes
\* its marks away.
Refill(d, c) ==
  /\ \E row \in Contents : /\ DOMAIN rows[d][c] \subseteq DOMAIN row
                            /\ rows' = [rows EXCEPT ![d][c] = row]
  /\ marks' = [marks EXCEPT ![d] = { m \in @ : m[1] # c }]
  /\ UNCHANGED << vars, tab >>

\* Mutant: a reloaded row gives up its entry too.
ReloadRowAndSet(d, c) ==
  /\ Refill(d, c)
  /\ selectedImageSet' = [selectedImageSet EXCEPT ![d] = Kept(@, DOMAIN @ \ {c})]

\* A row's fetch completes, whatever is on the screen; the set is left alone.
ReloadRow(d, c) == Refill(d, c) /\ UNCHANGED selectedImageSet

-----------------------------------------------------------------------------
(* Coming and going *)

\* Another tab or the camera screen.
Leave(d) ==
  /\ AtCloset(d)
  /\ tab' = [tab EXCEPT ![d] = "away"]
  /\ UNCHANGED << vars, rows, marks, selectedImageSet >>

Cleared(d) == selectedImageSet' = [selectedImageSet EXCEPT ![d] = EmptyDict]

\* viewWillAppear of the closet.  It reloads the outer collection, whose cells
\* are used again with their marks.
Return(d) ==
  /\ tab[d] = "away"
  /\ tab' = [tab EXCEPT ![d] = "closet"]
  /\ Cleared(d)
  /\ UNCHANGED << vars, rows, marks >>

\* The closet's make button: distributeImages copies the set.
Make(d) ==
  /\ AtCloset(d)
  /\ OpenMake(d)
  /\ screen'[d][1] \notin { look[1] : look \in opened }
  /\ screen'[d][2] = selectedImageSet[d]
  /\ UNCHANGED selectionVars

\* The make-codi screen is dismissed: the closet appears again.
CancelMake(d) == Cancel(d) /\ Cleared(d) /\ UNCHANGED << tab, rows, marks >>
DismissMake(d) == AlertOK(d) /\ Cleared(d) /\ UNCHANGED << tab, rows, marks >>

\* The gallery is another tab.
VisitGallery(d, r) ==
  /\ StartRefresh(d, r)
  /\ tab' = [tab EXCEPT ![d] = "away"]
  /\ UNCHANGED << rows, marks, selectedImageSet >>

RestartAll(d) ==
  /\ Restart(d)
  /\ tab' = [tab EXCEPT ![d] = "away"]
  /\ rows' = [rows EXCEPT ![d] = NoRows]
  /\ marks' = [marks EXCEPT ![d] = {}]
  /\ Cleared(d)

-----------------------------------------------------------------------------

Choose(d) ==
  \/ \E c \in Category : \/ \E slot \in DOMAIN rows[d][c] : Select(d, c, slot) \/ Deselect(d, c, slot)
                        \/ ReloadRow(d, c)
  \/ Leave(d) \/ Return(d)

OutfitNext ==
  \/ \E d \in Device : \/ Choose(d) \/ Make(d) \/ CancelMake(d) \/ DismissMake(d) \/ RestartAll(d)
                       \/ \E s \in Save : TapMake(d, s) /\ UNCHANGED selectionVars
                       \/ \E r \in Refresh : VisitGallery(d, r)
  \/ \E s \in Save : (SaveProgress(s) \/ OrphanLands(s)) /\ UNCHANGED selectionVars
  \/ \E r \in Refresh : RefreshProgress(r) /\ UNCHANGED selectionVars

OutfitSpec == OutfitInit /\ [][OutfitNext]_outfitVars

-----------------------------------------------------------------------------
(* Properties *)

\* Type correctness of the selection, on top of what it is composed with: check
\* marks are on slots of their rows, and the set holds photos.
OutfitTypeOK ==
  /\ TypeOK
  /\ tab \in [Device -> {"closet", "away"}]
  /\ rows \in [Device -> [Category -> Contents]]
  /\ marks \in [Device -> SUBSET (Category \X Nat)]
  /\ \A d \in Device : \A m \in marks[d] : m[2] \in DOMAIN rows[d][m[1]]
  /\ selectedImageSet \in [Device -> Outfit]

\* While a make-codi screen is open, its picture is the set's outfit: nothing
\* that goes on behind the screen, such as a row's fetch, changes the set under
\* it (distributeImages copies the set only once).
OutfitOnScreen ==
  \A d \in Device : screen[d] # NoLook => screen[d][2] = selectedImageSet[d]

\* What is in the set, and what of it no check mark shows.
Chosen(d) == { << c, selectedImageSet[d][c] >> : c \in DOMAIN selectedImageSet[d] }

Unchecked(d) ==
  { item \in Chosen(d) :
      \A m \in marks[d] : m[1] = item[1] => rows[d][m[1]][m[2]] # item[2] }

\* Nothing is worn that is not checked, unless its row has been reloaded: a
\* photo enters the set with its check mark, and no tap takes the mark away
\* and leaves the photo, though a row may have several marks (didDeselectItemAt)
\* and its slots may be given other photos (fetchImageFromStorage).
ChosenIsMarked ==
  [][\A d \in Device : \A item \in Unchecked(d)' \ Unchecked(d) :
       item \in Chosen(d) /\ ReloadRow(d, item[1])]_outfitVars

\* The rows with a check mark of which nothing is worn.
Bare(d) == { m[1] : m \in marks[d] } \ DOMAIN selectedImageSet[d]

\* A row has check marks and nothing to wear only after the set was cleared
\* under the marks, by coming back to the closet, or after another photo of the
\* row was deselected: never after a selection, in whatever order (viewWillAppear
\* and didDeselectItemAt).
CheckedIsWorn ==
  [][\A d \in Device : \A c \in Bare(d)' \ Bare(d) :
       \/ Return(d) \/ CancelMake(d) \/ DismissMake(d)
       \/ \E slot \in DOMAIN rows[d][c] : Deselect(d, c, slot)]_outfitVars
=============================================================================
