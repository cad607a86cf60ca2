--------------------------- MODULE OutfitsProofs ---------------------------
(***************************************************************************)
(* Theorems about Outfits for every number of devices, screens, categories *)
(* and photos; and that what is proved about CodiSets holds there, too.    *)
(***************************************************************************)
EXTENDS Outfits, CodiSetsProofs

-----------------------------------------------------------------------------
(* The composition implements CodiSets *)

LEMMA OutfitStepRefines == [OutfitNext]_outfitVars => [Next]_vars
<1> SUFFICES ASSUME [OutfitNext]_outfitVars PROVE [Next]_vars
  OBVIOUS
<1>1. ASSUME NEW d \in Device, Choose(d) PROVE UNCHANGED vars
  BY <1>1 DEF Choose, Select, Deselect, Check, Uncheck, ReloadRow, Refill, Leave, Return
<1>2. ASSUME NEW d \in Device, Make(d) \/ CancelMake(d) \/ DismissMake(d) \/ RestartAll(d)
      PROVE  Next
  BY <1>2 DEF Make, CancelMake, DismissMake, RestartAll, Next
<1>3. ASSUME NEW d \in Device, NEW r \in Refresh, VisitGallery(d, r) PROVE Next
  BY <1>3 DEF VisitGallery, Next
<1>4. CASE UNCHANGED outfitVars
  BY <1>4 DEF outfitVars
<1> QED  BY <1>1, <1>2, <1>3, <1>4 DEF OutfitNext, Next

\* Choosing outfits adds nothing to what CodiSets may do: its theorems hold with
\* the closet in front of it.
THEOREM OutfitRefines == OutfitSpec => Spec
<1>1. OutfitInit => Init
  BY DEF OutfitInit
<1> QED  BY <1>1, OutfitStepRefines, PTL DEF OutfitSpec, Spec

-----------------------------------------------------------------------------
(* Type correctness *)

SelectionOK ==
  /\ tab \in [Device -> {"closet", "away"}]
  /\ rows \in [Device -> [Category -> Contents]]
  /\ marks \in [Device -> SUBSET (Category \X Nat)]
  /\ \A d \in Device : \A m \in marks[d] : m[2] \in DOMAIN rows[d][m[1]]
  /\ selectedImageSet \in [Device -> Outfit]

\* An outfit is a dictionary from categories to photos.
LEMMA OutfitIs ==
  ASSUME NEW cs \in SUBSET Category, NEW f \in [cs -> Item] PROVE f \in Outfit
<1>1. [cs -> Item] \in { [S -> Item] : S \in SUBSET Category }
  OBVIOUS
<1> QED  BY <1>1, Zenon DEF Outfit

LEMMA OutfitHas ==
  ASSUME NEW f \in Outfit PROVE DOMAIN f \in SUBSET Category /\ f \in [DOMAIN f -> Item]
<1>1. PICK F \in { [S -> Item] : S \in SUBSET Category } : f \in F
  BY Zenon DEF Outfit
<1>2. PICK S \in SUBSET Category : F = [S -> Item]
  BY <1>1, Zenon
<1> QED  BY <1>1, <1>2

LEMMA OutfitUpdated ==
  ASSUME NEW f \in Outfit, NEW c \in Category, NEW item \in Item
  PROVE  Updated(f, c, item) \in Outfit
<1>1. DOMAIN f \cup {c} \in SUBSET Category
  BY OutfitHas
<1>2. Updated(f, c, item) \in [DOMAIN f \cup {c} -> Item]
  BY OutfitHas DEF Updated
<1> QED  BY <1>1, <1>2, OutfitIs

LEMMA OutfitKept ==
  ASSUME NEW f \in Outfit, NEW S PROVE Kept(f, S) \in Outfit
<1>1. DOMAIN f \cap S \in SUBSET Category
  BY OutfitHas
<1>2. Kept(f, S) \in [DOMAIN f \cap S -> Item]
  BY OutfitHas DEF Kept
<1> QED  BY <1>1, <1>2, OutfitIs

LEMMA EmptyOutfit == EmptyDict \in Outfit
<1>1. {} \in SUBSET Category /\ EmptyDict \in [{} -> Item]
  BY DEF EmptyDict
<1> QED  BY <1>1, OutfitIs

\* The slots of a row are numbered and hold photos.
LEMMA RowHas ==
  ASSUME SelectionOK, NEW d \in Device, NEW c \in Category, NEW slot \in DOMAIN rows[d][c]
  PROVE  slot \in Nat /\ rows[d][c][slot] \in Item
<1>1. rows[d][c] \in Contents
  BY DEF SelectionOK
<1>2. IsDict(rows[d][c], Nat, Item)
  BY <1>1, ContentsAssumption
<1> QED  BY <1>2 DEF IsDict

LEMMA SelectionInit == OutfitInit => SelectionOK
BY EmptyOutfit, ContentsAssumption DEF OutfitInit, SelectionOK, NoRows

\* What a tap on a slot does to the marks.
LEMMA CheckMarks ==
  ASSUME SelectionOK, NEW d \in Device, NEW c \in Category, NEW slot \in DOMAIN rows[d][c],
         Check(d, c, slot) \/ Uncheck(d, c, slot)
  PROVE  /\ UNCHANGED << tab, rows >>
         /\ marks' \in [Device -> SUBSET (Category \X Nat)]
         /\ \A e \in Device : \A m \in marks'[e] : m[2] \in DOMAIN rows'[e][m[1]]
<1>1. slot \in Nat
  BY RowHas
<1>2. UNCHANGED << tab, rows >>
  BY DEF Check, Uncheck
<1>3. CASE marks' = [marks EXCEPT ![d] = @ \cup {<< c, slot >>}]
  BY <1>1, <1>2, <1>3 DEF SelectionOK
<1>4. CASE marks' = [marks EXCEPT ![d] = @ \ {<< c, slot >>}]
  BY <1>2, <1>4 DEF SelectionOK
<1> QED  BY <1>2, <1>3, <1>4 DEF Check, Uncheck

\* What a reload does to its row and to the marks.
LEMMA Refills ==
  ASSUME SelectionOK, NEW d \in Device, NEW c \in Category, Refill(d, c)
  PROVE  /\ UNCHANGED tab
         /\ rows' \in [Device -> [Category -> Contents]]
         /\ marks' = [marks EXCEPT ![d] = { m \in @ : m[1] # c }]
         /\ \A e \in Device, k \in Category : e # d \/ k # c => rows'[e][k] = rows[e][k]
<1>1. PICK row \in Contents : rows' = [rows EXCEPT ![d][c] = row]
  BY DEF Refill
<1> QED  BY <1>1 DEF SelectionOK, Refill

LEMMA SelectionStep == SelectionOK /\ [OutfitNext]_outfitVars => SelectionOK'
<1> SUFFICES ASSUME SelectionOK, [OutfitNext]_outfitVars PROVE SelectionOK'
  OBVIOUS
<1> USE DEF selectionVars
<1>0. EmptyDict \in Outfit /\ NoRows \in [Category -> Contents]
  BY EmptyOutfit, ContentsAssumption DEF NoRows
<1>1. ASSUME NEW d \in Device, NEW c \in Category, NEW slot \in DOMAIN rows[d][c],
             Select(d, c, slot) \/ Deselect(d, c, slot)
      PROVE  SelectionOK'
  <2>1. selectedImageSet' \in [Device -> Outfit]
    <3>1. selectedImageSet[d] \in Outfit /\ rows[d][c][slot] \in Item
      BY RowHas DEF SelectionOK
    <3>2. PICK outfit \in Outfit : selectedImageSet' = [selectedImageSet EXCEPT ![d] = outfit]
      BY <1>1, <3>1, OutfitUpdated, OutfitKept DEF Select, Deselect
    <3> QED  BY <3>2 DEF SelectionOK
  <2> QED
    BY <1>1, <2>1, CheckMarks DEF SelectionOK, Select, Deselect
<1>2. ASSUME NEW d \in Device, NEW c \in Category, ReloadRow(d, c) PROVE SelectionOK'
  <2>1. /\ UNCHANGED << tab, selectedImageSet >>
        /\ rows' \in [Device -> [Category -> Contents]]
        /\ marks' = [marks EXCEPT ![d] = { m \in @ : m[1] # c }]
        /\ \A e \in Device, k \in Category : e # d \/ k # c => rows'[e][k] = rows[e][k]
    BY <1>2, Refills DEF ReloadRow
  <2>2. marks' \in [Device -> SUBSET (Category \X Nat)]
    BY <2>1 DEF SelectionOK
  <2>3. ASSUME NEW e \in Device, NEW m \in marks'[e] PROVE m[2] \in DOMAIN rows'[e][m[1]]
    <3>1. m \in marks[e] /\ (e # d \/ m[1] # c)
      BY <2>1, <2>3 DEF SelectionOK
    <3>2. m[1] \in Category
      BY <3>1 DEF SelectionOK
    <3> QED  BY <2>1, <3>1, <3>2 DEF SelectionOK
  <2> QED  BY <2>1, <2>2, <2>3 DEF SelectionOK
<1>4. ASSUME NEW d \in Device, Leave(d) \/ Return(d) \/ Make(d) PROVE SelectionOK'
  BY <1>4, <1>0 DEF SelectionOK, Leave, Return, Make, Cleared
<1>5. ASSUME NEW d \in Device, CancelMake(d) \/ DismissMake(d) PROVE SelectionOK'
  BY <1>5, <1>0 DEF SelectionOK, CancelMake, DismissMake, Cleared
<1>6. ASSUME NEW d \in Device, RestartAll(d) PROVE SelectionOK'
  <2>1. /\ tab' \in [Device -> {"closet", "away"}]
        /\ rows' \in [Device -> [Category -> Contents]]
        /\ marks' \in [Device -> SUBSET (Category \X Nat)]
        /\ selectedImageSet' \in [Device -> Outfit]
    BY <1>6, <1>0 DEF SelectionOK, RestartAll, Cleared
  <2>2. ASSUME NEW e \in Device, NEW m \in marks'[e] PROVE m[2] \in DOMAIN rows'[e][m[1]]
    BY <1>6, <2>2 DEF SelectionOK, RestartAll
  <2> QED  BY <2>1, <2>2 DEF SelectionOK
<1>7. ASSUME NEW d \in Device, NEW r \in Refresh, VisitGallery(d, r) PROVE SelectionOK'
  BY <1>7 DEF SelectionOK, VisitGallery
<1>8. ASSUME UNCHANGED selectionVars PROVE SelectionOK'
  BY <1>8 DEF SelectionOK
<1> QED
  BY <1>1, <1>2, <1>4, <1>5, <1>6, <1>7, <1>8 DEF OutfitNext, Choose, outfitVars

\* The types of the whole composition.
THEOREM OutfitTypeCorrect == OutfitSpec => []OutfitTypeOK
<1>1. SelectionOK /\ TypeOK => OutfitTypeOK
  BY DEF SelectionOK, OutfitTypeOK
<1> QED
  BY <1>1, SelectionInit, SelectionStep, OutfitRefines, TypeCorrect, PTL DEF OutfitSpec

-----------------------------------------------------------------------------
(* The outfit on the screen *)

\* The make-codi screen is opened from the closet and covers it.
OnScreenInv ==
  \A d \in Device :
    screen[d] # NoLook => tab[d] = "closet" /\ screen[d][2] = selectedImageSet[d]

LEMMA OnScreenStep ==
  OutfitTypeOK /\ OnScreenInv /\ [OutfitNext]_outfitVars => OnScreenInv'
<1> SUFFICES ASSUME OutfitTypeOK, OnScreenInv, [OutfitNext]_outfitVars PROVE OnScreenInv'
  OBVIOUS
<1> USE DEF selectionVars
<1>0. SelectionOK /\ ScreensOK
  BY DEF OutfitTypeOK, TypeOK, SelectionOK
<1>1. ASSUME NEW d \in Device, NEW c \in Category, NEW slot \in DOMAIN rows[d][c],
             Select(d, c, slot) \/ Deselect(d, c, slot)
      PROVE  OnScreenInv'
  <2>1. /\ AtCloset(d) /\ UNCHANGED << vars, tab >>
        /\ \E outfit : selectedImageSet' = [selectedImageSet EXCEPT ![d] = outfit]
    BY <1>1 DEF Select, Deselect, Check, Uncheck
  <2> QED  BY <1>0, <2>1 DEF OnScreenInv, AtCloset, SelectionOK, vars, screenVars
<1>2. ASSUME NEW d \in Device, NEW c \in Category, ReloadRow(d, c) PROVE OnScreenInv'
  BY <1>2 DEF OnScreenInv, ReloadRow, Refill, vars, screenVars
<1>3. ASSUME NEW d \in Device, Leave(d) \/ Return(d) PROVE OnScreenInv'
  BY <1>0, <1>3 DEF OnScreenInv, Leave, Return, Cleared, AtCloset, SelectionOK, vars, screenVars
<1>4. ASSUME NEW d \in Device, Make(d) PROVE OnScreenInv'
  BY <1>0, <1>4 DEF OnScreenInv, Make, OpenMake, AtCloset, SelectionOK, ScreensOK
<1>5. ASSUME NEW d \in Device, CancelMake(d) \/ DismissMake(d) \/ RestartAll(d)
      PROVE  OnScreenInv'
  BY <1>0, <1>5 DEF OnScreenInv, CancelMake, DismissMake, RestartAll, Cleared, Cancel, AlertOK,
                    Restart, SelectionOK, ScreensOK
<1>6. ASSUME NEW d \in Device, NEW r \in Refresh, VisitGallery(d, r) PROVE OnScreenInv'
  BY <1>0, <1>6 DEF OnScreenInv, VisitGallery, StartRefresh, SelectionOK, screenVars
<1>7. ASSUME UNCHANGED selectionVars, UNCHANGED screen PROVE OnScreenInv'
  BY <1>7 DEF OnScreenInv
<1>8. ASSUME NEW d \in Device, NEW s \in Save, TapMake(d, s) PROVE UNCHANGED screen
  BY <1>8 DEF TapMake, screenVars
<1>9. ASSUME NEW s \in Save, SaveProgress(s) \/ OrphanLands(s) PROVE UNCHANGED screen
  BY <1>9 DEF SaveProgress, OrphanLands, ListReply, ListError, StartPut, PutLands, PutAck, PutError,
              screenVars
<1>10. ASSUME NEW r \in Refresh, RefreshProgress(r) PROVE UNCHANGED screen
  BY <1>10 DEF RefreshProgress, ListAnswered, ListingFails, HandleListing, DownloadAnswered,
               HandleDownload, DownloadFails, DownloadGarbled, Notify, screenVars
<1> QED
  BY <1>1, <1>2, <1>3, <1>4, <1>5, <1>6, <1>7, <1>8, <1>9, <1>10
     DEF OutfitNext, Choose, outfitVars, vars, screenVars

\* What a make-codi screen shows is what is selected, whatever is fetched, saved
\* and answered behind it.
THEOREM OutfitStaysOnScreen == OutfitSpec => []OutfitOnScreen
<1>1. OutfitInit => OnScreenInv
  BY DEF OutfitInit, Init, OnScreenInv
<1>2. OnScreenInv => OutfitOnScreen
  BY DEF OnScreenInv, OutfitOnScreen
<1> QED
  BY <1>1, <1>2, OnScreenStep, OutfitTypeCorrect, PTL DEF OutfitSpec

-----------------------------------------------------------------------------
(* Marks *)

\* The parts of ChosenIsMarked and CheckedIsWorn that a step must satisfy for
\* one device.
MarkedStep(d) ==
  \A item \in Unchecked(d)' \ Unchecked(d) : item \in Chosen(d) /\ ReloadRow(d, item[1])

WornStep(d) ==
  \A c \in Bare(d)' \ Bare(d) :
    \/ Return(d) \/ CancelMake(d) \/ DismissMake(d)
    \/ \E slot \in DOMAIN rows[d][c] : Deselect(d, c, slot)

\* A tap on a slot of one device leaves the others alone.
LEMMA TapStep ==
  ASSUME SelectionOK, NEW d \in Device, NEW c \in Category, NEW slot \in DOMAIN rows[d][c],
         NEW e \in Device, Select(d, c, slot) \/ Deselect(d, c, slot)
  PROVE  MarkedStep(e) /\ WornStep(e)
<1>1. CASE e # d
  <2>1. /\ rows'[e] = rows[e] /\ marks'[e] = marks[e]
        /\ selectedImageSet'[e] = selectedImageSet[e]
    BY <1>1 DEF Select, Deselect, Check, Uncheck, SelectionOK
  <2> QED  BY <2>1 DEF MarkedStep, WornStep, Unchecked, Chosen, Bare
<1>2. CASE e = d /\ Select(d, c, slot)
  <2>1. /\ rows' = rows
        /\ marks'[d] = marks[d] \cup {<< c, slot >>}
        /\ selectedImageSet'[d] = Updated(selectedImageSet[d], c, rows[d][c][slot])
    BY <1>2 DEF Select, Check, SelectionOK
  <2> DEFINE f == selectedImageSet[d]
             g == selectedImageSet'[d]
  <2>2. /\ DOMAIN g = DOMAIN f \cup {c}
        /\ g[c] = rows[d][c][slot]
        /\ \A k \in DOMAIN g : k # c => k \in DOMAIN f /\ g[k] = f[k]
    BY <2>1 DEF Updated
  <2>3. Unchecked(d)' \subseteq Unchecked(d)
    <3> SUFFICES ASSUME NEW k \in DOMAIN g,
                        \A m \in marks'[d] : m[1] = k => rows'[d][m[1]][m[2]] # g[k]
                 PROVE  /\ k \in DOMAIN f /\ g[k] = f[k]
                        /\ \A m \in marks[d] : m[1] = k => rows[d][m[1]][m[2]] # g[k]
      BY DEF Unchecked, Chosen
    <3>1. << c, slot >> \in marks'[d]
      BY <2>1
    <3>2. k # c
      BY <2>1, <2>2, <3>1
    <3> QED  BY <2>1, <2>2, <3>2
  <2>4. Bare(d)' \subseteq Bare(d)
    BY <2>1, <2>2 DEF Bare
  <2> QED  BY <1>2, <2>3, <2>4 DEF MarkedStep, WornStep
<1>3. CASE e = d /\ Deselect(d, c, slot)
  <2>1. /\ rows' = rows
        /\ marks'[d] = marks[d] \ {<< c, slot >>}
        /\ selectedImageSet'[d] = Kept(selectedImageSet[d], DOMAIN selectedImageSet[d] \ {c})
    BY <1>3 DEF Deselect, Uncheck, SelectionOK
  <2> DEFINE f == selectedImageSet[d]
             g == selectedImageSet'[d]
  <2>2. DOMAIN g = DOMAIN f \ {c} /\ \A k \in DOMAIN g : g[k] = f[k]
    BY <2>1 DEF Kept
  <2>3. Unchecked(d)' \subseteq Unchecked(d)
    <3> SUFFICES ASSUME NEW k \in DOMAIN g,
                        \A m \in marks'[d] : m[1] = k => rows'[d][m[1]][m[2]] # g[k]
                 PROVE  /\ k \in DOMAIN f /\ g[k] = f[k]
                        /\ \A m \in marks[d] : m[1] = k => rows[d][m[1]][m[2]] # g[k]
      BY DEF Unchecked, Chosen
    <3>1. \A m \in marks[d] : m[1] = k => m \in marks'[d]
      BY <2>1, <2>2
    <3> QED  BY <2>1, <2>2, <3>1
  <2>4. Bare(d)' \ Bare(d) \subseteq {c}
    BY <2>1, <2>2 DEF Bare
  <2> QED  BY <1>3, <2>3, <2>4 DEF MarkedStep, WornStep
<1> QED  BY <1>1, <1>2, <1>3

LEMMA ReloadStep ==
  ASSUME SelectionOK, NEW d \in Device, NEW c \in Category, NEW e \in Device, ReloadRow(d, c)
  PROVE  MarkedStep(e) /\ WornStep(e)
<1>1. /\ UNCHANGED selectedImageSet
      /\ marks' = [marks EXCEPT ![d] = { m \in @ : m[1] # c }]
      /\ \A f \in Device, k \in Category : f # d \/ k # c => rows'[f][k] = rows[f][k]
  BY Refills DEF ReloadRow
<1>2. Chosen(e)' = Chosen(e)
  BY <1>1 DEF Chosen
<1>3. ASSUME NEW item \in Unchecked(e)' \ Unchecked(e)
      PROVE  item \in Chosen(e) /\ ReloadRow(e, item[1])
  <2>1. item \in Chosen(e)
    BY <1>2 DEF Unchecked
  <2>2. PICK m \in marks[e] : m[1] = item[1] /\ rows[e][m[1]][m[2]] = item[2]
    BY <1>3, <2>1 DEF Unchecked
  <2>3. m[1] \in Category
    BY DEF SelectionOK
  <2>4. e = d /\ m[1] = c
    <3> SUFFICES ASSUME e # d \/ m[1] # c PROVE FALSE
      OBVIOUS
    <3>1. m \in marks'[e] /\ rows'[e][m[1]] = rows[e][m[1]]
      BY <1>1, <2>3 DEF SelectionOK
    <3> QED  BY <1>3, <2>2, <3>1 DEF Unchecked
  <2> QED  BY <2>1, <2>2, <2>4
<1>4. marks'[e] \subseteq marks[e]
  BY <1>1 DEF SelectionOK
<1>5. Bare(e)' \subseteq Bare(e)
  BY <1>1, <1>4 DEF Bare
<1> QED  BY <1>3, <1>5 DEF MarkedStep, WornStep

LEMMA SelectionSteps ==
  OutfitTypeOK /\ OutfitNext => \A d \in Device : MarkedStep(d) /\ WornStep(d)
<1> SUFFICES ASSUME OutfitTypeOK, OutfitNext, NEW e \in Device PROVE MarkedStep(e) /\ WornStep(e)
  OBVIOUS
<1> USE DEF selectionVars
<1>0. SelectionOK
  BY DEF OutfitTypeOK, SelectionOK
<1>1. ASSUME UNCHANGED << rows, marks, selectedImageSet >> PROVE MarkedStep(e) /\ WornStep(e)
  BY <1>1 DEF MarkedStep, WornStep, Unchecked, Chosen, Bare
<1>2. ASSUME NEW d \in Device, Return(d) \/ CancelMake(d) \/ DismissMake(d)
      PROVE  MarkedStep(e) /\ WornStep(e)
  <2>1. UNCHANGED << rows, marks >> /\ Cleared(d)
    BY <1>2 DEF Return, CancelMake, DismissMake
  <2>2. CASE e = d
    <3>1. DOMAIN selectedImageSet'[e] = {}
      BY <1>0, <2>1, <2>2 DEF Cleared, SelectionOK, EmptyDict
    <3> QED  BY <1>2, <2>2, <3>1 DEF MarkedStep, WornStep, Unchecked, Chosen
  <2>3. CASE e # d
    <3>1. selectedImageSet'[e] = selectedImageSet[e]
      BY <1>0, <2>1, <2>3 DEF Cleared, SelectionOK
    <3> QED  BY <2>1, <3>1 DEF MarkedStep, WornStep, Unchecked, Chosen, Bare
  <2> QED  BY <2>2, <2>3
<1>3. ASSUME NEW d \in Device, RestartAll(d) PROVE MarkedStep(e) /\ WornStep(e)
  <2>1. CASE e = d
    <3>1. DOMAIN selectedImageSet'[e] = {} /\ marks'[e] = {}
      BY <1>0, <1>3, <2>1 DEF RestartAll, Cleared, SelectionOK, EmptyDict
    <3> QED  BY <3>1 DEF MarkedStep, WornStep, Unchecked, Chosen, Bare
  <2>2. CASE e # d
    <3>1. /\ rows'[e] = rows[e] /\ marks'[e] = marks[e]
          /\ selectedImageSet'[e] = selectedImageSet[e]
      BY <1>0, <1>3, <2>2 DEF RestartAll, Cleared, SelectionOK
    <3> QED  BY <3>1 DEF MarkedStep, WornStep, Unchecked, Chosen, Bare
  <2> QED  BY <2>1, <2>2
<1>4. ASSUME NEW d \in Device, Leave(d) \/ Make(d) PROVE UNCHANGED << rows, marks, selectedImageSet >>
  BY <1>4 DEF Leave, Make
<1>5. ASSUME NEW d \in Device, NEW r \in Refresh, VisitGallery(d, r)
      PROVE  UNCHANGED << rows, marks, selectedImageSet >>
  BY <1>5 DEF VisitGallery
<1> QED
  BY <1>0, <1>1, <1>2, <1>3, <1>4, <1>5, TapStep, ReloadStep DEF OutfitNext, Choose

\* Only the reload of a row leaves a chosen photo without its mark.
THEOREM ChosenAreMarked == OutfitSpec => ChosenIsMarked
<1>1. OutfitTypeOK /\ [OutfitNext]_outfitVars =>
        [\A d \in Device : \A item \in Unchecked(d)' \ Unchecked(d) :
           item \in Chosen(d) /\ ReloadRow(d, item[1])]_outfitVars
  BY SelectionSteps DEF MarkedStep
<1> QED
  BY <1>1, OutfitTypeCorrect, PTL DEF OutfitSpec, ChosenIsMarked

\* Only a return to the closet and a deselection leave a row with check marks
\* and nothing to wear.
THEOREM CheckedAreWorn == OutfitSpec => CheckedIsWorn
<1>1. OutfitTypeOK /\ [OutfitNext]_outfitVars =>
        [\A d \in Device : \A c \in Bare(d)' \ Bare(d) :
           \/ Return(d) \/ CancelMake(d) \/ DismissMake(d)
           \/ \E slot \in DOMAIN rows[d][c] : Deselect(d, c, slot)]_outfitVars
  BY SelectionSteps DEF WornStep
<1> QED
  BY <1>1, OutfitTypeCorrect, PTL DEF OutfitSpec, CheckedIsWorn
=============================================================================
