---------------------------- MODULE CameraProofs ----------------------------
(***************************************************************************)
(* Theorems about Camera for every number of devices, categories and       *)
(* shots.                                                                  *)
(***************************************************************************)
EXTENDS Camera, DictionaryTheorems, FiniteSetTheorems

Stage == Pending \cup {"shown", "failed", "dropped"}

Screens ==
  /\ session \in [Device -> {"closed", "starting", "running"}]
  /\ isSelected \in [Device -> SUBSET Category]
  /\ selectedButton \in [Device -> Category \cup {NoCategory}]
  /\ captureImage \in [Device -> Shot \cup {NoShot}]
  /\ filed \in [Device -> Filing \cup {NotFiled}]
  /\ image1 \in Shot \cup {NoShot}

-----------------------------------------------------------------------------
(* Type correctness *)

\* One shot moves on to another stage.
LEMMA StageType ==
  ASSUME IsDict(shots, Shot, ShotRecord), NEW s \in DOMAIN shots, NEW stage \in Stage,
         shots' = [shots EXCEPT ![s].stage = stage]
  PROVE  IsDict(shots', Shot, ShotRecord)
<1>1. shots[s] \in ShotRecord
  BY DEF IsDict
<1>2. [shots[s] EXCEPT !.stage = stage] \in ShotRecord
  BY <1>1 DEF ShotRecord, Stage
<1> QED  BY <1>2 DEF IsDict

LEMMA AbandonedType ==
  ASSUME NEW shot \in ShotRecord, NEW ends \in BOOLEAN
  PROVE  Abandoned(shot, ends) \in ShotRecord
BY DEF Abandoned, ShotRecord, Pending

LEMMA TypeInit == Init => TypeOK
BY FS_EmptySet DEF Init, TypeOK, IsDict, EmptyDict

\* The types of what TypeOK says of the shots.
ShotsOK == IsDict(shots, Shot, ShotRecord) /\ IsFiniteSet(DOMAIN shots)

\* The shots of a step that advances one of them.
LEMMA AdvanceType ==
  ASSUME ShotsOK, NEW s \in Shot, NEW from, InStage(s, from), NEW stage \in Stage, Advance(s, stage)
  PROVE  ShotsOK'
<1>1. IsDict(shots', Shot, ShotRecord)
  BY StageType DEF ShotsOK, InStage, Advance
<1> QED  BY <1>1 DEF ShotsOK, Advance

\* The preview of a device is one of its own shots that are shown.
PreviewIsShown ==
  \A d \in Device : LET s == captureImage[d] IN
    s # NoShot => s \in DOMAIN shots /\ shots[s].dev = d /\ shots[s].stage = "shown"

\* What remove.bg is asked for exists, and what it has answered is a photo.
PhotoBehind ==
  \A s \in DOMAIN shots :
    /\ shots[s].stage \in {"stored", "linked"} => image1 \in Shot
    /\ shots[s].stage \in {"answered", "shown"} => shots[s].image \in Shot

BaseInv == TypeOK /\ PreviewIsShown /\ PhotoBehind

\* A shot that is shown stays what it is, or its screen goes with it.
LEMMA AdvanceBase ==
  ASSUME BaseInv, NEW s \in Shot, NEW from \in Stage, InStage(s, from), NEW stage \in Stage,
         Advance(s, stage), from # "shown", image1' \in Shot \cup {NoShot},
         stage \in {"stored", "linked"} => image1' \in Shot,
         image1 \in Shot => image1' \in Shot,
         stage \notin {"answered", "shown"}
  PROVE  BaseInv'
<1> USE DEF buttonVars
<1>1. ShotsOK'
  BY AdvanceType DEF BaseInv, TypeOK, ShotsOK
<1>2. TypeOK'
  BY <1>1 DEF BaseInv, TypeOK, ShotsOK, Advance
<1>3. PreviewIsShown'
  BY DEF BaseInv, TypeOK, PreviewIsShown, Advance, InStage, IsDict, ShotRecord
<1>4. PhotoBehind'
  BY DEF BaseInv, TypeOK, PhotoBehind, Advance, InStage, IsDict, ShotRecord
<1> QED  BY <1>2, <1>3, <1>4 DEF BaseInv

LEMMA BaseInit == Init => BaseInv
BY TypeInit DEF Init, BaseInv, PreviewIsShown, PhotoBehind, EmptyDict

LEMMA BaseStep == BaseInv /\ [Next]_vars => BaseInv'
<1> SUFFICES ASSUME BaseInv, [Next]_vars PROVE BaseInv'
  OBVIOUS
<1> USE DEF buttonVars
<1>0. Screens /\ ShotsOK /\ PreviewIsShown /\ PhotoBehind
  BY DEF BaseInv, TypeOK, Screens, ShotsOK
<1>00. Screens' /\ ShotsOK' /\ PreviewIsShown' /\ PhotoBehind' => BaseInv'
  BY DEF BaseInv, TypeOK, Screens, ShotsOK
<1>000. UNCHANGED << shots, image1, captureImage >> => ShotsOK' /\ PreviewIsShown' /\ PhotoBehind'
  BY <1>0 DEF ShotsOK, IsDict, PreviewIsShown, PhotoBehind
<1>1. ASSUME NEW d \in Device, OpenScreen(d) \/ SessionRuns(d) PROVE BaseInv'
  BY <1>1, <1>0, <1>00, <1>000 DEF Screens, OpenScreen, SessionRuns
<1>2. ASSUME NEW d \in Device, CloseScreen(d) PROVE BaseInv'
  <2>1. ShotsOK'
    <3>1. \A s \in DOMAIN shots, ends \in BOOLEAN :
             shots[s] \in ShotRecord /\ Abandoned(shots[s], ends) \in ShotRecord
      BY <1>0, AbandonedType DEF ShotsOK, IsDict
    <3>2. PICK ending : shots' = [s \in DOMAIN shots |->
                                    IF shots[s].dev = d THEN Abandoned(shots[s], s \in ending)
                                                        ELSE shots[s]]
      BY <1>2 DEF CloseScreen
    <3>3. \A s \in DOMAIN shots : (s \in ending) \in BOOLEAN
      OBVIOUS
    <3>4. DOMAIN shots' = DOMAIN shots /\ \A s \in DOMAIN shots : shots'[s] \in ShotRecord
      BY <3>1, <3>2, <3>3
    <3> QED  BY <1>0, <3>2, <3>4 DEF ShotsOK, IsDict
  <2>2. Screens'
    BY <1>2, <1>0 DEF CloseScreen, Screens
  <2>3. PreviewIsShown'
    BY <1>2, <1>0 DEF CloseScreen, PreviewIsShown, Screens
  <2>4. PhotoBehind'
    BY <1>2, <1>0 DEF CloseScreen, PhotoBehind, Abandoned, ShotsOK, IsDict, ShotRecord
  <2> QED  BY <2>1, <2>2, <2>3, <2>4, <1>00
<1>3. ASSUME NEW d \in Device, NEW c \in Category, Check(d, c) \/ Uncheck(d, c) PROVE BaseInv'
  BY <1>3, <1>0, <1>00, <1>000 DEF Check, Uncheck, Screens
<1>4. ASSUME NEW d \in Device, NEW s \in Shot, TakePhoto(d, s) PROVE BaseInv'
  <2>1. Count(shots) \in Nat
    BY <1>0, FS_CardinalityType DEF Count, ShotsOK
  <2>2. NewShot(d) \in ShotRecord
    BY <1>0, <2>1 DEF NewShot, PendingShots, ShotRecord, Pending, ShotsOK, IsDict
  <2>3. \A r \in DOMAIN shots :
          /\ shots[r] \in ShotRecord
          /\ [shots[r] EXCEPT !.met = @ \cup {s}] \in ShotRecord
    BY <1>0 DEF ShotsOK, IsDict, ShotRecord
  <2>4. IsDict(shots', Shot, ShotRecord) /\ DOMAIN shots' = DOMAIN shots \cup {s}
    BY <1>4, <1>0, <2>2, <2>3 DEF ShotsOK, IsDict, TakePhoto, Updated
  <2>5. ShotsOK'
    BY <2>4, <1>0, FS_AddElement DEF ShotsOK
  <2>6. shots'[s].stage = "captured" /\ s \notin DOMAIN shots
    BY <1>4 DEF TakePhoto, Updated, NewShot
  <2>7. \A r \in DOMAIN shots :
          /\ shots'[r].stage = shots[r].stage
          /\ shots'[r].dev = shots[r].dev
          /\ shots'[r].image = shots[r].image
    BY <1>4, <1>0 DEF TakePhoto, Updated, ShotsOK, IsDict, ShotRecord
  <2>8. PreviewIsShown' /\ PhotoBehind'
    BY <1>4, <1>0, <2>4, <2>6, <2>7 DEF PreviewIsShown, PhotoBehind, TakePhoto
  <2> QED  BY <1>4, <1>0, <1>00, <2>5, <2>8 DEF TakePhoto, Screens
<1>5. ASSUME NEW d \in Device, TapAdd(d) PROVE BaseInv'
  <2>1. shots[captureImage[d]].image \in Shot
    BY <1>5, <1>0 DEF TapAdd, PreviewIsShown, PhotoBehind, Screens
  <2>2. selectedButton[d] \in Category
    BY <1>5, <1>0 DEF TapAdd, Screens
  <2>3. filed' \in [Device -> Filing \cup {NotFiled}]
    BY <1>5, <1>0, <2>1, <2>2 DEF TapAdd, Screens, Filing
  <2> QED  BY <1>5, <1>0, <1>00, <1>000, <2>3 DEF TapAdd, Screens
<1>6. ASSUME NEW s \in Shot, HandlePhoto(s) \/ HandleLink(s) PROVE BaseInv'
  <2>1. CASE HandlePhoto(s)
    BY <2>1, <1>0, AdvanceBase DEF HandlePhoto, Stage, Pending, Screens
  <2>2. CASE HandleLink(s)
    <3>1. image1 \in Shot
      BY <2>2, <1>0 DEF HandleLink, PhotoBehind, InStage
    <3> QED  BY <2>2, <3>1, <1>0, AdvanceBase DEF HandleLink, Stage, Pending, Screens
  <2> QED  BY <1>6, <2>1, <2>2
<1>7. ASSUME NEW s \in Shot, PutLands(s) \/ OrphanLands(s) PROVE BaseInv'
  BY <1>7, AdvanceBase DEF PutLands, OrphanLands, Stage, Pending
<1>8. ASSUME NEW s \in Shot, RemoveBG(s) PROVE BaseInv'
  <2>1. image1 \in Shot /\ s \in DOMAIN shots /\ shots[s] \in ShotRecord /\ shots[s].stage = "linked"
    BY <1>8, <1>0 DEF RemoveBG, PhotoBehind, InStage, ShotsOK, IsDict
  <2>2. shots' = [shots EXCEPT ![s] = [shots[s] EXCEPT !.stage = "answered", !.image = image1]]
    BY <1>8 DEF RemoveBG
  <2>3. [shots[s] EXCEPT !.stage = "answered", !.image = image1] \in ShotRecord
    BY <2>1 DEF ShotRecord, Pending
  <2>4. ShotsOK'
    BY <2>1, <2>2, <2>3, <1>0 DEF ShotsOK, IsDict
  <2>5. PreviewIsShown' /\ PhotoBehind'
    BY <1>8, <2>1, <2>2, <1>0 DEF RemoveBG, PreviewIsShown, PhotoBehind, ShotRecord, Screens
  <2> QED  BY <1>8, <2>4, <2>5, <1>0, <1>00 DEF RemoveBG, Screens
<1>9. ASSUME NEW s \in Shot, ShotFails(s) PROVE BaseInv'
  <2>1. PICK stage \in Pending \ {"answered"} : InStage(s, stage)
    BY <1>9 DEF ShotFails
  <2> QED  BY <1>9, <2>1, <1>0, AdvanceBase DEF ShotFails, Stage, Pending, Screens
<1>10. ASSUME NEW s \in Shot, HandleAnswer(s) PROVE BaseInv'
  <2>1. s \in DOMAIN shots /\ shots[s] \in ShotRecord /\ shots[s].stage = "answered"
    BY <1>10, <1>0 DEF HandleAnswer, InStage, ShotsOK, IsDict
  <2>2. ShotsOK'
    BY <1>10, <1>0, <2>1, StageType DEF HandleAnswer, Stage, ShotsOK
  <2>3. Screens'
    BY <1>10, <1>0, <2>1 DEF HandleAnswer, Screens, ShotRecord
  <2>4. PreviewIsShown' /\ PhotoBehind'
    BY <1>10, <2>1, <1>0 DEF HandleAnswer, PreviewIsShown, PhotoBehind, ShotRecord, Screens
  <2> QED  BY <2>2, <2>3, <2>4, <1>00
<1>11. CASE UNCHANGED vars
  BY <1>11, <1>0, <1>00, <1>000 DEF vars, Screens
<1>12. ASSUME NEW d \in Device, ShootTooEarly(d) PROVE BaseInv'
  BY <1>12, <1>2 DEF ShootTooEarly
<1> QED
  BY <1>1, <1>2, <1>3, <1>4, <1>5, <1>6, <1>7, <1>8, <1>9, <1>10, <1>11, <1>12
     DEF Next, ShotProgress

\* The types hold, and a category and a photo are what is filed.
THEOREM TypeCorrect == Spec => []TypeOK
<1>1. BaseInv => TypeOK
  BY DEF BaseInv
<1> QED  BY <1>1, BaseInit, BaseStep, PTL DEF Spec

-----------------------------------------------------------------------------
(* Filing *)

\* The two notions of the chosen category agree.
ButtonsAgree ==
  \A d \in Device :
    isSelected[d] = IF selectedButton[d] = NoCategory THEN {} ELSE {selectedButton[d]}

FilingInv == TypeOK /\ ButtonsAgree

LEMMA FilingStep == FilingInv /\ TypeOK' /\ [Next]_vars => FilingInv'
<1> SUFFICES ASSUME FilingInv, TypeOK', [Next]_vars PROVE ButtonsAgree'
  BY DEF FilingInv
<1>0. Screens /\ ButtonsAgree
  BY DEF FilingInv, TypeOK, Screens
<1> USE DEF buttonVars
<1>1. CASE UNCHANGED buttonVars
  BY <1>0, <1>1 DEF ButtonsAgree
<1>2. ASSUME NEW d \in Device, CloseScreen(d) PROVE ButtonsAgree'
  BY <1>0, <1>2 DEF ButtonsAgree, CloseScreen, Screens
<1>3. ASSUME NEW d \in Device, NEW c \in Category, Check(d, c) PROVE ButtonsAgree'
  BY <1>0, <1>3, NoCategoryAssumption DEF ButtonsAgree, Check, Screens
<1>4. ASSUME NEW d \in Device, NEW c \in Category, Uncheck(d, c) PROVE ButtonsAgree'
  <2>1. isSelected[d] = {c}
    BY <1>0, <1>4 DEF ButtonsAgree, Uncheck
  <2>2. isSelected[d] \ {c} = {}
    BY <2>1
  <2> QED  BY <1>0, <1>4, <2>2 DEF ButtonsAgree, Uncheck, Screens
<1>5. ASSUME NEW d \in Device, OpenScreen(d) \/ SessionRuns(d) \/ TapAdd(d) PROVE UNCHANGED buttonVars
  BY <1>5 DEF OpenScreen, SessionRuns, TapAdd
<1>6. ASSUME NEW d \in Device, NEW s \in Shot, TakePhoto(d, s) PROVE UNCHANGED buttonVars
  BY <1>6 DEF TakePhoto
<1>7. ASSUME NEW s \in Shot, ShotProgress(s) PROVE UNCHANGED buttonVars
  BY <1>7 DEF ShotProgress, HandlePhoto, PutLands, OrphanLands, HandleLink, RemoveBG, ShotFails,
              HandleAnswer, Advance
<1> QED
  BY <1>1, <1>2, <1>3, <1>4, <1>5, <1>6, <1>7 DEF Next, ShootTooEarly, vars

\* A photo goes under the category checked on the screen, whatever was checked
\* and unchecked before.
THEOREM FiledUnderChecked == Spec => FiledAsChecked
<1>1. Init => FilingInv
  BY TypeInit DEF Init, FilingInv, ButtonsAgree
<1>2. BaseInv /\ FilingInv /\ [Next]_vars => FilingInv'
  BY BaseStep, FilingStep DEF BaseInv
<1>3. FilingInv /\ [Next]_vars =>
        [\A d \in Device : filed'[d] # filed[d] => isSelected[d] = {filed'[d].cat}]_vars
  <2> SUFFICES ASSUME FilingInv, Next, NEW d \in Device, filed'[d] # filed[d]
               PROVE  isSelected[d] = {filed'[d].cat}
    OBVIOUS
  <2>1. TapAdd(d)
    BY DEF Next, ShotProgress, OpenScreen, SessionRuns, CloseScreen, ShootTooEarly, TapAdd, Check,
           Uncheck, TakePhoto, HandlePhoto, PutLands, OrphanLands, HandleLink, RemoveBG, ShotFails,
           HandleAnswer, Advance, FilingInv, TypeOK
  <2> QED  BY <2>1 DEF TapAdd, FilingInv, TypeOK, ButtonsAgree
<1> QED  BY <1>1, <1>2, <1>3, BaseInit, BaseStep, PTL DEF Spec, FiledAsChecked

-----------------------------------------------------------------------------
(* Previews *)

\* Shots that are pending together have met.
PendingMet ==
  \A s, r \in DOMAIN shots : IsPending(s) /\ IsPending(r) /\ s # r => r \in shots[s].met

\* The shared file, and then the answer, is the shot's photo or one it has met.
ImageMet ==
  \A s \in DOMAIN shots :
    /\ shots[s].stage \in {"stored", "linked"} => image1 \in {s} \cup shots[s].met
    /\ shots[s].stage \in {"answered", "shown"} => shots[s].image \in {s} \cup shots[s].met

Numbered == \A s \in DOMAIN shots : shots[s].seq < Count(shots)

\* A shot has met every older one that is still pending.
LaterMet ==
  \A s, r \in DOMAIN shots : IsPending(r) /\ shots[s].seq > shots[r].seq => r \in shots[s].met

Order == PendingMet /\ Numbered /\ LaterMet
PreviewInv == BaseInv /\ Order /\ ImageMet /\ PreviewIsLatest

\* A step that takes no photo and only lets shots finish keeps their order.
LEMMA OrderKept ==
  ASSUME BaseInv, Order, DOMAIN shots' = DOMAIN shots,
         \A s \in DOMAIN shots :
           /\ shots'[s].seq = shots[s].seq
           /\ shots'[s].met = shots[s].met
           /\ shots'[s].stage \in Pending => shots[s].stage \in Pending
  PROVE  Order'
<1>1. PendingMet'
  BY DEF Order, PendingMet, IsPending
<1>2. Numbered'
  BY DEF Order, Numbered, Count
<1>3. LaterMet'
  BY DEF Order, LaterMet, IsPending
<1> QED  BY <1>1, <1>2, <1>3 DEF Order

\* A step that shows nothing new keeps every preview the latest.
LEMMA LatestKept ==
  ASSUME PreviewIsLatest, DOMAIN shots' = DOMAIN shots \/ \E s : DOMAIN shots' = DOMAIN shots \cup {s},
         captureImage' = captureImage, PreviewIsShown,
         \A s \in DOMAIN shots :
           /\ shots'[s].seq = shots[s].seq
           /\ shots'[s].dev = shots[s].dev
           /\ shots[s].met \subseteq shots'[s].met
           /\ shots'[s].stage = "shown" => shots[s].stage = "shown",
         \A s \in DOMAIN shots' \ DOMAIN shots : shots'[s].stage # "shown"
  PROVE  PreviewIsLatest'
BY DEF PreviewIsLatest, PreviewIsShown, InStage

\* One shot moves on; what the others have met is not touched.
LEMMA AdvancePreview ==
  ASSUME PreviewInv, BaseInv', NEW s \in Shot, NEW from \in Pending, InStage(s, from),
         NEW stage \in Stage, Advance(s, stage),
         stage \notin {"answered", "shown"},
         stage \in {"stored", "linked"} => image1' \in {s} \cup shots[s].met,
         image1' \in {image1, s}
  PROVE  PreviewInv'
<1> USE DEF buttonVars
<1>0. /\ s \in DOMAIN shots /\ shots[s].stage = from /\ IsPending(s)
      /\ DOMAIN shots' = DOMAIN shots
      /\ captureImage' = captureImage
      /\ shots'[s].stage = stage
      /\ \A r \in DOMAIN shots :
           /\ shots'[r].seq = shots[r].seq
           /\ shots'[r].dev = shots[r].dev
           /\ shots'[r].met = shots[r].met
           /\ shots'[r].image = shots[r].image
           /\ r # s => shots'[r].stage = shots[r].stage
  BY DEF Advance, InStage, PreviewInv, BaseInv, TypeOK, IsDict, ShotRecord, IsPending
<1>1. Order'
  BY <1>0, OrderKept DEF PreviewInv, IsPending
<1>2. ImageMet'
  <2> SUFFICES ASSUME NEW r \in DOMAIN shots
               PROVE  /\ shots'[r].stage \in {"stored", "linked"} => image1' \in {r} \cup shots[r].met
                      /\ shots'[r].stage \in {"answered", "shown"} =>
                           shots[r].image \in {r} \cup shots[r].met
    BY <1>0 DEF ImageMet
  <2>1. CASE r = s
    BY <2>1, <1>0
  <2>2. CASE r # s
    <3>1. IsPending(r) => s \in shots[r].met
      BY <2>2, <1>0 DEF PreviewInv, Order, PendingMet
    <3>2. shots[r].stage \in {"stored", "linked"} => IsPending(r)
      BY DEF IsPending, Pending
    <3> QED  BY <2>2, <3>1, <3>2, <1>0 DEF PreviewInv, ImageMet
  <2> QED  BY <2>1, <2>2
<1>3. PreviewIsLatest'
  BY <1>0, LatestKept DEF PreviewInv, BaseInv
<1> QED  BY <1>1, <1>2, <1>3 DEF PreviewInv

LEMMA PreviewStep == PreviewInv /\ [Next]_vars => PreviewInv'
<1> SUFFICES ASSUME PreviewInv, [Next]_vars PROVE PreviewInv'
  OBVIOUS
<1> USE DEF buttonVars
<1>0. /\ BaseInv /\ Order /\ ImageMet /\ PreviewIsLatest
      /\ BaseInv'
      /\ Screens /\ ShotsOK /\ PreviewIsShown
  BY BaseStep DEF PreviewInv, BaseInv, TypeOK, Screens, ShotsOK
<1>1. CASE UNCHANGED << shots, image1, captureImage >>
  BY <1>0, <1>1 DEF PreviewInv, Order, PendingMet, Numbered, LaterMet, IsPending, Count,
                    ImageMet, PreviewIsLatest, InStage
<1>2. ASSUME NEW d \in Device, CloseScreen(d) PROVE PreviewInv'
  <2>1. /\ DOMAIN shots' = DOMAIN shots
        /\ \A s \in DOMAIN shots :
             /\ shots'[s].seq = shots[s].seq
             /\ shots'[s].met = shots[s].met
             /\ shots'[s].dev = shots[s].dev
             /\ shots'[s].image = shots[s].image
             /\ shots'[s].stage \in Pending => shots[s].stage \in Pending
             /\ shots'[s].stage \in {"stored", "linked", "answered", "shown"} =>
                  shots'[s].stage = shots[s].stage
             /\ shots[s].dev = d => shots'[s].stage # "shown"
    BY <1>2, <1>0 DEF CloseScreen, Abandoned, ShotsOK, IsDict, ShotRecord, Pending
  <2>2. /\ image1' = image1
        /\ \A e \in Device \ {d} : captureImage'[e] = captureImage[e]
    BY <1>2, <1>0 DEF CloseScreen, Screens
  <2>3. Order'
    BY <1>0, <2>1, OrderKept
  <2>4. ImageMet'
    BY <1>0, <2>1, <2>2 DEF ImageMet
  <2>5. PreviewIsLatest'
    BY <1>0, <2>1, <2>2 DEF PreviewIsLatest, PreviewIsShown, InStage
  <2> QED  BY <1>0, <2>3, <2>4, <2>5 DEF PreviewInv
<1>3. ASSUME NEW d \in Device, NEW s \in Shot, TakePhoto(d, s) PROVE PreviewInv'
  <2>1. /\ s \notin DOMAIN shots
        /\ DOMAIN shots' = DOMAIN shots \cup {s}
        /\ image1' = image1 /\ captureImage' = captureImage
    BY <1>3 DEF TakePhoto, Updated
  <2>2. \A r \in DOMAIN shots :
          /\ shots'[r].seq = shots[r].seq
          /\ shots'[r].dev = shots[r].dev
          /\ shots'[r].image = shots[r].image
          /\ shots'[r].stage = shots[r].stage
          /\ shots'[r].met = IF IsPending(r) THEN shots[r].met \cup {s} ELSE shots[r].met
    BY <1>3, <1>0 DEF TakePhoto, Updated, ShotsOK, IsDict, ShotRecord
  <2>3. /\ shots'[s].stage = "captured"
        /\ \A r \in DOMAIN shots : IsPending(r) => r \in shots'[s].met
    BY <1>3 DEF TakePhoto, Updated, NewShot, PendingShots
  <2>12. shots'[s].seq = Count(shots) /\ \A r \in DOMAIN shots : shots'[r].seq = shots[r].seq
    BY <1>3, <2>2 DEF TakePhoto, Updated, NewShot
  <2>4. Count(shots) \in Nat /\ Count(shots') = Count(shots) + 1
    BY <1>0, <2>1, FS_AddElement, FS_CardinalityType DEF Count, ShotsOK
  <2>5. \A r \in DOMAIN shots : IsPending(r)' <=> IsPending(r)
    BY <2>1, <2>2 DEF IsPending
  <2>6. PendingMet'
    BY <1>0, <2>1, <2>2, <2>3, <2>5 DEF Order, PendingMet
  <2>7. \A r \in DOMAIN shots : shots[r].seq \in Nat /\ shots[r].seq < Count(shots)
    BY <1>0 DEF Order, Numbered, ShotsOK, IsDict, ShotRecord
  <2>8. Numbered'
    BY <2>1, <2>12, <2>4, <2>7 DEF Numbered
  <2>9. LaterMet'
    <3> SUFFICES ASSUME NEW q \in DOMAIN shots', NEW r \in DOMAIN shots',
                        IsPending(r)', shots'[q].seq > shots'[r].seq
                 PROVE  r \in shots'[q].met
      BY DEF LaterMet
    <3>1. r \in DOMAIN shots
      BY <2>1, <2>12, <2>4, <2>7
    <3>2. CASE q = s
      BY <3>1, <3>2, <2>3, <2>5
    <3>3. CASE q # s
      BY <1>0, <3>1, <3>3, <2>1, <2>2, <2>5 DEF Order, LaterMet
    <3> QED  BY <3>2, <3>3
  <2>10. ImageMet'
    BY <1>0, <2>1, <2>2, <2>3 DEF ImageMet
  <2>11. PreviewIsLatest'
    BY <1>0, <2>1, <2>2, <2>3, LatestKept
  <2> QED  BY <1>0, <2>6, <2>8, <2>9, <2>10, <2>11 DEF PreviewInv, Order
<1>4. ASSUME NEW s \in Shot, HandlePhoto(s) \/ HandleLink(s) PROVE PreviewInv'
  <2>1. CASE HandlePhoto(s)
    BY <2>1, <1>0, AdvancePreview DEF HandlePhoto, Stage, Pending
  <2>2. CASE HandleLink(s)
    <3>1. image1 \in {s} \cup shots[s].met
      BY <2>2, <1>0 DEF HandleLink, ImageMet, InStage
    <3> QED  BY <2>2, <3>1, <1>0, AdvancePreview DEF HandleLink, Stage, Pending
  <2> QED  BY <1>4, <2>1, <2>2
<1>5. ASSUME NEW s \in Shot, PutLands(s) \/ OrphanLands(s) PROVE PreviewInv'
  BY <1>5, <1>0, AdvancePreview DEF PutLands, OrphanLands, Stage, Pending
<1>6. ASSUME NEW s \in Shot, ShotFails(s) PROVE PreviewInv'
  <2>1. PICK from \in Pending \ {"answered"} : InStage(s, from)
    BY <1>6 DEF ShotFails
  <2>2. PICK stage \in {"failed", "orphan"} : Advance(s, stage)
    BY <1>6 DEF ShotFails
  <2> QED  BY <1>6, <2>1, <2>2, <1>0, AdvancePreview DEF ShotFails, Stage, Pending
<1>7. ASSUME NEW s \in Shot, RemoveBG(s) PROVE PreviewInv'
  <2>1. /\ s \in DOMAIN shots /\ shots[s].stage = "linked"
        /\ DOMAIN shots' = DOMAIN shots
        /\ image1' = image1 /\ captureImage' = captureImage
        /\ shots'[s].stage = "answered" /\ shots'[s].image = image1
        /\ \A r \in DOMAIN shots :
             /\ shots'[r].seq = shots[r].seq
             /\ shots'[r].dev = shots[r].dev
             /\ shots'[r].met = shots[r].met
             /\ r # s => shots'[r].stage = shots[r].stage /\ shots'[r].image = shots[r].image
    BY <1>7, <1>0 DEF RemoveBG, InStage, ShotsOK, IsDict, ShotRecord
  <2>2. Order'
    BY <1>0, <2>1, OrderKept DEF Pending
  <2>3. ImageMet'
    BY <1>0, <2>1 DEF ImageMet
  <2>4. PreviewIsLatest'
    BY <1>0, <2>1, LatestKept
  <2> QED  BY <1>0, <2>2, <2>3, <2>4 DEF PreviewInv
<1>8. ASSUME NEW s \in Shot, HandleAnswer(s) PROVE PreviewInv'
  <2>1. /\ s \in DOMAIN shots /\ shots[s].stage = "answered"
        /\ DOMAIN shots' = DOMAIN shots
        /\ image1' = image1
        /\ shots'[s].stage = "shown"
        /\ \A r \in DOMAIN shots :
             /\ shots'[r].seq = shots[r].seq
             /\ shots'[r].dev = shots[r].dev
             /\ shots'[r].met = shots[r].met
             /\ shots'[r].image = shots[r].image
             /\ r # s => shots'[r].stage = shots[r].stage
    BY <1>8, <1>0 DEF HandleAnswer, InStage, ShotsOK, IsDict, ShotRecord
  <2>2. /\ captureImage'[shots[s].dev] = s
        /\ \A d \in Device : d # shots[s].dev => captureImage'[d] = captureImage[d]
    BY <1>8, <1>0, <2>1 DEF HandleAnswer, Screens, ShotsOK, IsDict, ShotRecord
  <2>3. Order'
    BY <1>0, <2>1, OrderKept DEF Pending
  <2>4. ImageMet'
    BY <1>0, <2>1 DEF ImageMet
  <2>5. PreviewIsLatest'
    <3> SUFFICES ASSUME NEW d \in Device, NEW r \in DOMAIN shots,
                        shots'[r].stage = "shown", shots[r].dev = d
                 PROVE  LET p == captureImage'[d]
                        IN  p # NoShot /\ (shots'[p].seq >= shots[r].seq \/ p \in shots[r].met)
      BY <2>1 DEF PreviewIsLatest, InStage
    <3>1. CASE d # shots[s].dev
      <4>1. r # s /\ InStage(r, "shown")
        BY <3>1, <2>1 DEF InStage
      <4>2. captureImage[d] \in DOMAIN shots
        BY <4>1, <1>0 DEF PreviewIsLatest, PreviewIsShown
      <4> QED  BY <3>1, <4>1, <4>2, <1>0, <2>1, <2>2 DEF PreviewIsLatest
    <3>2. CASE d = shots[s].dev
      <4>1. shots[s].seq \in Nat /\ shots[r].seq \in Nat /\ s # NoShot
        BY <1>0, <2>1, NoShotAssumption DEF ShotsOK, IsDict, ShotRecord
      <4>2. shots[r].seq > shots[s].seq => s \in shots[r].met
        BY <1>0, <2>1 DEF Order, LaterMet, IsPending, Pending
      <4> QED  BY <3>2, <4>1, <4>2, <2>1, <2>2
    <3> QED  BY <3>1, <3>2
  <2> QED  BY <1>0, <2>3, <2>4, <2>5 DEF PreviewInv
<1>9. ASSUME NEW d \in Device,
             \/ OpenScreen(d) \/ SessionRuns(d) \/ TapAdd(d)
             \/ \E c \in Category : Check(d, c) \/ Uncheck(d, c)
      PROVE  UNCHANGED << shots, image1, captureImage >>
  BY <1>9 DEF OpenScreen, SessionRuns, TapAdd, Check, Uncheck
<1> QED
  BY <1>1, <1>2, <1>3, <1>4, <1>5, <1>6, <1>7, <1>8, <1>9 DEF Next, ShotProgress, ShootTooEarly, vars

LEMMA PreviewInit == Init => PreviewInv
BY BaseInit DEF Init, PreviewInv, Order, PendingMet, Numbered, LaterMet, ImageMet,
                PreviewIsLatest, InStage, EmptyDict

\* A preview shows its own shot, or one that was pending together with it, in
\* spite of the one shared path.
THEOREM PreviewOwn == Spec => []PreviewIsOwn
<1>1. PreviewInv => PreviewIsOwn
  BY DEF PreviewInv, BaseInv, PreviewIsShown, ImageMet, PreviewIsOwn
<1> QED  BY <1>1, PreviewInit, PreviewStep, PTL DEF Spec

\* And no late answer takes it away again but that of a shot pending together with it.
THEOREM PreviewLatest == Spec => []PreviewIsLatest
<1>1. PreviewInv => PreviewIsLatest
  BY DEF PreviewInv
<1> QED  BY <1>1, PreviewInit, PreviewStep, PTL DEF Spec
=============================================================================
