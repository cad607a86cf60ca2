------------------------------- MODULE Camera -------------------------------
(***************************************************************************)
(* The camera screen.  The user checks a category and takes photos.  Each  *)
(* photo is stored as images/image1, one path that all users share; the    *)
(* link to this path is sent to remove.bg, whose answer becomes the        *)
(* preview; and the add button files the preview under the category        *)
(* checked by then (ClosetItems says what becomes of it).                  *)
(*                                                                         *)
(* As in CodiSets a callback is one step and the servers' answers are      *)
(* steps of their own.                                                     *)
(***************************************************************************)
EXTENDS Integers, Dictionary

CONSTANTS
  Device,      \* the devices that run the app
  Category,    \* the tags of the eight category buttons
  NoCategory,  \* raw value 0: an untagged button, or none
  Shot,        \* the photos a run may take
  NoShot       \* no photo

ASSUME NoCategoryAssumption == NoCategory \notin Category
ASSUME NoShotAssumption == NoShot \notin Shot

VARIABLES
  session,         \* each device's capture session: "closed", "starting", "running"
  isSelected,      \* the category buttons of each device that are selected
  selectedButton,  \* the tag of CameraCustomViewController.selectedButton
  captureImage,    \* the shot whose answer captureImageView shows
  filed,           \* the last photo handed to uploadImageRemovedBackground
  image1,          \* the file at images/image1
  shots            \* the shots taken so far (finished ones are kept as history)

buttonVars == << isSelected, selectedButton >>
vars == << session, buttonVars, captureImage, filed, image1, shots >>

\* The stages of a shot: being captured, put, linked to, and processed by
\* remove.bg; then shown as a preview, failed, or dropped with its screen.  An
\* orphan is a put that goes on when its screen has gone or has given it up.
Pending == {"captured", "putting", "stored", "linked", "answered", "orphan"}

\* met: the shots, of any user, that have been pending together with this one.
ShotRecord ==
  [dev : Device, seq : Nat, stage : Pending \cup {"shown", "failed", "dropped"},
   met : SUBSET Shot, image : Shot \cup {NoShot}]

Filing == [cat : Category, image : Shot]
NotFiled == [cat |-> NoCategory, image |-> NoShot]

Init ==
  /\ session = [d \in Device |-> "closed"]
  /\ isSelected = [d \in Device |-> {}]
  /\ selectedButton = [d \in Device |-> NoCategory]
  /\ captureImage = [d \in Device |-> NoShot]
  /\ filed = [d \in Device |-> NotFiled]
  /\ image1 = NoShot
  /\ shots = EmptyDict

-----------------------------------------------------------------------------
(* The screen *)

\* The screen appears; startRunning goes to a background queue.
OpenScreen(d) ==
  /\ session[d] = "closed"
  /\ session' = [session EXCEPT ![d] = "starting"]
  /\ UNCHANGED << buttonVars, captureImage, filed, image1, shots >>

SessionRuns(d) ==
  /\ session[d] = "starting"
  /\ session' = [session EXCEPT ![d] = "running"]
  /\ UNCHANGED << buttonVars, captureImage, filed, image1, shots >>

InStage(s, stage) == s \in DOMAIN shots /\ shots[s].stage = stage

\* What becomes of a device's shot when its screen goes.  If something keeps the
\* screen alive, a capture still ends and puts its photo.
Abandoned(shot, ends) ==
  CASE shot.stage = "putting" \/ (shot.stage = "captured" /\ ends) ->
         [shot EXCEPT !.stage = "orphan"]
    [] shot.stage \in {"captured", "stored", "linked", "answered", "shown"} ->
         [shot EXCEPT !.stage = "dropped"]
    [] OTHER -> shot

\* The screen is cancelled, closes after an addition, or its app is killed.  A
\* new screen starts with untagged selectedButton and no preview.
CloseScreen(d) ==
  /\ session[d] # "closed"
  /\ session' = [session EXCEPT ![d] = "closed"]
  /\ isSelected' = [isSelected EXCEPT ![d] = {}]
  /\ selectedButton' = [selectedButton EXCEPT ![d] = NoCategory]
  /\ captureImage' = [captureImage EXCEPT ![d] = NoShot]
  /\ \E ending \in SUBSET { s \in DOMAIN shots : InStage(s, "captured") /\ shots[s].dev = d } :
       shots' = [s \in DOMAIN shots |-> IF shots[s].dev = d THEN Abandoned(shots[s], s \in ending)
                                                             ELSE shots[s]]
  /\ UNCHANGED << filed, image1 >>

\* Mutant: the other buttons stay selected.
CheckAlso(d, c) ==
  /\ session[d] # "closed"
  /\ c \notin isSelected[d]
  /\ isSelected' = [isSelected EXCEPT ![d] = @ \cup {c}]
  /\ selectedButton' = [selectedButton EXCEPT ![d] = c]
  /\ UNCHANGED << session, captureImage, filed, image1, shots >>

\* A category button that is not selected is tapped.
Check(d, c) ==
  /\ session[d] # "closed"
  /\ c \notin isSelected[d]
  /\ isSelected' = [isSelected EXCEPT ![d] = {c}]
  /\ selectedButton' = [selectedButton EXCEPT ![d] = c]
  /\ UNCHANGED << session, captureImage, filed, image1, shots >>

\* A category button that is selected is tapped.
Uncheck(d, c) ==
  /\ c \in isSelected[d]
  /\ isSelected' = [isSelected EXCEPT ![d] = @ \ {c}]
  /\ selectedButton' = [selectedButton EXCEPT ![d] = NoCategory]
  /\ UNCHANGED << session, captureImage, filed, image1, shots >>

-----------------------------------------------------------------------------
(* Taking a photo *)

IsPending(s) == s \in DOMAIN shots /\ shots[s].stage \in Pending

PendingShots == { s \in DOMAIN shots : IsPending(s) }

NewShot(d) ==
  [dev |-> d, seq |-> Count(shots), stage |-> "captured", met |-> PendingShots, image |-> NoShot]

\* The shutter; without a selected button it only shows an alert.
TakePhoto(d, s) ==
  /\ session[d] = "running"
  /\ isSelected[d] # {}
  /\ s \notin DOMAIN shots
  /\ shots' = Updated([r \in DOMAIN shots |->
                         IF IsPending(r) THEN [shots[r] EXCEPT !.met = @ \cup {s}] ELSE shots[r]],
                      s, NewShot(d))
  /\ UNCHANGED << session, buttonVars, captureImage, filed, image1 >>

\* Capturing before the session runs raises an exception: the app dies.
ShootTooEarly(d) ==
  /\ session[d] = "starting"
  /\ isSelected[d] # {}
  /\ CloseScreen(d)

Advance(s, stage) ==
  /\ shots' = [shots EXCEPT ![s].stage = stage]
  /\ UNCHANGED << session, buttonVars, captureImage, filed >>

\* Mutant: the link is asked for before the photo is stored.
HandlePhotoUnstored(s) == InStage(s, "captured") /\ Advance(s, "linked") /\ UNCHANGED image1

\* photoOutput: the photo is put to images/image1.
HandlePhoto(s) == InStage(s, "captured") /\ Advance(s, "putting") /\ UNCHANGED image1

PutLands(s) == InStage(s, "putting") /\ image1' = s /\ Advance(s, "stored")

\* The put of a screen that is gone or has given it up: nobody asks for its link.
OrphanLands(s) == InStage(s, "orphan") /\ image1' = s /\ Advance(s, "dropped")

\* The link to images/image1, whatever is stored there now, is sent to remove.bg.
HandleLink(s) == InStage(s, "stored") /\ Advance(s, "linked") /\ UNCHANGED image1

\* remove.bg follows the link and reads the file.
RemoveBG(s) ==
  /\ InStage(s, "linked")
  /\ shots' = [shots EXCEPT ![s].stage = "answered", ![s].image = image1]
  /\ UNCHANGED << session, buttonVars, captureImage, filed, image1 >>

\* A capture, put or download link that fails, a link that a later put has made
\* invalid, and an answer that is no image: the error is printed at most.  A put
\* that the client gives up may still arrive.
ShotFails(s) ==
  /\ \E stage \in Pending \ {"answered"} : InStage(s, stage)
  /\ \/ Advance(s, "failed")
     \/ InStage(s, "putting") /\ Advance(s, "orphan")
  /\ UNCHANGED image1

\* Mutant: a preview that is there already stays.
HandleAnswerFirst(s) ==
  LET d == shots[s].dev
  IN  /\ InStage(s, "answered")
      /\ shots' = [shots EXCEPT ![s].stage = "shown"]
      /\ captureImage' = [captureImage EXCEPT ![d] = IF @ = NoShot THEN s ELSE @]
      /\ UNCHANGED << session, buttonVars, filed, image1 >>

\* The answer of remove.bg becomes the preview.
HandleAnswer(s) ==
  /\ InStage(s, "answered")
  /\ shots' = [shots EXCEPT ![s].stage = "shown"]
  /\ captureImage' = [captureImage EXCEPT ![shots[s].dev] = s]
  /\ UNCHANGED << session, buttonVars, filed, image1 >>

\* Mutant: a missing category is not noticed.
TapAddUnchecked(d) ==
  /\ captureImage[d] # NoShot
  /\ filed' = [filed EXCEPT ![d] = [cat |-> selectedButton[d], image |-> shots[captureImage[d]].image]]
  /\ UNCHANGED << session, buttonVars, captureImage, image1, shots >>

\* The add button.  Without a preview it shows an alert; without a category
\* addToStorage returns.
TapAdd(d) ==
  /\ captureImage[d] # NoShot
  /\ selectedButton[d] # NoCategory
  /\ filed' = [filed EXCEPT ![d] = [cat |-> selectedButton[d], image |-> shots[captureImage[d]].image]]
  /\ UNCHANGED << session, buttonVars, captureImage, image1, shots >>

-----------------------------------------------------------------------------

ShotProgress(s) ==
  \/ HandlePhoto(s) \/ PutLands(s) \/ OrphanLands(s) \/ HandleLink(s) \/ RemoveBG(s)
  \/ ShotFails(s) \/ HandleAnswer(s)

Next ==
  \/ \E d \in Device : \/ OpenScreen(d) \/ SessionRuns(d) \/ CloseScreen(d) \/ ShootTooEarly(d)
                       \/ TapAdd(d)
                       \/ \E c \in Category : Check(d, c) \/ Uncheck(d, c)
                       \/ \E s \in Shot : TakePhoto(d, s)
  \/ \E s \in Shot : ShotProgress(s)

Spec == Init /\ [][Next]_vars

-----------------------------------------------------------------------------
(* Properties *)

\* Type correctness of the screens, the previews, the shared file and the shots.
TypeOK ==
  /\ session \in [Device -> {"closed", "starting", "running"}]
  /\ isSelected \in [Device -> SUBSET Category]
  /\ selectedButton \in [Device -> Category \cup {NoCategory}]
  /\ captureImage \in [Device -> Shot \cup {NoShot}]
  /\ filed \in [Device -> Filing \cup {NotFiled}]
  /\ image1 \in Shot \cup {NoShot}
  /\ IsDict(shots, Shot, ShotRecord) /\ IsFiniteSet(DOMAIN shots)

\* A photo is filed under the category whose button is selected on the screen,
\* and only that one, although the category is taken from another variable,
\* which starts as an untagged button (didTapButton and addToStorage).
FiledAsChecked ==
  [][\A d \in Device : filed'[d] # filed[d] => isSelected[d] = {filed'[d].cat}]_vars

\* A preview shows the photo it was asked for, or that of a shot, perhaps of
\* another user, which was pending together with it: all photos go through one
\* path, but none that had been dealt with before the shot, and none taken after
\* it was answered, is ever taken for it, whatever failed, was abandoned or
\* landed late (uploadImageNotRemovedBackground and removeBG).
PreviewIsOwn ==
  \A d \in Device : LET s == captureImage[d] IN
    s # NoShot => shots[s].dev = d /\ shots[s].image \in {s} \cup shots[s].met

\* A preview is never replaced by the answer to an older shot, unless the two
\* were pending together, when remove.bg may answer in any order.
PreviewIsLatest ==
  \A d \in Device : \A s \in DOMAIN shots :
    InStage(s, "shown") /\ shots[s].dev = d =>
      LET p == captureImage[d]
      IN  p # NoShot /\ (shots[p].seq >= shots[s].seq \/ p \in shots[s].met)
=============================================================================
