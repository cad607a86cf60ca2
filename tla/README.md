# MyCloset in TLA+

MyCloset is an iOS app. Its user photographs clothes, which are kept in eight
categories in Firebase Storage; composes an outfit ("codi") from clothes picked in
the closet and saves it as one picture; and looks at the outfits saved before. This
directory holds a TLA+ model of the app's own logic, TLC configurations that check
it on small instances, and proofs, checked by TLAPS, that hold for every instance.

Paths below are relative to `src/MyCloset/MyCloset/` unless they start with `Pods/`.

## 1. The system

| Component | State | Operations | Talks to |
|---|---|---|---|
| **Codi sets, saving**: `MakeCodiViewController`, `APIManager.uploadCodiSet`, `presentAlert` | the open make-codi screen, its alert; the folder `codiSet/` | open, tap make, cancel, alert button; listing, put and their callbacks | Storage; takes the picture from Selection |
| **Codi sets, gallery**: `PrevCodiViewController`, `APIManager.fetchPrevCodiImages`, `setCodiFile` | `prevCodiData`, `DataManager.codiImages`, `codiImagesCache`, one dispatch group per refresh | appear, pull down; listing, cache hit, download and their callbacks | Storage |
| **Closet items, rows**: the eight cells in `Views/Cells/CetegoryCell`, `APIManager.fetchImageFromFirebase` | `DataManager.top` to `.acc`, `itemImageCache`, one dispatch group and dictionary per fetch | creation of a cell, `newImagePushed`; listing, cache hit, download, completion | Storage; hears the camera screen through NotificationCenter |
| **Closet items, adding**: `CameraCustomViewController.addToStorage`, `uploadImageRemovedBackground`, `CategoryButtonType` | the folders `items/<category>/`; the photo on the screen | tap add, put and its callback, cancel | Storage; reads the counts of DataManager; posts `newImagePushed` |
| **Camera**: the rest of `CameraCustomViewController`, `uploadImageNotRemovedBackground`, `removeBG` | capture session, selected category button, preview; the file `images/image1` | open, shoot, put, link, answer of remove.bg, category taps, add, cancel | Storage, remove.bg; hands the preview to adding |
| **Selection**: `selectedImageSet`, select and deselect in the rows, `MyClosetViewController`, `distributeImages` | the set, the rows' photos and check marks | select, deselect, reload of a row, leave, return, make | hands the picture to saving |
| **Session**: `LoginViewController`, `SignUpViewController`, `AppDelegate`, `SceneDelegate`, `switchingView` | the window's root screen, the sign-up sheet | sign up, log in, sign in with Google, switch | Firebase Auth and Database, Google |
| **Pagers**: `TutorialViewController`, `MainScrollViewCell` | offset, page control, hidden buttons; the pager's bar | Skip, Next, fingers, end of a deceleration, taps on the page control | the tutorial leads to Session |
| **Home screen**: `PinterLayout`, `MainViewController` | attribute cache, column bottoms; blur and weather colour | `prepare`, scrolling | none |
| **Order of keys**: sorting in `fetchImageFromFirebase` and `configureCell` | none | sort by key | rows, gallery |
| Passive views, vendored Pods | none of the app's own | | |

All but the last row are modelled, the home screen in part; section 8 says what is
left out.

What makes this code hard:

* **Nothing coordinates the devices.** `items/` and `codiSet/` are the same folders
  for every user of the app. A file's name is its number, and the number comes from
  a count read earlier: from a listing (`uploadCodiSet`) or from what the device
  happens to have loaded (`fileCount`).
* **Files are found by counting.** A reader lists a folder, takes the number of files
  and downloads 1..n or 0..n-1. A gap in the numbers would hide files for good.
* **Everything is a callback.** Between a request and its callback other callbacks
  and taps run; screens close; the app may be killed while its put goes on.
* **Dispatch groups are left by hand.** Some paths forget to.
* **Caches are never invalidated.**

PROJECT.json lists each such hazard at its line, with the properties that cover it.

## 2. Modules

| Module | Models |
|---|---|
| `Dictionary` | Swift dictionaries: functions with a finite set of keys |
| `ImageCache` | what callers may rely on of SwiftyLRUCache; any entry may be evicted |
| `ServerFolder` | the abstract specification: a folder is a gapless list of pictures |
| `CodiSets` | saving and showing codi sets |
| `ClosetItems` | adding photos and showing rows |
| `Outfits` | the selection, composed with all of `CodiSets`, which it EXTENDS |
| `Camera` | the camera screen up to the photo it hands over |
| `KeyOrder` | the order of file names as strings, with its theorems |
| `Tutorial`, `Session`, `Home` | pages and buttons; accounts, log-ins and windows; waterfall and pager |
| `App` | one device from launch to home screen: the last three composed by INSTANCE |
| `MCCodiSets`, `MCClosetItems`, `MCOutfits`, `MCCamera`, `MCApp` | symmetry and definitions for TLC |
| `DictionaryTheorems` | lemmas on dictionaries and caches |
| `CodiSetsProofs`, `ClosetItemsProofs`, `CameraProofs`, `OutfitsProofs`, `AppProofs` | the theorems |
| `CodiGalleryProofs` | the theorems on the gallery and on users who take turns, which build on `CodiSetsProofs` |

`CodiSets` and `ClosetItems` share no state in the code (different folders,
dictionaries and caches), so each is a specification of its own; both use
`Dictionary` and `ImageCache` and implement `ServerFolder`. `Camera` ends where the tap
of `ClosetItems` begins: `filed` is what `TapAdd` there puts, a photo and a category.
It has no action that depends on the outcome, except that a successful put closes
the screen, which `CloseScreen` allows at any time.

### From code to actions

Every callback of UIKit, Firebase Storage and the dispatch groups runs on the main
queue, so a callback is one atomic step. What the *server* does is a step of its own
(`ListAnswered`, `DownloadAnswered`, `PutLands`), because others act between the
server's answer and the callback that handles it. The one exception to the main
queue, `concurrentPerform`, is discussed below.

**CodiSets.** A tap on make goes through the stages of an upload record:

    listing --ListReply/ListError--> putting --PutLands--> landed --PutAck--> saved
                                        |                    |
                                        +------PutError------+--> failed

`Restart` turns the taps of its device into `lost`, or into `orphan` if a put was
under way; `OrphanLands` lets such a put arrive later. A put that the client gives up
is reported as failed, and becomes an `orphan` too if it is still to arrive. `ListError` is the behaviour
of the vendored `listAll` (`Pods/FirebaseStorage/FirebaseStorage/Sources/FIRStorageReference.m:408-442`),
which after an error calls back a second time with an empty result and no error.
A refresh record holds the listing's count, the number of enters of its dispatch
group not yet left (`left`), the requests without an answer (`asked`) and the answers
whose callback has not run (`got`), and the numbers whose callback returned without
leaving the group (`stranded`). `HandleListing` is the listing's callback with
its loop over `setCodiFile`; `HandleDownload`, `DownloadFails` and `DownloadGarbled`
are the three paths of the download's callback; `Notify` is the group's notification
with the completion of `PrevCodiViewController`.

**ClosetItems.** `TapAdd` reads the next number from DataManager's dictionary
(`FileCount`) and issues the put. `PutHeard` is the completion with its screen alive:
it posts `newImagePushed`, on which every existing cell starts a fetch
(`StartFetches`), and dismisses (`Dismiss`): the screen closes, unless an alert is
presented over it, which is then all that is dismissed. `PutUnheard` is the completion whose
`[weak self]` is nil. A failed put calls no completion (`PutError`). A fetch runs
like a refresh of the gallery, with two differences: only downloads enter the group,
so a cache hit cannot strand it; and `concurrentPerform` stores the cached photos
from several threads without a lock. Swift leaves that undefined; `Collected` lets
any nonempty part of them survive if `"race"` is among the faults (a crash is a
`Restart`). `Sorted` sorts by key and renumbers; `FillSlots` is the cell's loop over
`updateValue`, which never removes an entry.

The eight cells are the same code for eight categories; a row is an element of
`Category`. Pictures are model values: what is on them, JPEG and PNG coding and the
layout of the views are left out. A picture belongs to one make-codi or camera
screen, so the model can tell whose picture a file holds.

**Outfits.** A make-codi screen of `CodiSets` becomes a pair of a screen and the
outfit it was opened with (`LookAssumption`), so the picture that is saved is the outfit
that was selected. `Select` and `Deselect` are the delegate methods of a row with
multiple selection: marks are on slots, `selectedImageSet` has one entry for a
category. `ReloadRow` is the end of a row's fetch, which may come at any time, also
behind the make-codi screen; it may put other photos into the row's slots and add
slots, takes the row's marks and leaves the set. `Return` is
`viewWillAppear`: it clears the set and leaves the marks. Dismissing the make-codi
screen returns to the closet too (`CancelMake`, `DismissMake`), after a failed save as
well as after a successful one: `presentAlert` dismisses it in both cases.

**Camera.** A shot goes through the stages

    captured -> putting -> stored -> linked -> answered -> shown

and each may end as `failed`, or as `dropped` with its screen; a put outlives the
screen as an `orphan`, and so does the put of a capture that ends in a controller which
something still keeps alive (`Abandoned`), and a put that was reported as failed. All
users' shots are put to the one path `images/image1`, so
`RemoveBG` reads whatever the file holds by then. Closing the screen, being closed by
the completion of an addition and the death of the app are one action, `CloseScreen`.
`ShootTooEarly` is the exception of AVFoundation when a photo is taken before
`startRunning`, on a background queue, has finished. `selectedButton` (what `addToStorage`
reads) and `isSelected` (what the user sees) are separate variables, as in the code.

**Tutorial, Session, Home.** Offsets are in half pages, so a finger can be between
pages. UIKit calls `scrollViewDidEndDecelerating` only after a deceleration:
`Release` is a drag that ends without one. `TapPageControl` is a touch of the page
control, which is left enabled and has no target: its dots turn and the app hears
nothing. A registration is two requests, of which
the second is made in the callback of the first; a sign-in with Google creates an account
and calls nothing that opens the main window. A request of a dead process that was
under way may still reach Firebase (`OrphanCreates`, `OrphanWrites`), and a profile that
was reported as failed may have been stored (`SignUpFails`). The loop of `PinterLayout.prepare`
is the recursive function `Loop`; `prepare` never empties its cache, so it grows with every
call. The bar of the pager is moved by one step per deceleration. `App` conjoins them:
the tutorial and the home screen are created anew with their window.

### Parameters

`Faults` names what may go wrong in a run of `CodiSets`, `Outfits` and `ClosetItems`:
`list`, `put`, `ack` (the answer to a put is lost), `download`, `garbage` (data that is
no image), `race`, `restart`. In `Camera` and `App` everything may fail in every run.
`Save`, `Tap`, `Refresh`, `Look`, `Photo`, `Shot`, `Request`, `MaxPrepares` and `MaxStops`
are the taps, screens, photos and gestures of a whole behaviour; they bound it.
`MaxOffset` says how far Next is followed beyond the tutorial's last page, where nothing
in the code stops it. Nothing else is bounded.

## 3. Properties

Shared folders:

* `FolderContiguous`, `ItemsContiguous`: a folder never has a gap, whoever writes at
  the same time and whatever fails.
* `FolderSpec`: each folder implements `ServerFolder!Spec`; every write replaces a
  picture of the list or adds one at its end. `FolderAppends`: every write adds (run for
  the closet, for the codi sets proved only).
* `SavedSetsKept`, `ItemsKept`: what was acknowledged to the user stays in the folder.

Reading them:

* `NoMissingDownload`: no request is ever made for a file that is not there, although
  the count it goes by is old.
* `GroupAccounts`: the count of a refresh's dispatch group is exactly what is still under
  way plus what never leaves it, so it is left at most once per file, and being empty
  means that everything has arrived or failed. `CompleteRefresh`, `RowComplete`: a completed refresh or fetch shows what its
  listing counted.
* `CacheAgrees`: a cached set is the one DataManager holds, so overlapping refreshes
  cannot make a cache hit bring back an older picture.
* `ShownWasSaved`, `SlotsWereAdded`: interleaved callbacks never show a picture under
  another one's number or in another category.
* `SlotsInReach`: slots are numbered 0..count-1, which the row's data source relies
  on, and are never more than the files. `GalleryGrows`, `SlotsGrow`: nothing shown
  disappears before a restart.
* `GalleryCurrent`, `SlotsCurrent`: what is shown is what the folder holds.

The user's side: `AlertIsOwn` (a Success alert is about this screen's set),
`MakeAnswered`, `ColdRefreshCompletes`, `RefreshCompletes`, `FetchCompletes`,
`ItemShown`.

Choosing: `OutfitOnScreen` (nothing that goes on behind an open make-codi screen
changes the set under it), `ChosenIsMarked` (a photo comes to be in the set without its
mark only by a reload of its row: two marks in a row and one entry never lead a tap to
take a mark and leave the photo), `CheckedIsWorn` (a row comes to have marks and no entry
only by coming back to the closet or by a deselection in it, never by a selection).

The camera: `PreviewIsOwn` (a preview shows its own shot or one, perhaps of another user,
that was pending together with it), `PreviewIsLatest` (the answer to an older shot
replaces a preview only if the two were pending together), `FiledAsChecked` (the category of an addition is the one
button that is selected on the screen).

From launch to home: `ButtonsFollowPage` (exactly one of Skip and Next and of the sign-up
button is shown, and where they are those of the page control's page only a tap on the
control itself can part them), `AccountsExplained` (an account without profile,
the harm of a registration in two steps, only ever comes from a registration that did
not complete or from Google, and a completed one has both), `MainNeedsLogIn`,
`PhotosInColumns` (every attribute the layout hands out, from whichever prepare,
agrees with a reference definition of a two-column waterfall), `BarFollowsPage`.

## 4. Runs

| Run | Instance | Shows |
|---|---|---|
| `codi_all` | 2 devices, 2 sets, 2 taps, 2 refreshes, cache of 1, every fault; 999k states | type invariant and nine properties in the presence of races, failures and restarts |
| `codi_turns` | the same, users take turns, faults `put` and `restart`; 107k states | `SavedSetsKept`, `GalleryCurrent` |
| `codi_live` | 1 device, 1 screen, 2 taps, 2 refreshes, fair; 102k states | `MakeAnswered`, `ColdRefreshCompletes` |
| `codi_race` | 2 devices, no fault | violation of `SavedSetsKept` |
| `codi_listerror` | 1 device, turns, fault `list` | violation of `SavedSetsKept` |
| `codi_stranded` | 1 device, fair, no fault | violation of `RefreshCompletes` |
| `closet_all` | 2 devices, 1 category, 2 photos, 2 taps, cache of 1, every fault but the race; 610k states | type invariant and six properties |
| `closet_patient` | 1 device, 2 categories, 2 photos, 2 taps, cache of 1, faults `put`, `ack` and `restart`, fair, patient user; 104k states | `SlotsCurrent`, `SlotsWereAdded`, `ItemsKept`, `FolderAppends`, `FetchCompletes`, `ItemShown` |
| `closet_unloaded` | 1 device, no fault, impatient user | violation of `ItemsKept` |
| `outfits` | 1 device, 2 rows of 2 photos, 2 screens, a save and a refresh, faults `put` and `restart`; 1.3M states | type invariant, `OutfitOnScreen`, `ChosenIsMarked`, `CheckedIsWorn` |
| `camera` | 2 devices, 2 categories, 3 shots; 1.1M states | type invariant, `PreviewIsOwn`, `PreviewIsLatest`, `FiledAsChecked` |
| `app` | 2 addresses, 2 requests, 3 photos of 2 heights, 2 prepares, 3 stops, Next up to half a page beyond the last; 2.0M states | `ButtonsFollowPage`, `AccountsExplained`, `MainNeedsLogIn`, `PhotosInColumns`, `BarFollowsPage` |

No run has a constraint: each explores its instance completely. Deadlock is not
checked, because a behaviour ends when taps and refreshes are used up and users owe
the system nothing.

**Why the bounds are enough.** The numbering races need two devices with a tap each,
or two taps of one device. A cache of one picture with two files evicts in every
refresh; with two devices and two refreshes there are overlapping refreshes of one
device as well as refreshes against another device's writes. `closet_patient` needs
two categories for the shared cache, of one photo only, and two taps that may go to one
row or to two, or repeat one whose answer was lost. Numbers stay below ten in the
runs, where the order of the keys as strings is the order of the numbers; `KeyOrder`
evaluates that this ends with the eleventh photo and the tenth set, and its theorems
show that the order is still a strict total one, which is what `SlotsStayInReach` needs,
and that ten photos are within the bound of `PatientRowsAreCurrent`.
`outfits`: two photos in a row are needed for two marks and one entry, two rows for a
reload of the other one; a row is empty or has both photos in either order, so a reload
may fill or overwrite its slots. `camera`: two devices mix their shots up, the third shot
comes after an abandoned or late one. `app`: two requests for one address, or a
registration and a log-in, in any order; three photos are the least after which a
column is used again; a bar and a page part after two stops. The theorems of section 6
have none of these bounds.

**What users are assumed to do.** Without assumptions sets and photos do get lost:
that is `codi_race` and `closet_unloaded`. `TakingTurns` (codi sets) lets no tap
happen while another one is not settled, on any device. `Patience` (closet) is a user
who adds to a row only when the row has been shown and is not being fetched, one
photo at a time, and who waits for the answer before leaving the screen. Both are
conditions on steps, conjoined to `Next`, and restrict taps on make, add and cancel
only. A put that outlived its process, or the report of its failure, counts as not
settled: the user waits for it too, which is more than anybody can do; section 5 says
what happens to a user who cannot.

**Why some properties have conditions.** After a listing that failed, `uploadCodiSet`
writes to number 1 again, so `codi_turns` is checked without `list`. A photo that was
stored although its answer was lost, or that an orphan stores after its row has been
fetched, is in the folder but not in the count the next tap goes by; the next photo
replaces it. `SlotsCurrent` and `FolderAppends` of `ClosetItems` therefore hold as
long as no answer was lost (`NothingLost`). `ItemsKept` holds without the condition,
because what is replaced then was never acknowledged. `ItemShown` ends with a restart: a
row that is not scrolled into view again is not fetched. `FetchCompletes` is checked
without `download`: a failing download strands its fetch, and the row keeps what it
showed.

**Fairness.** Weak fairness of the progress of each tap, refresh and fetch: the
Storage client retries a request until a deadline and then reports an error, and
UIKit's main queue runs every block. `PutError` and the like need not happen; they are
alternatives of the same progress action. Users, restarts and orphans have no
fairness; patience (`FairPatientSpec`) is no fairness but a restriction of taps. The
selection, the camera and `App` have no liveness property: every failure there ends in
a printed error and leaves it to the user to try again. The progress of a tap, refresh
or fetch is disabled only when it is finished or the code has stranded it: a refresh as
in `codi_stranded`, a fetch by a download that failed.

## 5. Findings

* `codi_race`: two users save at the same time. Both listings count n files, both put
  `codiSet<n+1>.jpeg`, both see "코디가 저장되었습니다." and one set is gone.
* `codi_listerror`: a listing fails. The second callback of `listAll` has no error
  and no items, so the set is stored as `codiSet1.jpeg` over the first one and the user
  is told it was saved.
* `codi_stranded`: the second visit to the gallery finds a picture in the cache;
  `setCodiFile` returns without its completion, the group is never left, and the
  gallery is not updated as long as any of the folder's sets is cached.
* `closet_unloaded`: a photo added to a row that has not been loaded gets number 0 and
  replaces the first photo. A photo added before the row has been fetched again does
  the same to the one added before it, and so does a photo added on one device after
  another device has added one.

The model also holds behaviour that a reader may not expect, and that no run refutes,
because nothing in the repository promises otherwise:

* `race`: a cached photo can be lost in the unsynchronised dictionary of
  `fetchImageFromFirebase`; the row then shows fewer photos than the folder has, and
  `RowComplete` fails. `closet_all` leaves this fault out, and so do the theorems that
  would be false with it (section 6); the others hold with it.
* A put that outlives its app lands with a number taken before: `codiSet<n+1>.jpeg` of the
  user who has started the app again, saved once more and been told so is then replaced
  (`OrphanLands`; the same happens in the closet). The cause is that of `codi_race`.
* A failing download strands the fetch of its row (`DownloadFails`).
* Check marks can outlive the set (`Return`, `Deselect`) and the set the marks (`ReloadRow`):
  an outfit may lack a photo that is checked, and hold one that is not.
* The alert of a failed save dismisses the make-codi screen and the closet then clears
  the outfit, although the alert asks to try again (`DismissMake`).
* Two users who take photos at the same time may each get the other's photo as
  preview, and add it to the closet (`RemoveBG`).
* A sign-in with Google opens no window; after a registration the sheet stays.
* A tap on the tutorial's page control turns its dots alone, and the code goes on from the
  dots: once they are on the last page, Next moves from the first page to the second and
  shows the sign-up button there (`TapPageControl`, `TapNext`).
* Next may move the tutorial past its last page, and the page control may be ahead of
  or behind the pages (`TapNext`, `Release`).
* The bar of the home screen's pager is off for good after a move over several pages.
* From the eleventh photo of a row, and the tenth set, on the order shown is not the
  order of addition.

## 6. Theorems

All are proved for any sets of devices, screens, taps, refreshes, categories, shots,
addresses and requests, any number of photos and stops, any cache capacity above zero
and, unless a theorem says otherwise, any `Faults`. The assumptions on constants are that
`NoLook`, `NoPhoto`, `RowShown`, `NoCategory` and `NoShot` are not elements of the sets
they extend, that `CacheCapacity` is positive, that a screen of `Outfits` is a pair
(`LookAssumption`), and that the home screen has a number of photos whose heights are
numbers (`HomeAssumption`).

Some theorems assume more, and name it. Every one of these hypotheses is needed:

| Hypothesis | Why |
|---|---|
| `KeyOrder`: keys are strictly and totally ordered | otherwise ranks repeat and sorting loses photos. The code's order is one for numbers below 100 (`KeysAreOrdered`) |
| `TurnsSpec`, `"list" \notin Faults` | two savers race (`codi_race`); a failed listing numbers by 0 files (`codi_listerror`) |
| `"race" \notin Faults` | a lost write of the cache loop leaves a row incomplete |
| `PatientSpec` | an impatient user is numbered by an empty row (`closet_unloaded`) |
| `OneDevice`: one device, no failing listing, no race | a second device numbers by its own rows; after a failed listing or a race a row is not being fetched any more and yet lacks photos |
| `Numeric(few)` and never more than `few` photos in a category | from the eleventh photo on, sorting by strings gives photos other numbers than their files have. `TenAreNumerical` shows that `few` may be 10 |

| Theorem | States |
|---|---|
| `CodiSetsProofs!TypeCorrect`, `ClosetItemsProofs!TypeCorrect` | `TypeOK` |
| `FolderIsContiguous`, `FoldersAreContiguous` | no gaps |
| `FolderRefines`, `FoldersRefine` | every folder implements `ServerFolder!Spec` |
| `NothingMissing` (in both) | no request for a missing file |
| `CacheAgreement` | `CacheAgrees` |
| `CodiGalleryProofs!AlertsAreOwn` | `AlertIsOwn` |
| `GalleryOnlyGrows`, `GroupIsBalanced`, `RefreshIsComplete` | `GalleryGrows`, `GroupAccounts`, `CompleteRefresh` |
| `ShownIsSaved` | `ShownWasSaved` |
| `TurnsKeepSets`, `TurnsAppend`, `TurnsStayCurrent` | `SavedSetsKept`, `FolderAppends`, `GalleryCurrent` of `TurnsSpec`, without `list` |
| `SlotsStayInReach` | `SlotsInReach`, if the keys are strictly and totally ordered (assumption `KeyOrder` of that theorem) |
| `RowsOnlyGrow` | `SlotsGrow` |
| `RowsAreComplete` | `RowComplete`, under `KeyOrder` and without `race` |
| `SlotsHoldAdded` | `SlotsWereAdded` |
| `PatientKeepsItems`, `PatientAppends` | `ItemsKept`, `FolderAppends` of `PatientSpec`, under `KeyOrder` and `OneDevice` |
| `PatientRowsAreCurrent` | `SlotsCurrent` of `PatientSpec`, under the same and the bound on numbers |
| `KeyOrder!KeysAreOrdered`, `TenAreNumerical` | the order of keys below 100 is strict and total; below 10 it is that of the numbers |
| `OutfitsProofs!OutfitRefines` | `OutfitSpec => Spec`: the composition implements `CodiSets` |
| `OutfitTypeCorrect`, `OutfitStaysOnScreen`, `ChosenAreMarked`, `CheckedAreWorn` | `OutfitTypeOK`, `OutfitOnScreen`, `ChosenIsMarked`, `CheckedIsWorn` |
| `CameraProofs!TypeCorrect` | `TypeOK` |
| `FiledUnderChecked`, `PreviewOwn`, `PreviewLatest` | `FiledAsChecked`, `PreviewIsOwn`, `PreviewIsLatest` |
| `AppProofs!ButtonsFollow`, `BarFollows` | `ButtonsFollowPage`, `BarFollowsPage` |
| `AccountsAreExplained`, `MainAfterLogIn` | `AccountsExplained`, `MainNeedsLogIn` |
| `PhotosAreInColumns` | `PhotosInColumns` |

**Codi sets.** `FolderContiguous` is not inductive: a put under way could land beyond
the end. `FolderInv` adds `PutsInReach`: the number of a put under way, an orphan's
included, is at most one beyond the folder. It is preserved because numbers are taken
from a count and the folder never shrinks, so a stale number can only fall back into
the list. The same fact makes each write a `Replace` or an `Add` of `ServerFolder`.
`RequestInv` adds to `NoMissingDownload` that the count of a refresh is at most the
folder's. `CacheAgrees` is inductive once types are known: every path that puts a
picture into the cache puts it into DataManager under the same number in the same
callback, and eviction only removes.

**The gallery.** `GroupAccounts` is inductive with the types: the numbers that a listing
counted are inside the dispatch group (asked for, answered or stranded), whose size is the
count, or outside, and those outside have failed or are in DataManager. A group with
count 0 has nobody inside, stranded numbers included, so a refresh that completes has met
neither a cached file nor an answer that is no image, and what did not fail is in the
dictionary that replaces the gallery's (`RefreshIsComplete`). Of refreshes that are
stranded neither says more than how many numbers never leave. That the new dictionary has all numbers of the old one
(`GalleryOnlyGrows`) needs `GalleryWithin`: the gallery shows no number that DataManager
does not hold.

`ShownWasSaved` and `GalleryCurrent` are about galleries, but a picture gets there by way
of a download's answer, DataManager and the cache. `Held` names all of these places, and
`HeldFrom` is the one lemma that says where a step may take a held picture from. With it,
`Provenance` (what is held or in the folder was put by some tap under that number) and
`HeldCurrent` (what is held is what the folder has) are inductive.

**Taking turns.** `TurnsInv` turns the restriction on taps into a fact about puts. At
most one tap is unsettled (`OneAtATime`), orphans included, so nothing lands between a
listing and its put, and the number of a put is still the next one when it lands
(`NextInLine`); what has landed is never replaced (`LandedKept`). `SavedSetsKept` alone is
not inductive: the put is acknowledged a step after it has landed.

**Closet items.** The number of a tap comes from DataManager, which is filled from
what a fetch collected, which is bounded by the count of its listing. `FolderInv` is
this chain: `ItemsContiguous`, `TapsInReach` (a put under way hits a number in use or
the next), `SlotsWithin` (slots lie below the folder's count) and `FetchesWithin`
(what a fetch asks for, has got or has collected does too). Sorting needs a lemma:
ranks of n photos are below n, whatever the order of the keys. That there are *no
gaps* among the ranks needs a strict total order; then rank is an injection from n
keys into 0..n-1 and so onto it (`SortedGapless`), which gives `SlotsStayInReach`.
`KeysAreOrdered` proves that the order of the code is one, for numbers below 100.

`RowComplete` rests, like `CompleteRefresh`, on the accounts of the dispatch group, here of
the downloads only, and on sorting n photos to 0..n-1. `SlotsWereAdded` is strengthened
to everything that is on the way to a row (`InUse`); sorting changes numbers, so provenance
is of a photo in a category, not of a photo under a number.

**The patient user.** The chain from folder to fetch to row to tap is there again, now from
below: every acknowledged photo is below the number that a put under way has
(`PutsAbove`), below the count of an idle row (`RowsAbove`) and below the count of a
listing (`FetchesAbove`). So the next put cannot hit it (`AddedKept`). That patience holds
back taps and not puts is dealt with by `PutsHeld`: until its answer a put keeps its row
idle and its screen open. The three inequalities become equations as long as nothing was lost
(`FreshInv`: `PutsNext`, `RowsFull`, `FetchesFull`), and a put with the count as its number
appends. Then no photo is ever replaced, and `SlotsCurrent` follows as for the gallery
from saying it of everything on the way to a row (`AllCurrent`), provided that sorting
changes no number (`SortedSame`).

**Outfits.** Every step is a step of `CodiSets` or changes none of its variables, so
`OutfitRefines` carries every theorem of `CodiSetsProofs` over to the composition.
`OutfitOnScreen` needs that an open make-codi screen covers the closet
(`OnScreenInv`): no mark can be tapped under it. `ChosenIsMarked` and `CheckedIsWorn` are
action properties proved from the types alone, tap by tap (`TapStep`) and for a reload
(`ReloadStep`), which may change photos under the set but takes the marks with them.

**Camera.** `FiledAsChecked` follows once the two notions of the chosen category agree
(`ButtonsAgree`). For the previews, `BaseInv` says that the preview is one of the device's
own shown shots and that remove.bg is never asked for a file that is not there.
`PreviewIsOwn` needs that shots which are pending together have met (`PendingMet`), so that
whatever lands on `images/image1` while a shot waits for its answer is a shot it has met
(`ImageMet`); an orphan counts as pending, and this is what a put that lands late would
break. `PreviewIsLatest` needs that a shot has met every older one that is still pending
(`LaterMet`), which rests on shots being numbered in order (`Numbered`), a fact about the
cardinality of a finite set.

**App.** The invariant of the sessions adds two facts: a request that has come as far as
an account has one (`AccountsKnown`), and no log-in leaves an orphan (`OrphansCreate`).
`Step` collects what all steps of a request have in common, and `MoveKeeps` proves the
invariant once for all of them. That one of the two sets of buttons is shown is inductive with the
types, because every step that changes one of them changes both; and every step that turns
the dots sets the buttons too, except a tap on the control. The bar is inductive with its
types.

**The waterfall.** The bottoms of the columns after each photo are recursive functions, in
the loop of the code and in the reference definition. `LoopPlaces` shows by induction
that the loop's state after n photos is the one the reference gives. The library states induction
for an operator, which the provers cannot instantiate; `LeastNumber` is the same principle
for a set (a nonempty set of numbers has a least element, from the well-foundedness of the
order), and the induction is on the set of numbers for which the loop is wrong.
`GreatestIsMax` does the same for the height of the content. The invariant `HomeInv` then
only says that every attribute of the cache, from whichever prepare, is in place.

**Checked by TLC only**: the liveness properties `MakeAnswered`, `ColdRefreshCompletes`,
`FetchCompletes` and `ItemShown`, because fairness and ENABLED are out of the prover's
reach. Every invariant and action property of a passing run is the statement of a
theorem. The runs that expect a violation are refutations, and stay with TLC as well.

## 7. Reading order

`ServerFolder`, `Dictionary`, `ImageCache`, then `CodiSets` from `Init` to `Spec` and its
properties, then `Outfits`; `ClosetItems` and `Camera`; `Tutorial`, `Session`, `Home` and
`App`; then the proof modules. Definitions introduced with "Mutant" are variations of the
code that the properties are tried against: each property fails when the definition
after the mutant is replaced by it.

## 8. What is left

**Not modelled**:

* Of the home screen, the colour of the weather button and the blur, both functions of
  the scroll offset without state of their own, and the detail screen.
* Layout, animation, keyboard and text fields; the form of addresses and the length of
  passwords, which the sign-up button checks before it does anything.
* The focus guide of the camera screen; the rotation and cropping of photos.
* Passive views: `DetailViewController`, `TitleCell`, `PinterCell`; `MyClosetModel` is not
  used.
* Callbacks of the tabs of an earlier window, after a second log-in on the tutorial.
* `Camera` and `ClosetItems` in one specification. The two meet in one value, `filed`,
  and in the closing of the screen; together they would be out of TLC's reach.
* The vendored libraries under `Pods/`: Firebase, Google sign-in, gRPC, BoringSSL,
  Alamofire and others. They are third-party code and, in number of lines, nearly the whole
  repository; the app's own code is about four thousand lines of Swift. The modules
  translate the app's code. Of the libraries only the double callback of a failing
  `listAll` is part of the model; the rest is described by how the app uses it.
  SwiftyLRUCache and remove.bg are external in the same way.

**Planned**: no safety property that a run checks is without its theorem. What remains
is to say how far the hypotheses of section 6 can be weakened: `KeysAreOrdered` is about
numbers below 100, the most that `DecimalBefore` describes, and `OneDevice` could become
"one device writes".
