---------------------------- MODULE ClosetItems ----------------------------
(***************************************************************************)
(* The closet: photos of clothes in the Storage folders items/<category>/, *)
(* which all devices share, and the rows of "My closet" that show them.    *)
(*                                                                         *)
(* A row's cell fetches its folder when it is created and whenever the     *)
(* camera screen posts newImagePushed.  It downloads the files it has not  *)
(* cached and stores the result in DataManager.  The add button of the     *)
(* camera screen numbers the new file by the count of DataManager's        *)
(* dictionary, not of the folder.                                          *)
(*                                                                         *)
(* As in CodiSets a callback is one step and the server's answers are      *)
(* steps of their own.                                                     *)
(***************************************************************************)
EXTENDS Integers, ImageCache

CONSTANTS
  Device,         \* the devices that run the app
  Category,       \* top, bottom, outer, shoes, cap, socks, bag, acc
  Photo,          \* the photos, one for each camera screen opened
  NoPhoto,        \* no camera screen is open
  Tap,            \* the taps on the add button
  RowShown,       \* the cause of a row's first fetch, which is no tap
  CacheCapacity,  \* the capacity of itemImageCache, 50 in the code
  KeyBefore(_, _),\* the string order of "<category>i.png" and "<category>j.png"
  Faults          \* what may go wrong: "put", "ack", "list", "download", "race", "restart"

ASSUME NoPhotoAssumption == NoPhoto \notin Photo
ASSUME RowShownAssumption == RowShown \notin Tap
ASSUME CapacityAssumption == CacheCapacity \in Nat \ {0}

VARIABLES
  files,      \* the folder of each category: number -> photo
  taps,       \* the taps made so far (finished ones are kept as history)
  taken,      \* the photos taken so far
  camera,     \* the photo on each device's camera screen
  rows,       \* the categories whose cells exist and listen to newImagePushed
  slots,      \* DataManager's dictionary of each device and category
  itemCache,  \* APIManager.itemImageCache of each device: <<category, number>> -> photo
  fetches     \* the fetches under way: <<device, category, cause>> -> fetch

cameraVars == << taken, camera >>
closetVars == << rows, slots, itemCache >>
vars == << files, taps, cameraVars, closetVars, fetches >>

\* The stages of a tap: its put is under way, or stored; then it was answered
\* ("added"), answered after its screen had gone ("unheard"), or reported as
\* failed; or the answer was lost ("lost"), perhaps because the app was killed.
\* A put still under way when its app was killed or was told that it has failed
\* is an "orphan".
Unsettled == {"putting", "landed", "orphan"}
Settled == {"added", "unheard", "failed", "lost"}

TapRecord ==
  [dev : Device, cat : Category, photo : Photo, num : Nat, stage : Unsettled \cup Settled]

Init ==
  /\ files = [c \in Category |-> EmptyDict]
  /\ taps = EmptyDict
  /\ taken = {}
  /\ camera = [d \in Device |-> NoPhoto]
  /\ rows = [d \in Device |-> {}]
  /\ slots = [d \in Device |-> [c \in Category |-> EmptyDict]]
  /\ itemCache = [d \in Device |-> EmptyDict]
  /\ fetches = EmptyDict

-----------------------------------------------------------------------------
(* Fetching a row *)

\* Mutant: the dispatch group is not entered.
FetchRecordUnentered(stage, n, asked, images) ==
  [stage |-> stage, n |-> n, left |-> 0,
   asked |-> asked, got |-> EmptyDict, images |-> images]

\* A fetch: the listing's count, the enters of its dispatch group not yet left,
\* the downloads without an answer, the answers whose callback has not run,
\* and the dictionary it collects.
FetchRecord(stage, n, asked, images) ==
  [stage |-> stage, n |-> n, left |-> Cardinality(asked),
   asked |-> asked, got |-> EmptyDict, images |-> images]

NewFetch == FetchRecord("listing", 0, {}, EmptyDict)

IsFetch(f, stage) == f \in DOMAIN fetches /\ fetches[f].stage = stage

\* Every cell of the categories cs starts a fetch.
StartFetches(d, cs, cause) == Overlaid(fetches, [f \in {d} \X cs \X {cause} |-> NewFetch])

Finish(f) == fetches' = Kept(fetches, DOMAIN fetches \ {f})

\* A row is scrolled into view for the first time: its cell is created.
ShowRow(d, c) ==
  /\ camera[d] = NoPhoto
  /\ c \notin rows[d]
  /\ rows' = [rows EXCEPT ![d] = @ \cup {c}]
  /\ fetches' = StartFetches(d, {c}, RowShown)
  /\ UNCHANGED << files, taps, cameraVars, slots, itemCache >>

\* The server counts the files.
ListAnswered(f) ==
  /\ IsFetch(f, "listing")
  /\ fetches' = [fetches EXCEPT ![f].stage = "listed", ![f].n = Count(files[f[2]])]
  /\ UNCHANGED << files, taps, cameraVars, closetVars >>

\* The first callback of a failed listing carries the error, which is printed;
\* the second one an empty list, which changes no slot.
ListingFails(f) ==
  /\ "list" \in Faults
  /\ IsFetch(f, "listing")
  /\ Finish(f)
  /\ UNCHANGED << files, taps, cameraVars, closetVars >>

\* Mutant: the files are numbered from 1, like the codi sets.
WantedFromOne(n) == 1 .. n

\* The numbers a fetch of n files looks for.
Wanted(n) == 0 .. n - 1

\* Mutant: the key does not name the category.
BareCacheKey(c, i) == << CHOOSE k \in Category : TRUE, i >>

\* The key of a photo in itemImageCache.
CacheKey(c, i) == << c, i >>

\* The cached photos as they end up in the fetch's dictionary: concurrentPerform
\* stores them from several threads at once, without a lock, so entries may get
\* lost.  (That the app crashes instead is a Restart.)
Collected(hits) ==
  IF "race" \in Faults /\ Count(hits) > 1
    THEN { Kept(hits, kept) : kept \in SUBSET DOMAIN hits \ {{}} }
    ELSE { hits }

\* The listing's callback: cached photos are collected, the others requested.
HandleListing(f) ==
  LET cache == itemCache[f[1]]
      hits == [i \in { j \in Wanted(fetches[f].n) : CacheKey(f[2], j) \in DOMAIN cache }
                 |-> cache[CacheKey(f[2], i)]]
  IN  /\ IsFetch(f, "listed")
      /\ \E images \in Collected(hits) :
           fetches' = [fetches EXCEPT ![f] =
             FetchRecord("loading", @.n, Wanted(@.n) \ DOMAIN hits, images)]
      /\ UNCHANGED << files, taps, cameraVars, closetVars >>

\* The server reads the file.
DownloadAnswered(f, i) ==
  /\ IsFetch(f, "loading")
  /\ i \in fetches[f].asked \cap DOMAIN files[f[2]]
  /\ fetches' = [fetches EXCEPT ![f].asked = @ \ {i}, ![f].got = Updated(@, i, files[f[2]][i])]
  /\ UNCHANGED << files, taps, cameraVars, closetVars >>

\* Mutant: the callback does not leave the group.
HandleDownloadInside(f, i) ==
  LET got == fetches[f].got
  IN  /\ IsFetch(f, "loading")
      /\ i \in DOMAIN got
      /\ fetches' = [fetches EXCEPT ![f].got = Kept(@, DOMAIN got \ {i}),
                                    ![f].images = Updated(@, i, got[i])]
      /\ \E cache \in CachePuts(itemCache[f[1]], CacheKey(f[2], i), got[i], CacheCapacity) :
           itemCache' = [itemCache EXCEPT ![f[1]] = cache]
      /\ UNCHANGED << files, taps, cameraVars, rows, slots >>

\* The callback of a download.
HandleDownload(f, i) ==
  LET got == fetches[f].got
  IN  /\ IsFetch(f, "loading")
      /\ i \in DOMAIN got
      /\ fetches' = [fetches EXCEPT ![f].left = @ - 1, ![f].got = Kept(@, DOMAIN got \ {i}),
                                    ![f].images = Updated(@, i, got[i])]
      /\ \E cache \in CachePuts(itemCache[f[1]], CacheKey(f[2], i), got[i], CacheCapacity) :
           itemCache' = [itemCache EXCEPT ![f[1]] = cache]
      /\ UNCHANGED << files, taps, cameraVars, rows, slots >>

\* A download that fails, or is no image, does not leave the group.
DownloadFails(f, i) ==
  /\ IsFetch(f, "loading")
  /\ i \in fetches[f].asked
  /\ "download" \in Faults \/ i \notin DOMAIN files[f[2]]
  /\ fetches' = [fetches EXCEPT ![f].asked = @ \ {i}]
  /\ UNCHANGED << files, taps, cameraVars, closetVars >>

\* The photos in the string order of their keys, numbered anew from 0.
Sorted(images) ==
  LET rank(k) == Cardinality({ j \in DOMAIN images \ {k} : KeyBefore(j, k) })
  IN  [idx \in { rank(k) : k \in DOMAIN images } |->
         images[CHOOSE k \in DOMAIN images : rank(k) = idx]]

\* Mutants: the row is emptied first; the slots are numbered from 1.
FillSlotsAnew(old, images) == Sorted(images)
FillSlotsFromOne(old, images) ==
  Overlaid(old, [i \in { k + 1 : k \in DOMAIN Sorted(images) } |-> Sorted(images)[i - 1]])

\* What a row's completion does to its slots: it stores, and removes nothing.
FillSlots(old, images) == Overlaid(old, Sorted(images))

\* The group is empty: the cell stores the sorted photos in DataManager.
Notify(f) ==
  /\ IsFetch(f, "loading")
  /\ fetches[f].left = 0
  /\ slots' = [slots EXCEPT ![f[1]][f[2]] = FillSlots(@, fetches[f].images)]
  /\ Finish(f)
  /\ UNCHANGED << files, taps, cameraVars, rows, itemCache >>

-----------------------------------------------------------------------------
(* Adding a photo *)

\* The camera screen covers the tabs; the photo on it has lost its background.
OpenCamera(d) ==
  /\ camera[d] = NoPhoto
  /\ \E p \in Photo \ taken : /\ camera' = [camera EXCEPT ![d] = p]
                              /\ taken' = taken \cup {p}
  /\ UNCHANGED << files, taps, closetVars, fetches >>

CancelCamera(d) ==
  /\ camera[d] # NoPhoto
  /\ camera' = [camera EXCEPT ![d] = NoPhoto]
  /\ UNCHANGED << files, taps, taken, closetVars, fetches >>

\* Mutants: the number after the next one; the number before the last one; and
\* the last number again.
FileCountSkips(d, c) == Count(slots[d][c]) + 1
FileCountDown(d, c) == Count(slots[d][c]) - 1
FileCountAgain(d, c) == IF slots[d][c] = EmptyDict THEN 0 ELSE Count(slots[d][c]) - 1

\* The number of the next file, CategoryButtonType.fileCount.
FileCount(d, c) == Count(slots[d][c])

\* The add button stays enabled while an earlier tap is being served.
TapAdd(d, c, t) ==
  /\ camera[d] # NoPhoto
  /\ t \notin DOMAIN taps
  /\ taps' = Updated(taps, t, [dev |-> d, cat |-> c, photo |-> camera[d],
                               num |-> FileCount(d, c), stage |-> "putting"])
  /\ UNCHANGED << files, cameraVars, closetVars, fetches >>

InStage(t, stage) == t \in DOMAIN taps /\ taps[t].stage = stage

Store(t) == files' = [files EXCEPT ![taps[t].cat] = Updated(@, taps[t].num, taps[t].photo)]

\* The server stores the photo.
PutLands(t) ==
  /\ InStage(t, "putting")
  /\ Store(t)
  /\ taps' = [taps EXCEPT ![t].stage = "landed"]
  /\ UNCHANGED << cameraVars, closetVars, fetches >>

\* The put of a process that has died or has given it up arrives all the same.
OrphanLands(t) ==
  /\ InStage(t, "orphan")
  /\ Store(t)
  /\ taps' = [taps EXCEPT ![t].stage = "lost"]
  /\ UNCHANGED << cameraVars, closetVars, fetches >>

\* The completion dismisses: the tap's screen closes if it is still there; but
\* an alert presented over it ("check a category", "please wait") is all that is
\* dismissed then.
Dismiss(tap) ==
  \E alerted \in BOOLEAN :
    camera' = [d \in Device |-> IF d = tap.dev /\ camera[d] = tap.photo /\ ~ alerted
                                  THEN NoPhoto ELSE camera[d]]

\* Mutant: the notification is not posted.
PutHeardInSilence(t) ==
  LET tap == taps[t]
  IN  /\ InStage(t, "landed")
      /\ Dismiss(tap)
      /\ taps' = [taps EXCEPT ![t].stage = "added"]
      /\ UNCHANGED << files, taken, closetVars, fetches >>

\* The completion finds its screen alive: every existing cell fetches again and
\* the screen dismisses.  A request to remove.bg still under way keeps a screen
\* alive that is no longer shown.
PutHeard(t) ==
  LET tap == taps[t]
  IN  /\ InStage(t, "landed")
      /\ fetches' = StartFetches(tap.dev, rows[tap.dev], t)
      /\ Dismiss(tap)
      /\ taps' = [taps EXCEPT ![t].stage = "added"]
      /\ UNCHANGED << files, taken, closetVars >>

\* The screen is gone ([weak self]): nothing happens.
PutUnheard(t) ==
  /\ InStage(t, "landed")
  /\ camera[taps[t].dev] # taps[t].photo
  /\ taps' = [taps EXCEPT ![t].stage = "unheard"]
  /\ UNCHANGED << files, cameraVars, closetVars, fetches >>

\* The put, or the answer to a put that was stored, is lost, or the client gives
\* up a put that may still arrive: no completion is called and the screen stays
\* as it is.
PutError(t) ==
  /\ \/ /\ "put" \in Faults /\ InStage(t, "putting")
        /\ \E stage \in {"failed", "orphan"} : taps' = [taps EXCEPT ![t].stage = stage]
     \/ /\ "ack" \in Faults /\ InStage(t, "landed")
        /\ taps' = [taps EXCEPT ![t].stage = "lost"]
  /\ UNCHANGED << files, cameraVars, closetVars, fetches >>

-----------------------------------------------------------------------------
(* The process *)

Forgotten(tap) ==
  CASE tap.stage = "putting" -> [tap EXCEPT !.stage = "orphan"]
    [] tap.stage = "landed" -> [tap EXCEPT !.stage = "lost"]
    [] OTHER -> tap

\* The app is killed and started again.  Nothing is kept on the device.
Restart(d) ==
  /\ "restart" \in Faults
  /\ taps' = [t \in DOMAIN taps |-> IF taps[t].dev = d THEN Forgotten(taps[t]) ELSE taps[t]]
  /\ fetches' = Kept(fetches, { f \in DOMAIN fetches : f[1] # d })
  /\ camera' = [camera EXCEPT ![d] = NoPhoto]
  /\ rows' = [rows EXCEPT ![d] = {}]
  /\ slots' = [slots EXCEPT ![d] = [c \in Category |-> EmptyDict]]
  /\ itemCache' = [itemCache EXCEPT ![d] = EmptyDict]
  /\ UNCHANGED << files, taken >>

-----------------------------------------------------------------------------

FetchId == Device \X Category \X (Tap \cup {RowShown})

TapProgress(t) == PutLands(t) \/ PutHeard(t) \/ PutUnheard(t) \/ PutError(t)

FetchProgress(f) ==
  \/ ListAnswered(f) \/ ListingFails(f) \/ HandleListing(f) \/ Notify(f)
  \/ /\ f \in DOMAIN fetches
     /\ \E i \in Wanted(fetches[f].n) :
          DownloadAnswered(f, i) \/ HandleDownload(f, i) \/ DownloadFails(f, i)

Next ==
  \/ \E d \in Device : \/ OpenCamera(d) \/ CancelCamera(d) \/ Restart(d)
                       \/ \E c \in Category : ShowRow(d, c) \/ \E t \in Tap : TapAdd(d, c, t)
  \/ \E t \in Tap : TapProgress(t) \/ OrphanLands(t)
  \/ \E f \in FetchId : FetchProgress(f)

Spec == Init /\ [][Next]_vars

\* Users who add a photo to a row only when the row has been shown and is not
\* being fetched and no other photo is on its way, and who wait for the answer.
Patience ==
  /\ \A t \in DOMAIN taps' \ DOMAIN taps :
       /\ taps'[t].cat \in rows[taps'[t].dev]
       /\ \A f \in DOMAIN fetches : f[2] # taps'[t].cat
       /\ \A s \in DOMAIN taps : taps[s].stage \in Settled
  /\ \A d \in Device : CancelCamera(d) =>
       \A t \in DOMAIN taps : taps[t].dev = d => taps[t].stage \in Settled

PatientSpec == Init /\ [][Next /\ Patience]_vars

\* Every request to Storage is answered or fails, and the main queue runs every
\* callback.  Users owe nothing.
Fairness ==
  /\ \A t \in Tap : WF_vars(TapProgress(t))
  /\ \A f \in FetchId : WF_vars(FetchProgress(f))

FairSpec == Spec /\ Fairness
FairPatientSpec == PatientSpec /\ Fairness

-----------------------------------------------------------------------------
(* Properties *)

IsFetchRecord(f) ==
  /\ f \in [stage : {"listing", "listed", "loading"}, n : Nat, left : Int,
            asked : SUBSET Nat, got : {f.got}, images : {f.images}]
  /\ IsDict(f.got, Nat, Photo)
  /\ IsDict(f.images, Nat, Photo) /\ IsFiniteSet(DOMAIN f.images)

FoldersOK ==
  /\ files = [c \in Category |-> files[c]]
  /\ \A c \in Category : IsDict(files[c], Nat, Photo) /\ IsFiniteSet(DOMAIN files[c])

SlotsOK ==
  /\ slots = [d \in Device |-> [c \in Category |-> slots[d][c]]]
  /\ \A d \in Device, c \in Category :
       IsDict(slots[d][c], Nat, Photo) /\ IsFiniteSet(DOMAIN slots[d][c])

CacheOK ==
  /\ itemCache = [d \in Device |-> itemCache[d]]
  /\ \A d \in Device : IsDict(itemCache[d], Category \X Nat, Photo)

FetchesOK ==
  /\ DOMAIN fetches \subseteq FetchId
  /\ fetches = [f \in DOMAIN fetches |-> fetches[f]]
  /\ \A f \in DOMAIN fetches : IsFetchRecord(fetches[f])

\* Type correctness of the folders, the taps, the camera screens, the rows,
\* DataManager, its cache and the fetches.
TypeOK ==
  /\ FoldersOK /\ SlotsOK /\ CacheOK /\ FetchesOK
  /\ IsDict(taps, Tap, TapRecord)
  /\ taken \subseteq Photo
  /\ camera \in [Device -> Photo \cup {NoPhoto}]
  /\ rows \in [Device -> SUBSET Category]

\* No folder has a gap, although every device numbers new files by what it has
\* loaded itself: rows find files only by counting them.
ItemsContiguous == \A c \in Category : DOMAIN files[c] = 0 .. Count(files[c]) - 1

\* A row's slots are numbered from 0 without a gap (a cell shows slot i for each
\* i below the count and force-unwraps the image), and there are never more of
\* them than files, so the next number is never beyond the folder's end.
SlotsInReach ==
  \A d \in Device, c \in Category :
    DOMAIN slots[d][c] = 0 .. Count(slots[d][c]) - 1 /\ Count(slots[d][c]) <= Count(files[c])

\* A row never asks Storage for a file that is not there.
NoMissingDownload ==
  \A f \in DOMAIN fetches : fetches[f].asked \subseteq DOMAIN files[f[2]]

\* A photo in a row was added to this category by some tap: concurrent fetches
\* of rows that share one cache never mix their photos up.
SlotsWereAdded ==
  \A d \in Device, c \in Category : \A i \in DOMAIN slots[d][c] :
    \E t \in DOMAIN taps : taps[t].cat = c /\ taps[t].photo = slots[d][c][i]

\* A fetch that completes has filled as many slots as its listing had files.
RowComplete ==
  [][\A f \in DOMAIN fetches :
       Notify(f) => Wanted(fetches[f].n) \subseteq DOMAIN slots'[f[1]][f[2]]]_vars

\* A row loses no slot until the app restarts.
SlotsGrow ==
  [][\A d \in Device, c \in Category :
       ~ Restart(d) => DOMAIN slots[d][c] \subseteq DOMAIN slots'[d][c]]_vars

\* A photo whose addition was acknowledged (newImagePushed was posted for it)
\* stays in its folder.
ItemsKept ==
  \A t \in DOMAIN taps : taps[t].stage = "added" =>
    \E i \in DOMAIN files[taps[t].cat] : files[taps[t].cat][i] = taps[t].photo

\* The device knows what became of every put.
NothingLost == \A t \in DOMAIN taps : taps[t].stage \notin {"lost", "orphan"}

\* On the one device of a patient user every slot shows the file of its number,
\* although a fetch writes slots by position and the cache is never checked,
\* until an answer is lost.
SlotsCurrent ==
  NothingLost => \A d \in Device, c \in Category : \A i \in DOMAIN slots[d][c] :
    i \in DOMAIN files[c] /\ slots[d][c][i] = files[c][i]

\* Every fetch completes if no download fails, however many files it finds in
\* the cache: the group counts the downloads only.
FetchCompletes == \A f \in FetchId : f \in DOMAIN fetches ~> f \notin DOMAIN fetches

IsShown(tap) ==
  \E i \in DOMAIN slots[tap.dev][tap.cat] : slots[tap.dev][tap.cat][i] = tap.photo

\* A photo whose addition was acknowledged appears in its row, unless the app
\* restarts and the row is not scrolled into view again.
ItemShown ==
  \A t \in Tap : InStage(t, "added") ~>
    (t \in DOMAIN taps /\ (IsShown(taps[t]) \/ taps[t].cat \notin rows[taps[t].dev]))

\* Each folder as a list of photos; its numbers start at 0, positions at 1.
Pictures(c) == [i \in { k + 1 : k \in DOMAIN files[c] } |-> files[c][i - 1]]
Folder(c) == INSTANCE ServerFolder WITH Picture <- Photo, pictures <- Pictures(c)

FolderEmpty(c) == Folder(c)!Init
FolderWrite(c) == Folder(c)!Next
FolderAppend(c) == \E p \in Photo : Folder(c)!Add(p)

\* Each folder implements the abstract one: every write replaces a photo of its
\* list or takes the next number.
FolderSpec ==
  /\ \A c \in Category : FolderEmpty(c)
  /\ [][\A c \in Category : files'[c] # files[c] => FolderWrite(c)]_files

\* On the one device of a patient user every write takes the next number, until
\* an answer is lost.
FolderAppends ==
  /\ \A c \in Category : FolderEmpty(c)
  /\ [][NothingLost => \A c \in Category : files'[c] # files[c] => FolderAppend(c)]_files
=============================================================================
