------------------------------ MODULE CodiSets ------------------------------
(***************************************************************************)
(* The codi sets: outfits saved to the Storage folder codiSet/, which all  *)
(* devices share, and the gallery "Previous CodiSet" that shows them.      *)
(*                                                                         *)
(* A tap on the make button lists the folder and stores the picture as     *)
(* codiSet<count + 1>.jpeg.  The gallery lists the folder, downloads       *)
(* codiSet1.jpeg to codiSet<count>.jpeg unless they are cached, and copies *)
(* what DataManager holds once its dispatch group is empty.                *)
(*                                                                         *)
(* Every callback of the app and of Firebase Storage runs on the main      *)
(* queue, so a callback is one step; the server's answers are steps of     *)
(* their own, because other steps come between an answer and its callback. *)
(***************************************************************************)
EXTENDS Integers, ImageCache

CONSTANTS
  Device,         \* the devices that run the app
  Look,           \* the pictures of make-codi screens, one for each screen opened
  NoLook,         \* no make-codi screen is open
  Save,           \* the taps on the make button
  Refresh,        \* the times a gallery appears or is pulled down
  CacheCapacity,  \* the capacity of codiImagesCache, 20 in the code
  Faults          \* what may go wrong: "list", "put", "download", "garbage", "restart"

ASSUME NoLookAssumption == NoLook \notin Look
ASSUME CapacityAssumption == CacheCapacity \in Nat \ {0}

VARIABLES
  files,         \* the folder codiSet/: number -> picture
  uploads,       \* the taps made so far (finished ones are kept as history)
  opened,        \* the make-codi screens opened so far
  screen,        \* the make-codi screen each device shows
  alert,         \* the alert on that screen
  codiCache,     \* APIManager.codiImagesCache of each device
  codiImages,    \* DataManager.codiImages of each device
  prevCodiData,  \* PrevCodiViewController.prevCodiData of each device
  refreshes      \* the refreshes started so far

screenVars == << opened, screen, alert >>
galleryVars == << codiCache, codiImages, prevCodiData >>
vars == << files, uploads, screenVars, galleryVars, refreshes >>

\* The stages of a tap: waiting for the listing, for the put and for its
\* acknowledgement; answered; or forgotten by a restart ("lost").  A put that is
\* still under way when its app has died or has been told that it failed is an
\* "orphan".
InFlight == {"listing", "putting", "landed"}
Settled == {"saved", "failed", "lost"}
Upload == [dev : Device, look : Look, stage : InFlight \cup Settled \cup {"orphan"}, num : Nat]

RefreshStage == {"listing", "listed", "loading", "done", "dropped"}

Init ==
  /\ files = EmptyDict
  /\ uploads = EmptyDict
  /\ opened = {}
  /\ screen = [d \in Device |-> NoLook]
  /\ alert = [d \in Device |-> "none"]
  /\ codiCache = [d \in Device |-> EmptyDict]
  /\ codiImages = [d \in Device |-> EmptyDict]
  /\ prevCodiData = [d \in Device |-> EmptyDict]
  /\ refreshes = EmptyDict

-----------------------------------------------------------------------------
(* The make-codi screen *)

\* The make-codi screen covers the tabs; each one shows a picture of its own.
OpenMake(d) ==
  /\ screen[d] = NoLook
  /\ \E look \in Look \ opened :
       /\ screen' = [screen EXCEPT ![d] = look]
       /\ opened' = opened \cup {look}
  /\ UNCHANGED << files, uploads, alert, galleryVars, refreshes >>

\* The make button stays enabled while an earlier tap is being served.
TapMake(d, s) ==
  /\ screen[d] # NoLook
  /\ alert[d] = "none"
  /\ s \notin DOMAIN uploads
  /\ uploads' = Updated(uploads, s,
                  [dev |-> d, look |-> screen[d], stage |-> "listing", num |-> 0])
  /\ UNCHANGED << files, screenVars, galleryVars, refreshes >>

Cancel(d) ==
  /\ screen[d] # NoLook
  /\ alert[d] = "none"
  /\ screen' = [screen EXCEPT ![d] = NoLook]
  /\ UNCHANGED << files, uploads, opened, alert, galleryVars, refreshes >>

\* The alert's only button dismisses the screen as well.
AlertOK(d) ==
  /\ alert[d] # "none"
  /\ alert' = [alert EXCEPT ![d] = "none"]
  /\ screen' = [screen EXCEPT ![d] = NoLook]
  /\ UNCHANGED << files, uploads, opened, galleryVars, refreshes >>

\* Mutant: the completion does not ask which screen is open.
PresentAlertAnywhere(u, title) ==
  alert' = IF screen[u.dev] # NoLook /\ alert[u.dev] = "none"
             THEN [alert EXCEPT ![u.dev] = title]
             ELSE alert

\* The completion of a tap: its screen may be gone ([weak self]), and UIKit
\* presents nothing over an alert that is still up.
PresentAlert(u, title) ==
  alert' = IF screen[u.dev] = u.look /\ alert[u.dev] = "none"
             THEN [alert EXCEPT ![u.dev] = title]
             ELSE alert

-----------------------------------------------------------------------------
(* Saving a set *)

InStage(s, stages) == s \in DOMAIN uploads /\ uploads[s].stage \in stages

\* Mutants: a number is skipped; the last number is taken again; and the count
\* is taken down instead of up.
NextNumberSkips(count) == count + 2
NextNumberAgain(count) == IF count = 0 THEN 1 ELSE count
NextNumberDown(count) == count - 1

\* The number a listing of count files gives to the next set.
NextNumber(count) == count + 1

StartPut(s, count) ==
  /\ InStage(s, {"listing"})
  /\ uploads' = [uploads EXCEPT ![s].stage = "putting", ![s].num = NextNumber(count)]
  /\ UNCHANGED << files, screenVars, galleryVars, refreshes >>

\* The folder's listing arrives and the put is issued.
ListReply(s) == StartPut(s, Count(files))

\* Mutant: the failed listing calls back once, and the tap is forgotten.
ListErrorOnce(s) ==
  /\ "list" \in Faults
  /\ InStage(s, {"listing"})
  /\ uploads' = [uploads EXCEPT ![s].stage = "lost"]
  /\ UNCHANGED << files, screenVars, galleryVars, refreshes >>

\* StorageReference.listAll calls back twice when it fails: with the error,
\* which uploadCodiSet ignores, and then with an empty result and no error.
ListError(s) == "list" \in Faults /\ StartPut(s, 0)

\* The server stores the picture.
PutLands(s) ==
  /\ InStage(s, {"putting"})
  /\ files' = Updated(files, uploads[s].num, uploads[s].look)
  /\ uploads' = [uploads EXCEPT ![s].stage = "landed"]
  /\ UNCHANGED << screenVars, galleryVars, refreshes >>

PutAck(s) ==
  /\ InStage(s, {"landed"})
  /\ uploads' = [uploads EXCEPT ![s].stage = "saved"]
  /\ PresentAlert(uploads[s], "Success")
  /\ UNCHANGED << files, opened, screen, galleryVars, refreshes >>

\* The put, or the answer to a put that was stored, is lost; or the client gives
\* up a put that may still arrive.
PutError(s) ==
  /\ "put" \in Faults
  /\ InStage(s, {"putting", "landed"})
  /\ \E stage \in {"failed", "orphan"} :
       /\ stage = "orphan" => uploads[s].stage = "putting"
       /\ uploads' = [uploads EXCEPT ![s].stage = stage]
  /\ PresentAlert(uploads[s], "Fail")
  /\ UNCHANGED << files, opened, screen, galleryVars, refreshes >>

\* The put of a process that has died or has given it up arrives all the same.
OrphanLands(s) ==
  /\ InStage(s, {"orphan"})
  /\ files' = Updated(files, uploads[s].num, uploads[s].look)
  /\ uploads' = [uploads EXCEPT ![s].stage = "lost"]
  /\ UNCHANGED << screenVars, galleryVars, refreshes >>

-----------------------------------------------------------------------------
(* The gallery *)

\* Mutant: the files are numbered from zero.
WantedFromZero(n) == 0 .. n

\* The numbers a refresh of n files asks setCodiFile for.
Wanted(n) == 1 .. n

\* Mutant: the dispatch group is not entered.
RefreshRecordUnentered(d, stage, n, asked) ==
  [dev |-> d, stage |-> stage, n |-> n, left |-> 0, asked |-> asked, got |-> EmptyDict,
   stranded |-> Wanted(n) \ asked, failed |-> {}]

\* A refresh: the listing's count, the number of enters of its dispatch group
\* not yet left, the downloads without an answer, the answers whose callback
\* has not run, the numbers that never leave the group, and the downloads that
\* failed.  What is wanted and not asked for was in the cache.
RefreshRecord(d, stage, n, asked) ==
  [dev |-> d, stage |-> stage, n |-> n, left |-> n, asked |-> asked, got |-> EmptyDict,
   stranded |-> Wanted(n) \ asked, failed |-> {}]

IsRefresh(r, stage) == r \in DOMAIN refreshes /\ refreshes[r].stage = stage

Finish(r, stage) ==
  refreshes' = [refreshes EXCEPT ![r] = RefreshRecord(refreshes[r].dev, stage, 0, {})]

\* Mutant: the gallery is emptied before it is filled again.
StartRefreshEmpty(d, r) ==
  /\ screen[d] = NoLook
  /\ r \notin DOMAIN refreshes
  /\ refreshes' = Updated(refreshes, r, RefreshRecord(d, "listing", 0, {}))
  /\ prevCodiData' = [prevCodiData EXCEPT ![d] = EmptyDict]
  /\ UNCHANGED << files, uploads, screenVars, codiCache, codiImages >>

\* The gallery's tab appears, or its list is pulled down.
StartRefresh(d, r) ==
  /\ screen[d] = NoLook
  /\ r \notin DOMAIN refreshes
  /\ refreshes' = Updated(refreshes, r, RefreshRecord(d, "listing", 0, {}))
  /\ UNCHANGED << files, uploads, screenVars, galleryVars >>

\* The server counts the files.
ListAnswered(r) ==
  /\ IsRefresh(r, "listing")
  /\ refreshes' = [refreshes EXCEPT ![r].stage = "listed", ![r].n = Count(files)]
  /\ UNCHANGED << files, uploads, screenVars, galleryVars >>

\* A failed listing is dropped: the first callback carries the error, the
\* second one a count of 0.
ListingFails(r) ==
  /\ "list" \in Faults
  /\ IsRefresh(r, "listing")
  /\ Finish(r, "dropped")
  /\ UNCHANGED << files, uploads, screenVars, galleryVars >>

\* The listing's callback enters the group once for every file.  A cached
\* file goes to DataManager, and its enter is never left.
HandleListing(r) ==
  LET d == refreshes[r].dev
      n == refreshes[r].n
      hits == Wanted(n) \cap DOMAIN codiCache[d]
  IN  /\ IsRefresh(r, "listed")
      /\ IF n = 0
           THEN Finish(r, "dropped") /\ UNCHANGED codiImages
           ELSE /\ codiImages' = [codiImages EXCEPT ![d] = Overlaid(@, Kept(codiCache[d], hits))]
                /\ refreshes' = [refreshes EXCEPT ![r] =
                                   RefreshRecord(d, "loading", n, Wanted(n) \ hits)]
      /\ UNCHANGED << files, uploads, screenVars, codiCache, prevCodiData >>

\* The server reads the file.
DownloadAnswered(r, i) ==
  /\ IsRefresh(r, "loading")
  /\ i \in refreshes[r].asked \cap DOMAIN files
  /\ refreshes' = [refreshes EXCEPT ![r].asked = @ \ {i}, ![r].got = Updated(@, i, files[i])]
  /\ UNCHANGED << files, uploads, screenVars, galleryVars >>

\* Mutants: a picture already held is not replaced; a picture is kept under the
\* next number.
KeepFirstImage(images, i, image) == IF i \in DOMAIN images THEN images ELSE Updated(images, i, image)
KeepImageAsNext(images, i, image) == Updated(images, i + 1, image)

\* DataManager.codiImages after a picture has arrived.
KeepImage(images, i, image) == Updated(images, i, image)

\* The callback of a download.
HandleDownload(r, i) ==
  LET d == refreshes[r].dev
      got == refreshes[r].got
  IN  /\ IsRefresh(r, "loading")
      /\ i \in DOMAIN got
      /\ codiImages' = [codiImages EXCEPT ![d] = KeepImage(@, i, got[i])]
      /\ \E cache \in CachePuts(codiCache[d], i, got[i], CacheCapacity) :
           codiCache' = [codiCache EXCEPT ![d] = cache]
      /\ refreshes' = [refreshes EXCEPT ![r].left = @ - 1, ![r].got = Kept(@, DOMAIN got \ {i})]
      /\ UNCHANGED << files, uploads, screenVars, prevCodiData >>

\* Mutant: a failed download does not leave the group.
DownloadFailsInside(r, i) ==
  /\ IsRefresh(r, "loading")
  /\ i \in refreshes[r].asked
  /\ "download" \in Faults \/ i \notin DOMAIN files
  /\ refreshes' = [refreshes EXCEPT ![r].asked = @ \ {i}, ![r].failed = @ \cup {i}]
  /\ UNCHANGED << files, uploads, screenVars, galleryVars >>

\* The callback of a download that failed: the file is not there, or a fault.
DownloadFails(r, i) ==
  /\ IsRefresh(r, "loading")
  /\ i \in refreshes[r].asked
  /\ "download" \in Faults \/ i \notin DOMAIN files
  /\ refreshes' = [refreshes EXCEPT ![r].left = @ - 1, ![r].asked = @ \ {i},
                                    ![r].failed = @ \cup {i}]
  /\ UNCHANGED << files, uploads, screenVars, galleryVars >>

\* The callback of a download that is no image returns early: no leave.
DownloadGarbled(r, i) ==
  /\ "garbage" \in Faults
  /\ IsRefresh(r, "loading")
  /\ i \in refreshes[r].asked
  /\ refreshes' = [refreshes EXCEPT ![r].asked = @ \ {i}, ![r].stranded = @ \cup {i}]
  /\ UNCHANGED << files, uploads, screenVars, galleryVars >>

\* The group is empty: the gallery takes over DataManager's pictures.
Notify(r) ==
  LET d == refreshes[r].dev
  IN  /\ IsRefresh(r, "loading")
      /\ refreshes[r].left = 0
      /\ prevCodiData' = [prevCodiData EXCEPT ![d] = codiImages[d]]
      /\ Finish(r, "done")
      /\ UNCHANGED << files, uploads, screenVars, codiCache, codiImages >>

-----------------------------------------------------------------------------
(* The process *)

\* What becomes of a tap whose process dies.
Forgotten(u) ==
  CASE u.stage = "putting" -> [u EXCEPT !.stage = "orphan"]
    [] u.stage \in {"listing", "landed"} -> [u EXCEPT !.stage = "lost"]
    [] OTHER -> u

\* The app is killed and started again.  Nothing is kept on the device.
Restart(d) ==
  /\ "restart" \in Faults
  /\ uploads' = [s \in DOMAIN uploads |->
                   IF uploads[s].dev = d THEN Forgotten(uploads[s]) ELSE uploads[s]]
  /\ refreshes' = [r \in DOMAIN refreshes |->
                     IF refreshes[r].dev = d /\ refreshes[r].stage \in {"listing", "listed", "loading"}
                       THEN RefreshRecord(d, "dropped", 0, {})
                       ELSE refreshes[r]]
  /\ screen' = [screen EXCEPT ![d] = NoLook]
  /\ alert' = [alert EXCEPT ![d] = "none"]
  /\ codiCache' = [codiCache EXCEPT ![d] = EmptyDict]
  /\ codiImages' = [codiImages EXCEPT ![d] = EmptyDict]
  /\ prevCodiData' = [prevCodiData EXCEPT ![d] = EmptyDict]
  /\ UNCHANGED << files, opened >>

-----------------------------------------------------------------------------

SaveProgress(s) == ListReply(s) \/ ListError(s) \/ PutLands(s) \/ PutAck(s) \/ PutError(s)

RefreshProgress(r) ==
  \/ ListAnswered(r) \/ ListingFails(r) \/ HandleListing(r) \/ Notify(r)
  \/ /\ r \in DOMAIN refreshes
     /\ \E i \in Wanted(refreshes[r].n) :
          \/ DownloadAnswered(r, i) \/ HandleDownload(r, i)
          \/ DownloadFails(r, i) \/ DownloadGarbled(r, i)

Next ==
  \/ \E d \in Device : \/ OpenMake(d) \/ Cancel(d) \/ AlertOK(d) \/ Restart(d)
                       \/ \E s \in Save : TapMake(d, s)
                       \/ \E r \in Refresh : StartRefresh(d, r)
  \/ \E s \in Save : SaveProgress(s) \/ OrphanLands(s)
  \/ \E r \in Refresh : RefreshProgress(r)

Spec == Init /\ [][Next]_vars

\* Every request to Storage is answered or fails (the client retries until a
\* deadline), and the main queue runs every callback.  Users owe nothing, and
\* nothing brings back the put of a dead process.
Fairness ==
  /\ \A s \in Save : WF_vars(SaveProgress(s))
  /\ \A r \in Refresh : WF_vars(RefreshProgress(r))

FairSpec == Spec /\ Fairness

\* Users who take turns: no tap while another one is not settled, nor while a put
\* goes on after its app was killed or has reported a failure.
TakingTurns ==
  DOMAIN uploads' # DOMAIN uploads => \A s \in DOMAIN uploads : uploads[s].stage \in Settled

TurnsSpec == Init /\ [][Next /\ TakingTurns]_vars

-----------------------------------------------------------------------------
(* Properties *)

ScreensOK ==
  /\ opened \subseteq Look
  /\ screen \in [Device -> Look \cup {NoLook}]
  /\ alert \in [Device -> {"none", "Success", "Fail"}]

ImagesOK(images) ==
  /\ images = [d \in Device |-> images[d]]
  /\ \A d \in Device : IsDict(images[d], Nat, Look)

IsRefreshRecord(f) ==
  /\ f \in [dev : Device, stage : RefreshStage, n : Nat, left : Int,
            asked : SUBSET Nat, got : {f.got}, stranded : SUBSET Nat, failed : SUBSET Nat]
  /\ IsDict(f.got, Nat, Look)

RefreshesOK ==
  /\ DOMAIN refreshes \subseteq Refresh
  /\ refreshes = [r \in DOMAIN refreshes |-> refreshes[r]]
  /\ \A r \in DOMAIN refreshes : IsRefreshRecord(refreshes[r])

\* Type correctness of the shared folder, the taps, the screens, DataManager,
\* its cache and the refreshes.
TypeOK ==
  /\ IsDict(files, Nat, Look) /\ IsFiniteSet(DOMAIN files)
  /\ IsDict(uploads, Save, Upload)
  /\ ScreensOK
  /\ ImagesOK(codiCache) /\ ImagesOK(codiImages) /\ ImagesOK(prevCodiData)
  /\ RefreshesOK

\* The folder's numbers have no gap, whoever saves at the same time and
\* whatever fails: the gallery finds files only by counting them, so a gap
\* would hide the last set for good (uploadCodiSet's count + 1).
FolderContiguous == DOMAIN files = 1 .. Count(files)

\* The gallery never asks Storage for a file that is not there, though the
\* count it goes by is old when the requests are made (fetchPrevCodiImages).
NoMissingDownload ==
  \A r \in DOMAIN refreshes : refreshes[r].asked \subseteq DOMAIN files

\* The numbers that have entered a refresh's dispatch group and not left it.
Inside(f) == f.asked \cup DOMAIN f.got \cup f.stranded

\* The accounts of a refresh's dispatch group: its count is the number of
\* downloads without an answer, of answers without a callback and of numbers
\* that never leave, and no number is two of these, so none leaves twice
\* (leaving an empty group crashes the app); and a number that has left either
\* failed or is in DataManager, so an empty group means a complete refresh.
GroupAccounts ==
  \A r \in DOMAIN refreshes : LET f == refreshes[r] IN f.stage = "loading" =>
    /\ Inside(f) \subseteq Wanted(f.n)
    /\ Cardinality(Inside(f)) = f.left
    /\ f.asked \cap DOMAIN f.got = {} /\ f.stranded \cap (f.asked \cup DOMAIN f.got) = {}
    /\ Wanted(f.n) \ Inside(f) \subseteq f.failed \cup DOMAIN codiImages[f.dev]

\* What is cached is what DataManager holds under the same number, so a cache
\* hit never puts an older picture over a newer one (setCodiFile).
CacheAgrees ==
  \A d \in Device : \A k \in DOMAIN codiCache[d] :
    k \in DOMAIN codiImages[d] /\ codiImages[d][k] = codiCache[d][k]

\* A picture shown under a number was put under that number by some tap:
\* late and interleaved callbacks never file a picture under another one's.
ShownWasSaved ==
  \A d \in Device : \A k \in DOMAIN prevCodiData[d] :
    \E s \in DOMAIN uploads : uploads[s].num = k /\ uploads[s].look = prevCodiData[d][k]

\* A Success alert on a screen is about this screen's own set, never about a
\* tap made on a screen that has been dismissed ([weak self] in didTapMakeButton).
AlertIsOwn ==
  \A d \in Device : alert[d] = "Success" =>
    \E s \in DOMAIN uploads : uploads[s].stage = "saved" /\ uploads[s].dev = d
                              /\ uploads[s].look = screen[d]

\* Until the app restarts, the gallery loses no number it has shown.
GalleryGrows ==
  [][\A d \in Device : ~ Restart(d) => DOMAIN prevCodiData[d] \subseteq DOMAIN prevCodiData'[d]]_vars

\* A refresh that completes shows every file of its listing but the ones that
\* failed to download, and it has found nothing in the cache and received
\* nothing that is no image: the group is not left too early.
CompleteRefresh ==
  [][\A r \in DOMAIN refreshes :
       LET f == refreshes[r]
       IN  f.stage = "loading" /\ refreshes'[r].stage = "done"
             => f.stranded = {} /\ Wanted(f.n) \ f.failed \subseteq DOMAIN prevCodiData'[f.dev]]_vars

\* Users who take turns lose no set: what was acknowledged with the alert
\* "Success" is in the folder from then on.
SavedSetsKept ==
  \A s \in DOMAIN uploads : uploads[s].stage = "saved" =>
    \E k \in DOMAIN files : files[k] = uploads[s].look

\* When users take turns no gallery shows an outdated picture, although cached
\* pictures are never looked up again.
GalleryCurrent ==
  \A d \in Device : \A k \in DOMAIN prevCodiData[d] :
    k \in DOMAIN files /\ prevCodiData[d][k] = files[k]

\* Whoever taps make and stays gets an alert, even if the listing fails.
MakeAnswered ==
  \A d \in Device :
    (\E s \in DOMAIN uploads : /\ uploads[s].stage \in InFlight
                               /\ uploads[s].dev = d /\ uploads[s].look = screen[d])
      ~> (screen[d] = NoLook \/ alert[d] # "none")

\* Every enter of the refresh's group that is not left has a download under way.
AllUnderWay(f) == f.stranded = {}

Loading(r) == IsRefresh(r, "loading")

\* A refresh that found nothing in the cache completes.
ColdRefreshCompletes ==
  \A r \in Refresh : (Loading(r) /\ AllUnderWay(refreshes[r])) ~> ~ Loading(r)

\* Every refresh that starts to load completes.
RefreshCompletes == \A r \in Refresh : Loading(r) ~> ~ Loading(r)

\* The folder as the list of pictures it is meant to be.
Folder == INSTANCE ServerFolder WITH Picture <- Look, pictures <- files

\* Every write replaces a picture of the list or takes the next number.
FolderSpec == Folder!Spec

\* Every write takes the next number (proved, if users take turns).
FolderAppends == Folder!AppendSpec
=============================================================================
