------------------------- MODULE CodiGalleryProofs -------------------------
(***************************************************************************)
(* Theorems about what users see of the codi sets: the alert, the gallery  *)
(* and the dispatch group behind it; and about users who take turns.       *)
(***************************************************************************)
EXTENDS CodiSetsProofs

-----------------------------------------------------------------------------
(* The alert *)

\* A saved set stays one, whatever becomes of its process.
LEMMA SavedStays ==
  ASSUME TypeOK, [Next]_vars, NEW s \in DOMAIN uploads, uploads[s].stage = "saved"
  PROVE  s \in DOMAIN uploads' /\ uploads'[s] = uploads[s]
<1>1. \A t \in DOMAIN uploads : uploads[t] \in Upload
  BY DEF TypeOK, IsDict
<1>2. ASSUME NEW d \in Device, Restart(d) PROVE s \in DOMAIN uploads' /\ uploads'[s] = uploads[s]
  BY <1>2 DEF Restart, Forgotten
<1>3. ASSUME NEW t \in Save, SaveProgress(t) \/ OrphanLands(t)
      PROVE  s \in DOMAIN uploads' /\ uploads'[s] = uploads[s]
  BY <1>3 DEF SaveProgress, ListReply, ListError, StartPut, PutLands, PutAck, PutError,
              OrphanLands, InStage
<1>4. ASSUME NEW d \in Device, NEW t \in Save, TapMake(d, t)
      PROVE  s \in DOMAIN uploads' /\ uploads'[s] = uploads[s]
  BY <1>4 DEF TapMake, Updated
<1> QED
  BY <1>2, <1>3, <1>4
     DEF Next, vars, OpenMake, Cancel, AlertOK, StartRefresh, RefreshProgress, ListAnswered,
         ListingFails, HandleListing, Notify, DownloadAnswered, HandleDownload, DownloadFails,
         DownloadGarbled

LEMMA AlertStep == TypeOK /\ AlertIsOwn /\ [Next]_vars => AlertIsOwn'
<1> SUFFICES ASSUME TypeOK, AlertIsOwn, [Next]_vars, NEW d \in Device, alert'[d] = "Success"
             PROVE  \E s \in DOMAIN uploads' : /\ uploads'[s].stage = "saved"
                                               /\ uploads'[s].dev = d
                                               /\ uploads'[s].look = screen'[d]
  BY DEF AlertIsOwn
<1> USE DEF screenVars
\* The alert was there, and its screen still is.
<1>1. ASSUME alert[d] = "Success", screen'[d] = screen[d]
      PROVE  \E s \in DOMAIN uploads' : /\ uploads'[s].stage = "saved"
                                        /\ uploads'[s].dev = d
                                        /\ uploads'[s].look = screen'[d]
  BY <1>1, SavedStays DEF AlertIsOwn
<1>2. alert[d] = "Success" => screen[d] # NoLook
  BY NoLookAssumption DEF AlertIsOwn, TypeOK, IsDict, Upload
<1>3. CASE UNCHANGED << screen, alert >>
  BY <1>1, <1>3
<1>4. ASSUME NEW e \in Device, OpenMake(e) \/ Cancel(e) \/ AlertOK(e) \/ Restart(e)
      PROVE  alert[d] = "Success" /\ screen'[d] = screen[d]
  BY <1>2, <1>4 DEF OpenMake, Cancel, AlertOK, Restart, TypeOK, ScreensOK
<1>5. ASSUME NEW s \in Save, PutAck(s), alert[d] # "Success"
      PROVE  /\ s \in DOMAIN uploads' /\ uploads'[s].stage = "saved"
             /\ uploads'[s].dev = d /\ uploads'[s].look = screen'[d]
  <2>1. s \in DOMAIN uploads /\ uploads[s] \in Upload
    BY <1>5 DEF PutAck, InStage, TypeOK, IsDict
  <2>2. uploads[s].dev = d /\ screen[d] = uploads[s].look
    BY <1>5, <2>1 DEF PutAck, PresentAlert, TypeOK, ScreensOK, Upload
  <2> QED  BY <1>5, <2>1, <2>2 DEF PutAck, Upload
<1>6. ASSUME NEW s \in Save, PutAck(s) \/ PutError(s), alert[d] = "Success"
      PROVE  screen'[d] = screen[d]
  BY <1>6 DEF PutAck, PutError
<1>7. ASSUME NEW s \in Save, PutError(s) PROVE alert[d] = "Success"
  BY <1>7 DEF PutError, PresentAlert, TypeOK, ScreensOK
<1> QED
  BY <1>1, <1>3, <1>4, <1>5, <1>6, <1>7
     DEF Next, vars, TapMake, StartRefresh, SaveProgress, ListReply, ListError, StartPut, PutLands,
         OrphanLands, RefreshProgress, ListAnswered, ListingFails, HandleListing, Notify,
         DownloadAnswered, HandleDownload, DownloadFails, DownloadGarbled

\* Nobody is told of a success that is another screen's.
THEOREM AlertsAreOwn == Spec => []AlertIsOwn
<1>1. Init => AlertIsOwn
  BY DEF Init, AlertIsOwn
<1> QED  BY <1>1, TypeInit, TypeStep, AlertStep, PTL DEF Spec

-----------------------------------------------------------------------------
(* What a step may do to the pictures *)

\* The pictures DataManager and its cache hold change with a listing's or a
\* download's callback, the gallery's with a notification, and all with a restart.
LEMMA PictureSteps ==
  ASSUME [Next]_vars
  PROVE  /\ \/ UNCHANGED << codiCache, codiImages >>
            \/ \E r \in Refresh : \/ HandleListing(r)
                                  \/ r \in DOMAIN refreshes
                                     /\ \E i \in Wanted(refreshes[r].n) : HandleDownload(r, i)
            \/ \E d \in Device : Restart(d)
         /\ \/ UNCHANGED prevCodiData
            \/ \E r \in Refresh : Notify(r)
            \/ \E d \in Device : Restart(d)
<1> USE DEF screenVars, galleryVars
<1>1. ASSUME NEW d \in Device,
             \/ OpenMake(d) \/ Cancel(d) \/ AlertOK(d)
             \/ \E s \in Save : TapMake(d, s)
             \/ \E r \in Refresh : StartRefresh(d, r)
      PROVE  UNCHANGED << codiCache, codiImages, prevCodiData >>
  BY <1>1 DEF OpenMake, Cancel, AlertOK, TapMake, StartRefresh
<1>2. ASSUME NEW s \in Save, SaveProgress(s) \/ OrphanLands(s)
      PROVE  UNCHANGED << codiCache, codiImages, prevCodiData >>
  BY <1>2 DEF SaveProgress, ListReply, ListError, StartPut, PutLands, PutAck, PutError, OrphanLands
<1>3. ASSUME NEW r \in Refresh, ListAnswered(r) \/ ListingFails(r)
      PROVE  UNCHANGED << codiCache, codiImages, prevCodiData >>
  BY <1>3 DEF ListAnswered, ListingFails
<1>4. ASSUME NEW r \in Refresh, NEW i,
             DownloadAnswered(r, i) \/ DownloadFails(r, i) \/ DownloadGarbled(r, i)
      PROVE  UNCHANGED << codiCache, codiImages, prevCodiData >>
  BY <1>4 DEF DownloadAnswered, DownloadFails, DownloadGarbled
<1>5. ASSUME NEW r \in Refresh PROVE HandleListing(r) => UNCHANGED prevCodiData
  BY DEF HandleListing
<1>6. ASSUME NEW r \in Refresh, NEW i PROVE HandleDownload(r, i) => UNCHANGED prevCodiData
  BY DEF HandleDownload
<1>7. ASSUME NEW r \in Refresh PROVE Notify(r) => UNCHANGED << codiCache, codiImages >>
  BY DEF Notify
<1>8. UNCHANGED vars => UNCHANGED << codiCache, codiImages, prevCodiData >>
  BY DEF vars
<1> QED
  BY <1>1, <1>2, <1>3, <1>4, <1>5, <1>6, <1>7, <1>8 DEF Next, RefreshProgress

\* DataManager loses no number until the app restarts.
LEMMA ImagesGrow ==
  ASSUME TypeOK, [Next]_vars, NEW d \in Device, ~ Restart(d)
  PROVE  DOMAIN codiImages[d] \subseteq DOMAIN codiImages'[d]
<1>1. \A e \in Device : codiImages = [x \in Device |-> codiImages[x]]
  BY DEF TypeOK, ImagesOK
<1>2. ASSUME NEW r \in Refresh, HandleListing(r)
      PROVE  DOMAIN codiImages[d] \subseteq DOMAIN codiImages'[d]
  BY <1>1, <1>2 DEF HandleListing, Overlaid
<1>3. ASSUME NEW r \in Refresh, NEW i, HandleDownload(r, i)
      PROVE  DOMAIN codiImages[d] \subseteq DOMAIN codiImages'[d]
  BY <1>1, <1>3 DEF HandleDownload, KeepImage, Updated
<1>4. ASSUME NEW e \in Device, Restart(e)
      PROVE  DOMAIN codiImages[d] \subseteq DOMAIN codiImages'[d]
  BY <1>1, <1>4 DEF Restart
<1> QED  BY <1>2, <1>3, <1>4, PictureSteps

-----------------------------------------------------------------------------
(* The gallery only grows *)

\* GalleryGrows is no consequence of the types: the gallery's dictionary is
\* replaced by DataManager's, which must not have fewer numbers.
GalleryWithin == \A d \in Device : DOMAIN prevCodiData[d] \subseteq DOMAIN codiImages[d]

LEMMA GalleryStep ==
  TypeOK /\ GalleryWithin /\ [Next]_vars =>
    /\ GalleryWithin'
    /\ \A d \in Device : ~ Restart(d) => DOMAIN prevCodiData[d] \subseteq DOMAIN prevCodiData'[d]
<1> SUFFICES ASSUME TypeOK, GalleryWithin, [Next]_vars, NEW d \in Device
             PROVE  /\ DOMAIN prevCodiData'[d] \subseteq DOMAIN codiImages'[d]
                    /\ ~ Restart(d) => DOMAIN prevCodiData[d] \subseteq DOMAIN prevCodiData'[d]
  BY DEF GalleryWithin
<1>1. prevCodiData = [x \in Device |-> prevCodiData[x]] /\ codiImages = [x \in Device |-> codiImages[x]]
  BY DEF TypeOK, ImagesOK
<1>2. CASE Restart(d)
  BY <1>1, <1>2 DEF Restart, EmptyDict
<1>3. CASE ~ Restart(d)
  <2>1. DOMAIN codiImages[d] \subseteq DOMAIN codiImages'[d]
    BY <1>3, ImagesGrow
  <2>2. CASE UNCHANGED prevCodiData
    BY <2>1, <2>2 DEF GalleryWithin
  <2>3. ASSUME NEW r \in Refresh, Notify(r)
        PROVE  /\ DOMAIN prevCodiData'[d] \subseteq DOMAIN codiImages'[d]
               /\ DOMAIN prevCodiData[d] \subseteq DOMAIN prevCodiData'[d]
    BY <1>1, <2>3 DEF Notify, GalleryWithin
  <2>4. ASSUME NEW e \in Device, Restart(e)
        PROVE  prevCodiData'[d] = prevCodiData[d]
    BY <1>1, <1>3, <2>4 DEF Restart
  <2> QED  BY <2>1, <2>2, <2>3, <2>4, PictureSteps DEF GalleryWithin
<1> QED  BY <1>2, <1>3

\* A gallery loses no number it has shown before its app restarts.
THEOREM GalleryOnlyGrows == Spec => GalleryGrows
<1>1. Init => GalleryWithin
  BY DEF Init, EmptyDict, GalleryWithin
<1>2. TypeOK /\ GalleryWithin /\ [Next]_vars => GalleryWithin'
  BY GalleryStep
<1>3. TypeOK /\ GalleryWithin /\ [Next]_vars =>
        [\A d \in Device : ~ Restart(d) => DOMAIN prevCodiData[d] \subseteq DOMAIN prevCodiData'[d]]_vars
  BY GalleryStep
<1> QED  BY <1>1, <1>2, <1>3, TypeInit, TypeStep, PTL DEF Spec, GalleryGrows

-----------------------------------------------------------------------------
(* The dispatch group *)

\* What GroupAccounts says of a refresh when DataManager holds these pictures.
Accounts(f, images) ==
  /\ Inside(f) \subseteq Wanted(f.n)
  /\ Cardinality(Inside(f)) = f.left
  /\ f.asked \cap DOMAIN f.got = {} /\ f.stranded \cap (f.asked \cup DOMAIN f.got) = {}
  /\ Wanted(f.n) \ Inside(f) \subseteq f.failed \cup DOMAIN images

\* A refresh that loads after a step was left alone, has just been listed, or
\* one of its downloads made the step; its app was not restarted.
LEMMA LoadingSteps ==
  ASSUME TypeOK, [Next]_vars, NEW r \in DOMAIN refreshes', refreshes'[r].stage = "loading"
  PROVE  /\ r \in DOMAIN refreshes
         /\ refreshes'[r].dev = refreshes[r].dev
         /\ ~ Restart(refreshes[r].dev)
         /\ \/ refreshes'[r] = refreshes[r]
            \/ HandleListing(r) /\ refreshes[r].n # 0
            \/ \E i \in Wanted(refreshes[r].n) :
                 \/ DownloadAnswered(r, i) \/ HandleDownload(r, i)
                 \/ DownloadFails(r, i) \/ DownloadGarbled(r, i)
<1> DEFINE Moves == \/ refreshes'[r] = refreshes[r]
                    \/ HandleListing(r) /\ refreshes[r].n # 0
                    \/ \E i \in Wanted(refreshes[r].n) :
                         \/ DownloadAnswered(r, i) \/ HandleDownload(r, i)
                         \/ DownloadFails(r, i) \/ DownloadGarbled(r, i)
           Goal == r \in DOMAIN refreshes /\ refreshes'[r].dev = refreshes[r].dev /\ Moves
<1>0. \A q \in DOMAIN refreshes : IsRefreshRecord(refreshes[q])
  BY DEF TypeOK, RefreshesOK
<1>1. UNCHANGED refreshes => Goal
  OBVIOUS
<1>2. ASSUME NEW d \in Device, NEW q \in Refresh, StartRefresh(d, q) PROVE Goal
  BY <1>2 DEF StartRefresh, Updated, RefreshRecord
<1>3. ASSUME NEW d \in Device, Restart(d) PROVE Goal
  BY <1>3 DEF Restart, RefreshRecord
<1>4. ASSUME NEW q \in Refresh, ListAnswered(q) \/ ListingFails(q) \/ Notify(q) PROVE Goal
  BY <1>0, <1>4 DEF ListAnswered, ListingFails, Notify, Finish, RefreshRecord, IsRefresh, IsRefreshRecord
<1>5. ASSUME NEW q \in Refresh, HandleListing(q) PROVE Goal
  BY <1>5 DEF HandleListing, Finish, RefreshRecord, IsRefresh
<1>6. ASSUME NEW q \in Refresh, NEW i \in Wanted(refreshes[q].n),
             \/ DownloadAnswered(q, i) \/ HandleDownload(q, i)
             \/ DownloadFails(q, i) \/ DownloadGarbled(q, i)
      PROVE  Goal
  <2>1. q \in DOMAIN refreshes /\ IsRefreshRecord(refreshes[q]) /\ DOMAIN refreshes' = DOMAIN refreshes
        /\ \A p \in DOMAIN refreshes \ {q} : refreshes'[p] = refreshes[p]
    BY <1>0, <1>6 DEF DownloadAnswered, HandleDownload, DownloadFails, DownloadGarbled, IsRefresh
  <2>2. refreshes'[q].dev = refreshes[q].dev
    BY <1>6, <2>1 DEF DownloadAnswered, HandleDownload, DownloadFails, DownloadGarbled, IsRefreshRecord
  <2> QED  BY <1>6, <2>1, <2>2
<1>7. Goal
  <2>1. ASSUME NEW d \in Device,
               OpenMake(d) \/ Cancel(d) \/ AlertOK(d) \/ \E s \in Save : TapMake(d, s)
        PROVE  UNCHANGED refreshes
    BY <2>1 DEF OpenMake, Cancel, AlertOK, TapMake
  <2>2. ASSUME NEW s \in Save, SaveProgress(s) \/ OrphanLands(s) PROVE UNCHANGED refreshes
    BY <2>2 DEF SaveProgress, ListReply, ListError, StartPut, PutLands, PutAck, PutError, OrphanLands
  <2>3. UNCHANGED vars => UNCHANGED refreshes
    BY DEF vars
  <2> HIDE DEF Goal
  <2> QED  BY <1>1, <1>2, <1>3, <1>4, <1>5, <1>6, <2>1, <2>2, <2>3 DEF Next, RefreshProgress
<1>8. ~ Restart(refreshes[r].dev)
  BY <1>7 DEF Restart, RefreshRecord
<1> QED  BY <1>7, <1>8

LEMMA GroupStep == TypeOK /\ GroupAccounts /\ [Next]_vars => GroupAccounts'
<1> SUFFICES ASSUME TypeOK, GroupAccounts, [Next]_vars,
                    NEW r \in DOMAIN refreshes', refreshes'[r].stage = "loading"
             PROVE  Accounts(refreshes'[r], codiImages'[refreshes'[r].dev])
  BY DEF GroupAccounts, Accounts
<1> DEFINE f == refreshes[r]
           g == refreshes'[r]
           d == f.dev
<1>1. /\ r \in DOMAIN refreshes /\ g.dev = d /\ ~ Restart(d)
      /\ IsRefreshRecord(f) /\ d \in Device /\ f.n \in Nat
  BY LoadingSteps DEF TypeOK, RefreshesOK, IsRefreshRecord
<1>2. DOMAIN codiImages[d] \subseteq DOMAIN codiImages'[d]
  BY <1>1, ImagesGrow
<1>3. ASSUME f.stage = "loading" PROVE Accounts(f, codiImages'[d])
  BY <1>1, <1>2, <1>3 DEF GroupAccounts, Accounts
<1>4. CASE g = f
  BY <1>1, <1>3, <1>4
<1>5. CASE HandleListing(r) /\ f.n # 0
  <2>1. g = RefreshRecord(d, "loading", f.n, Wanted(f.n) \ (Wanted(f.n) \cap DOMAIN codiCache[d]))
    BY <1>1, <1>5 DEF HandleListing
  <2>2. Cardinality(Wanted(f.n)) = f.n
    BY <1>1, FS_Interval DEF Wanted
  <2>3. /\ g.n = f.n /\ g.left = f.n /\ DOMAIN g.got = {}
        /\ g.stranded = Wanted(f.n) \ g.asked /\ g.asked \subseteq Wanted(f.n)
    BY <2>1 DEF RefreshRecord, EmptyDict
  <2>4. Inside(g) = Wanted(f.n)
    BY <2>3 DEF Inside
  <2>5. Accounts(g, codiImages'[d])
    BY <2>2, <2>3, <2>4 DEF Accounts
  <2> QED  BY <1>1, <2>5
<1>6. ASSUME NEW i \in Wanted(f.n),
             \/ DownloadAnswered(r, i) \/ HandleDownload(r, i)
             \/ DownloadFails(r, i) \/ DownloadGarbled(r, i)
      PROVE  Accounts(g, codiImages'[d])
  <2>1. Accounts(f, codiImages'[d])
    BY <1>3, <1>6 DEF DownloadAnswered, HandleDownload, DownloadFails, DownloadGarbled, IsRefresh
  <2>2. IsFiniteSet(Inside(f))
    <3>1. IsFiniteSet(Wanted(f.n))
      BY <1>1, FS_Interval DEF Wanted
    <3> QED  BY <2>1, <3>1, FS_Subset DEF Accounts
  <2>3. i \in Inside(f) => Cardinality(Inside(f) \ {i}) = f.left - 1
    <3>1. i \in Inside(f) => Cardinality(Inside(f) \ {i}) = Cardinality(Inside(f)) - 1
      BY <2>2, FS_RemoveElement
    <3> QED  BY <2>1, <3>1 DEF Accounts
  \* The number leaves the group with its picture or a failure.
  <2>4. ASSUME Inside(g) = Inside(f) \ {i}, i \in Inside(f), g.left = f.left - 1, g.n = f.n,
               g.asked \subseteq f.asked, DOMAIN g.got \subseteq DOMAIN f.got,
               g.stranded = f.stranded, f.failed \subseteq g.failed,
               i \in g.failed \cup DOMAIN codiImages'[d]
        PROVE  Accounts(g, codiImages'[d])
    BY <2>1, <2>3, <2>4 DEF Accounts
  \* The number stays inside, in another of the group's sets.
  <2>5. ASSUME Inside(g) = Inside(f), g.left = f.left, g.n = f.n, g.failed = f.failed,
               g.asked \cap DOMAIN g.got = {}, g.stranded \cap (g.asked \cup DOMAIN g.got) = {}
        PROVE  Accounts(g, codiImages'[d])
    BY <2>1, <2>5 DEF Accounts
  <2>6. CASE DownloadAnswered(r, i)
    <3>1. /\ i \in f.asked /\ g.n = f.n /\ g.left = f.left /\ g.stranded = f.stranded
          /\ g.asked = f.asked \ {i} /\ g.failed = f.failed
          /\ DOMAIN g.got = DOMAIN f.got \cup {i}
      BY <1>1, <2>6 DEF DownloadAnswered, IsRefreshRecord, Updated
    <3>2. Inside(g) = Inside(f)
      BY <3>1 DEF Inside
    <3>3. g.asked \cap DOMAIN g.got = {} /\ g.stranded \cap (g.asked \cup DOMAIN g.got) = {}
      BY <2>1, <3>1 DEF Accounts
    <3> QED  BY <2>5, <3>1, <3>2, <3>3
  <2>7. CASE HandleDownload(r, i)
    <3>1. /\ i \in DOMAIN f.got /\ g.n = f.n /\ g.left = f.left - 1 /\ g.stranded = f.stranded
          /\ g.asked = f.asked /\ g.failed = f.failed
          /\ DOMAIN g.got = DOMAIN f.got \ {i}
      BY <1>1, <2>7 DEF HandleDownload, IsRefreshRecord, Kept
    <3>2. i \in DOMAIN codiImages'[d]
      <4>1. codiImages = [x \in Device |-> codiImages[x]]
        BY DEF TypeOK, ImagesOK
      <4> QED  BY <1>1, <2>7, <4>1 DEF HandleDownload, KeepImage, Updated
    <3>3. i \in Inside(f) /\ Inside(g) = Inside(f) \ {i}
      BY <2>1, <3>1 DEF Inside, Accounts
    <3> QED  BY <2>4, <3>1, <3>2, <3>3
  <2>8. CASE DownloadFails(r, i)
    <3>1. /\ i \in f.asked /\ g.n = f.n /\ g.left = f.left - 1 /\ g.stranded = f.stranded
          /\ g.asked = f.asked \ {i} /\ g.failed = f.failed \cup {i} /\ g.got = f.got
      BY <1>1, <2>8 DEF DownloadFails, IsRefreshRecord
    <3>2. i \in Inside(f) /\ Inside(g) = Inside(f) \ {i}
      BY <2>1, <3>1 DEF Inside, Accounts
    <3> QED  BY <2>4, <3>1, <3>2
  <2>9. CASE DownloadGarbled(r, i)
    <3>1. /\ i \in f.asked /\ g.n = f.n /\ g.left = f.left /\ g.failed = f.failed
          /\ g.asked = f.asked \ {i} /\ g.stranded = f.stranded \cup {i} /\ g.got = f.got
      BY <1>1, <2>9 DEF DownloadGarbled, IsRefreshRecord
    <3>2. Inside(g) = Inside(f)
      BY <3>1 DEF Inside
    <3>3. g.asked \cap DOMAIN g.got = {} /\ g.stranded \cap (g.asked \cup DOMAIN g.got) = {}
      BY <2>1, <3>1 DEF Accounts
    <3> QED  BY <2>5, <3>1, <3>2, <3>3
  <2> QED  BY <1>6, <2>6, <2>7, <2>8, <2>9
<1> QED  BY <1>1, <1>4, <1>5, <1>6, LoadingSteps

\* The count of a refresh's dispatch group is the number of downloads without
\* an answer, of answers whose callback has not run and of numbers that never
\* leave, so it is never left more often than entered; and who has left it has
\* its picture or has failed.
THEOREM GroupIsBalanced == Spec => []GroupAccounts
<1>1. Init => GroupAccounts
  BY DEF Init, EmptyDict, GroupAccounts
<1> QED  BY <1>1, TypeInit, TypeStep, GroupStep, PTL DEF Spec

\* Only its notification makes a refresh done.
LEMMA DoneByNotify ==
  ASSUME TypeOK, [Next]_vars, NEW r \in DOMAIN refreshes,
         refreshes[r].stage = "loading", refreshes'[r].stage = "done"
  PROVE  Notify(r)
<1>0. \A q \in DOMAIN refreshes : IsRefreshRecord(refreshes[q])
  BY DEF TypeOK, RefreshesOK
<1>1. ~ (UNCHANGED refreshes)
  OBVIOUS
<1>2. ASSUME NEW d \in Device, NEW q \in Refresh, StartRefresh(d, q) PROVE FALSE
  BY <1>2 DEF StartRefresh, Updated
<1>3. ASSUME NEW d \in Device, Restart(d) PROVE FALSE
  BY <1>3 DEF Restart, RefreshRecord
<1>4. ASSUME NEW q \in Refresh, ListAnswered(q) \/ ListingFails(q) \/ HandleListing(q) PROVE FALSE
  BY <1>0, <1>4 DEF ListAnswered, ListingFails, HandleListing, Finish, RefreshRecord, IsRefresh,
                    IsRefreshRecord
<1>5. ASSUME NEW q \in Refresh, NEW i,
             \/ DownloadAnswered(q, i) \/ HandleDownload(q, i)
             \/ DownloadFails(q, i) \/ DownloadGarbled(q, i)
      PROVE  FALSE
  BY <1>0, <1>5 DEF DownloadAnswered, HandleDownload, DownloadFails, DownloadGarbled, IsRefresh,
                    IsRefreshRecord
<1>6. ASSUME NEW q \in Refresh, Notify(q) PROVE q = r
  BY <1>6 DEF Notify, Finish
<1>7. ASSUME NEW d \in Device,
             OpenMake(d) \/ Cancel(d) \/ AlertOK(d) \/ \E s \in Save : TapMake(d, s)
      PROVE  FALSE
  BY <1>1, <1>7 DEF OpenMake, Cancel, AlertOK, TapMake
<1>8. ASSUME NEW s \in Save, SaveProgress(s) \/ OrphanLands(s) PROVE FALSE
  BY <1>1, <1>8 DEF SaveProgress, ListReply, ListError, StartPut, PutLands, PutAck, PutError,
                    OrphanLands
<1>9. ~ (UNCHANGED vars)
  BY <1>1 DEF vars
<1> QED
  BY <1>2, <1>3, <1>4, <1>5, <1>6, <1>7, <1>8, <1>9 DEF Next, RefreshProgress

\* What CompleteRefresh says of one refresh when it is done.
ShowsAll(f) == f.stranded = {} /\ Wanted(f.n) \ f.failed \subseteq DOMAIN prevCodiData'[f.dev]

\* An empty group has no number inside: it has accounted for the whole listing.
LEMMA CompleteStep ==
  TypeOK /\ GroupAccounts /\ [Next]_vars =>
    \A r \in DOMAIN refreshes :
      refreshes[r].stage = "loading" /\ refreshes'[r].stage = "done" => ShowsAll(refreshes[r])
<1> SUFFICES ASSUME TypeOK, GroupAccounts, [Next]_vars, NEW r \in DOMAIN refreshes,
                    refreshes[r].stage = "loading", refreshes'[r].stage = "done"
             PROVE  ShowsAll(refreshes[r])
  OBVIOUS
<1> DEFINE f == refreshes[r]
           d == f.dev
<1>1. Notify(r)
  BY DoneByNotify
<1>2. d \in Device /\ f.n \in Nat
  BY DEF TypeOK, RefreshesOK, IsRefreshRecord
<1>3. prevCodiData'[d] = codiImages[d]
  <2>1. prevCodiData = [x \in Device |-> prevCodiData[x]]
    BY DEF TypeOK, ImagesOK
  <2> QED  BY <1>1, <1>2, <2>1 DEF Notify
<1>4. Accounts(f, codiImages[d])
  BY DEF GroupAccounts, Accounts
<1>5. Inside(f) = {}
  <2>1. Cardinality(Inside(f)) = 0
    BY <1>1, <1>4 DEF Notify, Accounts
  <2>2. IsFiniteSet(Inside(f))
    <3>1. IsFiniteSet(Wanted(f.n))
      BY <1>2, FS_Interval DEF Wanted
    <3> QED  BY <1>4, <3>1, FS_Subset DEF Accounts
  <2> QED  BY <2>1, <2>2, FS_EmptySet
<1>6. f.stranded = {}
  BY <1>5 DEF Inside
<1> QED  BY <1>3, <1>4, <1>5, <1>6 DEF Accounts, ShowsAll

\* A refresh that completes shows all its files but those that failed to
\* download; it has met no cached file and no answer that is no image.
THEOREM RefreshIsComplete == Spec => CompleteRefresh
<1>1. Init => GroupAccounts
  BY DEF Init, EmptyDict, GroupAccounts
<1>2. TypeOK /\ GroupAccounts /\ [Next]_vars =>
        [\A r \in DOMAIN refreshes :
           LET f == refreshes[r]
           IN  f.stage = "loading" /\ refreshes'[r].stage = "done"
                 => f.stranded = {} /\ Wanted(f.n) \ f.failed \subseteq DOMAIN prevCodiData'[f.dev]]_vars
  BY CompleteStep DEF ShowsAll
<1> QED  BY <1>1, <1>2, TypeInit, TypeStep, GroupStep, PTL DEF Spec, CompleteRefresh

-----------------------------------------------------------------------------
(* Where pictures come from *)

\* A dictionary holds a picture under a number.
Holds(images, k, look) == k \in DOMAIN images /\ images[k] = look

\* Some device holds a picture under a number: its cache, DataManager, its
\* gallery, or an answer whose callback has not run.
Held(k, look) ==
  \/ \E d \in Device : \/ Holds(codiCache[d], k, look)
                       \/ Holds(codiImages[d], k, look)
                       \/ Holds(prevCodiData[d], k, look)
  \/ \E r \in DOMAIN refreshes : Holds(refreshes[r].got, k, look)

\* A cache takes pictures from answers.
LEMMA CacheFrom ==
  ASSUME TypeOK, [Next]_vars, NEW d \in Device, NEW k, NEW look, Holds(codiCache'[d], k, look)
  PROVE  Held(k, look)
<1>1. codiCache = [x \in Device |-> codiCache[x]]
  BY DEF TypeOK, ImagesOK
<1>2. CASE UNCHANGED codiCache
  BY <1>2 DEF Held
<1>3. ASSUME NEW e \in Device, Restart(e) PROVE Held(k, look)
  BY <1>1, <1>3 DEF Restart, Held, Holds, EmptyDict
<1>4. ASSUME NEW r \in Refresh, NEW i \in Wanted(refreshes[r].n), HandleDownload(r, i)
      PROVE  Held(k, look)
  <2> DEFINE e == refreshes[r].dev
             got == refreshes[r].got
  <2>1. /\ r \in DOMAIN refreshes /\ e \in Device /\ i \in DOMAIN got
        /\ i \in Nat /\ got[i] \in Look /\ IsDict(codiCache[e], Nat, Look)
    BY <1>4 DEF TypeOK, RefreshesOK, IsRefreshRecord, HandleDownload, IsRefresh, IsDict, ImagesOK
  <2>2. PICK cache \in CachePuts(codiCache[e], i, got[i], CacheCapacity) :
           codiCache' = [codiCache EXCEPT ![e] = cache]
    BY <1>4 DEF HandleDownload
  <2>3. CASE d # e
    BY <1>1, <2>2, <2>3 DEF Held
  <2>4. CASE d = e
    <3>1. k \in DOMAIN cache /\ cache[k] = look
      BY <1>1, <2>1, <2>2, <2>4 DEF Holds
    <3> HIDE DEF e, got
    <3>2. IF k = i THEN cache[k] = got[i] ELSE k \in DOMAIN codiCache[e] /\ cache[k] = codiCache[e][k]
      BY <2>1, <2>2, <3>1, CachePutEntries
    <3>3. Holds(got, k, look) \/ Holds(codiCache[e], k, look)
      BY <2>1, <3>1, <3>2 DEF Holds
    <3> QED  BY <2>1, <3>3 DEF Held, got
  <2> QED  BY <2>3, <2>4
<1>5. ASSUME NEW r \in Refresh, HandleListing(r) PROVE UNCHANGED codiCache
  BY <1>5 DEF HandleListing
<1> QED  BY <1>2, <1>3, <1>4, <1>5, PictureSteps

\* DataManager takes pictures from answers and from the cache.
LEMMA ImagesFrom ==
  ASSUME TypeOK, [Next]_vars, NEW d \in Device, NEW k, NEW look, Holds(codiImages'[d], k, look)
  PROVE  Held(k, look)
<1>1. codiImages = [x \in Device |-> codiImages[x]]
  BY DEF TypeOK, ImagesOK
<1>2. CASE UNCHANGED codiImages
  BY <1>2 DEF Held
<1>3. ASSUME NEW e \in Device, Restart(e) PROVE Held(k, look)
  BY <1>1, <1>3 DEF Restart, Held, Holds, EmptyDict
<1>4. ASSUME NEW r \in Refresh, HandleListing(r) PROVE Held(k, look)
  <2>1. CASE refreshes[r].n = 0
    BY <1>2, <1>4, <2>1 DEF HandleListing
  <2>2. CASE refreshes[r].n # 0
    <3> DEFINE e == refreshes[r].dev
    <3>1. e \in Device
      BY <1>4 DEF TypeOK, RefreshesOK, IsRefreshRecord, HandleListing, IsRefresh
    <3>2. PICK hits : codiImages' = [codiImages EXCEPT ![e] =
                                       Overlaid(codiImages[e], Kept(codiCache[e], hits))]
      BY <1>4, <2>2 DEF HandleListing
    <3>3. CASE d # e
      BY <1>1, <3>2, <3>3 DEF Held
    <3>4. CASE d = e
      <4>1. Holds(Overlaid(codiImages[e], Kept(codiCache[e], hits)), k, look)
        BY <1>1, <3>1, <3>2, <3>4
      <4>2. Holds(codiImages[e], k, look) \/ Holds(codiCache[e], k, look)
        BY <4>1 DEF Holds, Overlaid, Kept
      <4> QED  BY <3>1, <4>2 DEF Held
    <3> QED  BY <3>3, <3>4
  <2> QED  BY <2>1, <2>2
<1>5. ASSUME NEW r \in Refresh, NEW i \in Wanted(refreshes[r].n), HandleDownload(r, i)
      PROVE  Held(k, look)
  BY <1>1, <1>5 DEF HandleDownload, IsRefresh, KeepImage, Updated, Held, Holds
<1> QED  BY <1>2, <1>3, <1>4, <1>5, PictureSteps

\* The gallery takes pictures from DataManager.
LEMMA GalleryFrom ==
  ASSUME TypeOK, [Next]_vars, NEW d \in Device, NEW k, NEW look, Holds(prevCodiData'[d], k, look)
  PROVE  Held(k, look)
<1>1. prevCodiData = [x \in Device |-> prevCodiData[x]]
  BY DEF TypeOK, ImagesOK
<1>2. CASE UNCHANGED prevCodiData
  BY <1>2 DEF Held
<1>3. ASSUME NEW e \in Device, Restart(e) PROVE Held(k, look)
  BY <1>1, <1>3 DEF Restart, Held, Holds, EmptyDict
<1>4. ASSUME NEW r \in Refresh, Notify(r) PROVE Held(k, look)
  BY <1>1, <1>4 DEF Notify, Held, Holds
<1> QED  BY <1>2, <1>3, <1>4, PictureSteps

\* Answers hold what the folder held.
LEMMA AnswersFrom ==
  ASSUME TypeOK, [Next]_vars, NEW r \in DOMAIN refreshes', NEW k, NEW look,
         Holds(refreshes'[r].got, k, look)
  PROVE  Held(k, look) \/ Holds(files, k, look)
<1>0. \A q \in DOMAIN refreshes : IsRefreshRecord(refreshes[q])
  BY DEF TypeOK, RefreshesOK
<1>1. ASSUME r \in DOMAIN refreshes, refreshes'[r].got = refreshes[r].got PROVE Held(k, look)
  BY <1>1 DEF Held
<1>2. ASSUME NEW e, NEW stage, NEW n, NEW asked, refreshes'[r] = RefreshRecord(e, stage, n, asked)
      PROVE  FALSE
  BY <1>2 DEF RefreshRecord, EmptyDict, Holds
<1>3. UNCHANGED refreshes => Held(k, look)
  BY DEF Held
<1>4. ASSUME NEW d \in Device, NEW q \in Refresh, StartRefresh(d, q) PROVE Held(k, look)
  BY <1>1, <1>2, <1>4 DEF StartRefresh, Updated
<1>5. ASSUME NEW d \in Device, Restart(d) PROVE Held(k, look)
  BY <1>1, <1>2, <1>5 DEF Restart
<1>6. ASSUME NEW q \in Refresh, ListAnswered(q) PROVE Held(k, look)
  BY <1>0, <1>1, <1>6 DEF ListAnswered, IsRefresh, IsRefreshRecord
<1>7. ASSUME NEW q \in Refresh, ListingFails(q) \/ Notify(q) PROVE Held(k, look)
  BY <1>1, <1>2, <1>7 DEF ListingFails, Notify, Finish, IsRefresh
<1>8. ASSUME NEW q \in Refresh, HandleListing(q) PROVE Held(k, look)
  BY <1>1, <1>2, <1>8 DEF HandleListing, Finish, IsRefresh
<1>9. ASSUME NEW q \in Refresh, NEW i, DownloadFails(q, i) \/ DownloadGarbled(q, i)
      PROVE  Held(k, look)
  BY <1>0, <1>1, <1>9 DEF DownloadFails, DownloadGarbled, IsRefresh, IsRefreshRecord
<1>10. ASSUME NEW q \in Refresh, NEW i, DownloadAnswered(q, i)
       PROVE  Held(k, look) \/ Holds(files, k, look)
  <2>1. CASE r # q
    BY <1>1, <1>10, <2>1 DEF DownloadAnswered
  <2>2. CASE r = q
    <3>1. r \in DOMAIN refreshes /\ i \in DOMAIN files
          /\ refreshes'[r].got = Updated(refreshes[r].got, i, files[i])
      BY <1>0, <1>10, <2>2 DEF DownloadAnswered, IsRefresh, IsRefreshRecord
    <3> QED  BY <3>1 DEF Updated, Held, Holds
  <2> QED  BY <2>1, <2>2
<1>11. ASSUME NEW q \in Refresh, NEW i, HandleDownload(q, i) PROVE Held(k, look)
  <2>1. CASE r # q
    BY <1>1, <1>11, <2>1 DEF HandleDownload
  <2>2. CASE r = q
    <3>1. r \in DOMAIN refreshes
          /\ refreshes'[r].got = Kept(refreshes[r].got, DOMAIN refreshes[r].got \ {i})
      BY <1>0, <1>11, <2>2 DEF HandleDownload, IsRefresh, IsRefreshRecord
    <3> QED  BY <3>1 DEF Kept, Held, Holds
  <2> QED  BY <2>1, <2>2
<1>12. ASSUME NEW d \in Device,
              OpenMake(d) \/ Cancel(d) \/ AlertOK(d) \/ \E s \in Save : TapMake(d, s)
       PROVE  UNCHANGED refreshes
  BY <1>12 DEF OpenMake, Cancel, AlertOK, TapMake
<1>13. ASSUME NEW s \in Save, SaveProgress(s) \/ OrphanLands(s) PROVE UNCHANGED refreshes
  BY <1>13 DEF SaveProgress, ListReply, ListError, StartPut, PutLands, PutAck, PutError, OrphanLands
<1>14. UNCHANGED vars => UNCHANGED refreshes
  BY DEF vars
<1> QED
  BY <1>3, <1>4, <1>5, <1>6, <1>7, <1>8, <1>9, <1>10, <1>11, <1>12, <1>13, <1>14
     DEF Next, RefreshProgress

\* No step makes a picture up or moves it to another number.
LEMMA HeldFrom ==
  ASSUME TypeOK, [Next]_vars, NEW k, NEW look, Held(k, look)'
  PROVE  Held(k, look) \/ Holds(files, k, look)
BY CacheFrom, ImagesFrom, GalleryFrom, AnswersFrom DEF Held

\* Some tap has put a picture under a number, or is about to.
PutBySome(k, look) ==
  \E s \in DOMAIN uploads :
    uploads[s].num = k /\ uploads[s].look = look /\ uploads[s].stage # "listing"

\* ShownWasSaved says this of galleries alone; it is inductive when it is said
\* of the folder and of all that is on the way to a gallery.
Provenance == \A k, look : Held(k, look) \/ Holds(files, k, look) => PutBySome(k, look)

\* A tap that has a number keeps number and picture.
LEMMA NumbersStay ==
  ASSUME TypeOK, [Next]_vars, NEW s \in DOMAIN uploads, uploads[s].stage # "listing"
  PROVE  /\ s \in DOMAIN uploads' /\ uploads'[s].stage # "listing"
         /\ uploads'[s].num = uploads[s].num /\ uploads'[s].look = uploads[s].look
<1> DEFINE Goal == /\ s \in DOMAIN uploads' /\ uploads'[s].stage # "listing"
                   /\ uploads'[s].num = uploads[s].num /\ uploads'[s].look = uploads[s].look
<1>0. \A t \in DOMAIN uploads : uploads[t] \in Upload
  BY DEF TypeOK, IsDict
<1>1. UNCHANGED uploads => Goal
  OBVIOUS
<1>2. ASSUME NEW d \in Device, Restart(d) PROVE Goal
  BY <1>0, <1>2 DEF Restart, Forgotten, Upload
<1>3. ASSUME NEW t \in Save, SaveProgress(t) \/ OrphanLands(t) PROVE Goal
  BY <1>0, <1>3 DEF SaveProgress, ListReply, ListError, StartPut, PutLands, PutAck, PutError,
                    OrphanLands, InStage, Upload
<1>4. ASSUME NEW d \in Device, NEW t \in Save, TapMake(d, t) PROVE Goal
  BY <1>4 DEF TapMake, Updated
<1>5. ASSUME NEW d \in Device,
             OpenMake(d) \/ Cancel(d) \/ AlertOK(d) \/ \E r \in Refresh : StartRefresh(d, r)
      PROVE  UNCHANGED uploads
  BY <1>5 DEF OpenMake, Cancel, AlertOK, StartRefresh
<1>6. ASSUME NEW r \in Refresh, RefreshProgress(r) PROVE UNCHANGED uploads
  BY <1>6 DEF RefreshProgress, ListAnswered, ListingFails, HandleListing, Notify,
              DownloadAnswered, HandleDownload, DownloadFails, DownloadGarbled
<1>7. UNCHANGED vars => UNCHANGED uploads
  BY DEF vars
<1> HIDE DEF Goal
<1>8. Goal
  BY <1>1, <1>2, <1>3, <1>4, <1>5, <1>6, <1>7 DEF Next
<1> QED  BY <1>8 DEF Goal

\* The folder changes when a put lands, under its number and with its picture.
LEMMA FilesSteps ==
  ASSUME [Next]_vars, files' # files
  PROVE  \E s \in Save : /\ PutLands(s) \/ OrphanLands(s)
                         /\ s \in DOMAIN uploads /\ uploads[s].stage \in {"putting", "orphan"}
                         /\ files' = Updated(files, uploads[s].num, uploads[s].look)
<1>1. PICK s \in Save : PutLands(s) \/ OrphanLands(s)
  BY DEF Next, vars, OpenMake, Cancel, AlertOK, Restart, TapMake, StartRefresh, SaveProgress,
         ListReply, ListError, StartPut, PutAck, PutError, RefreshProgress, ListAnswered,
         ListingFails, HandleListing, Notify, DownloadAnswered, HandleDownload, DownloadFails,
         DownloadGarbled
<1> QED  BY <1>1 DEF PutLands, OrphanLands, InStage

LEMMA ProvenanceStep == TypeOK /\ Provenance /\ [Next]_vars => Provenance'
<1> SUFFICES ASSUME TypeOK, Provenance, [Next]_vars, NEW k, NEW look,
                    Held(k, look)' \/ Holds(files', k, look)
             PROVE  PutBySome(k, look)'
  BY DEF Provenance
<1>1. ASSUME PutBySome(k, look) PROVE PutBySome(k, look)'
  BY <1>1, NumbersStay DEF PutBySome
<1>2. CASE Held(k, look) \/ Holds(files, k, look)
  BY <1>1, <1>2 DEF Provenance
<1>3. CASE Holds(files', k, look) /\ ~ Holds(files, k, look)
  <2>1. files' # files
    BY <1>3
  <2>2. PICK s \in Save : /\ s \in DOMAIN uploads /\ uploads[s].stage \in {"putting", "orphan"}
                          /\ files' = Updated(files, uploads[s].num, uploads[s].look)
    BY <2>1, FilesSteps
  <2>3. PutBySome(k, look)
    BY <1>3, <2>2 DEF Holds, Updated, PutBySome
  <2> QED  BY <1>1, <2>3
<1> QED  BY <1>2, <1>3, HeldFrom

\* Every picture a gallery shows was put under its number by some tap.
THEOREM ShownIsSaved == Spec => []ShownWasSaved
<1>1. Init => Provenance
  BY DEF Init, EmptyDict, Provenance, Held, Holds
<1>2. Provenance => ShownWasSaved
  <2> SUFFICES ASSUME Provenance, NEW d \in Device, NEW k \in DOMAIN prevCodiData[d]
               PROVE  \E s \in DOMAIN uploads : /\ uploads[s].num = k
                                                /\ uploads[s].look = prevCodiData[d][k]
    BY DEF ShownWasSaved
  <2>1. Held(k, prevCodiData[d][k])
    BY DEF Held, Holds
  <2> QED  BY <2>1 DEF Provenance, PutBySome
<1> QED  BY <1>1, <1>2, TypeInit, TypeStep, ProvenanceStep, PTL DEF Spec

-----------------------------------------------------------------------------
(* Users who take turns *)

\* At most one tap is not settled; a put of a dead process counts as one.
OneAtATime ==
  \A s, t \in DOMAIN uploads :
    uploads[s].stage \notin Settled /\ uploads[t].stage \notin Settled => s = t

\* A put under way has the number that is next now, not merely when it was listed.
NextInLine ==
  \A s \in DOMAIN uploads :
    uploads[s].stage \in {"putting", "orphan"} => uploads[s].num = Count(files) + 1

\* SavedSetsKept begins when the server has stored the picture.
LandedKept ==
  \A s \in DOMAIN uploads : uploads[s].stage \in {"landed", "saved"} =>
    \E k \in DOMAIN files : files[k] = uploads[s].look

TurnsInv == OneAtATime /\ NextInLine /\ LandedKept

\* The folder is left alone, or a picture is stored under the next number.
LEMMA TurnsFiles ==
  ASSUME TypeOK, NextInLine, [Next]_vars, files' # files
  PROVE  \E s \in DOMAIN uploads : /\ PutLands(s) \/ OrphanLands(s)
                                   /\ uploads[s].look \in Look
                                   /\ files' = Updated(files, Count(files) + 1, uploads[s].look)
<1>1. PICK s \in Save : /\ PutLands(s) \/ OrphanLands(s)
                        /\ s \in DOMAIN uploads /\ uploads[s].stage \in {"putting", "orphan"}
                        /\ files' = Updated(files, uploads[s].num, uploads[s].look)
  BY FilesSteps
<1>2. uploads[s].num = Count(files) + 1 /\ uploads[s].look \in Look
  BY <1>1 DEF NextInLine, TypeOK, IsDict, Upload
<1> QED  BY <1>1, <1>2

\* No picture of the folder is lost or replaced.
LEMMA PicturesStay ==
  ASSUME TypeOK, FolderContiguous, NextInLine, [Next]_vars, NEW k \in DOMAIN files
  PROVE  k \in DOMAIN files' /\ files'[k] = files[k]
<1>1. Count(files) \in Nat /\ k \in 1 .. Count(files)
  BY FS_CardinalityType DEF TypeOK, Count, FolderContiguous
<1>2. CASE files' = files
  BY <1>2
<1>3. CASE files' # files
  <2>1. PICK look : files' = Updated(files, Count(files) + 1, look)
    BY <1>3, TurnsFiles
  <2> QED  BY <1>1, <2>1 DEF Updated
<1> QED  BY <1>2, <1>3

\* What a step makes of the taps when no listing fails.
LEMMA TapSteps ==
  ASSUME "list" \notin Faults, TypeOK, [Next]_vars
  PROVE  \/ UNCHANGED << files, uploads >>
         \/ \E d \in Device : Restart(d) \/ \E s \in Save : TapMake(d, s)
         \/ \E s \in Save : ListReply(s) \/ PutLands(s) \/ PutAck(s) \/ PutError(s) \/ OrphanLands(s)
<1>1. ASSUME NEW d \in Device,
             OpenMake(d) \/ Cancel(d) \/ AlertOK(d) \/ \E r \in Refresh : StartRefresh(d, r)
      PROVE  UNCHANGED << files, uploads >>
  BY <1>1 DEF OpenMake, Cancel, AlertOK, StartRefresh
<1>2. ASSUME NEW r \in Refresh, RefreshProgress(r) PROVE UNCHANGED << files, uploads >>
  BY <1>2 DEF RefreshProgress, ListAnswered, ListingFails, HandleListing, Notify,
              DownloadAnswered, HandleDownload, DownloadFails, DownloadGarbled
<1>3. UNCHANGED vars => UNCHANGED << files, uploads >>
  BY DEF vars
<1>4. ASSUME NEW s \in Save PROVE ~ ListError(s)
  BY DEF ListError
<1> QED  BY <1>1, <1>2, <1>3, <1>4 DEF Next, SaveProgress

LEMMA TurnsStep ==
  ASSUME "list" \notin Faults
  PROVE  TypeOK /\ FolderInv /\ TurnsInv /\ [Next /\ TakingTurns]_vars => TurnsInv'
<1> SUFFICES ASSUME TypeOK, FolderContiguous, TurnsInv, [Next /\ TakingTurns]_vars PROVE TurnsInv'
  BY DEF FolderInv
<1>0. /\ [Next]_vars /\ DOMAIN uploads' # DOMAIN uploads => TakingTurns
      /\ \A s \in DOMAIN uploads : uploads[s] \in Upload
      /\ Settled \cap {"listing", "putting", "landed", "orphan"} = {}
  BY DEF vars, TypeOK, IsDict, Settled
<1>1. CASE UNCHANGED << files, uploads >>
  BY <1>1 DEF TurnsInv, OneAtATime, NextInLine, LandedKept, Count
<1>2. ASSUME NEW d \in Device, NEW s \in Save, TapMake(d, s) PROVE TurnsInv'
  <2>1. /\ s \notin DOMAIN uploads /\ files' = files /\ DOMAIN uploads' = DOMAIN uploads \cup {s}
        /\ uploads'[s].stage = "listing" /\ \A t \in DOMAIN uploads : uploads'[t] = uploads[t]
    BY <1>2 DEF TapMake, Updated
  <2>2. \A t \in DOMAIN uploads : uploads[t].stage \in Settled
    BY <1>0, <2>1 DEF TakingTurns
  <2>3. OneAtATime'
    BY <2>1, <2>2 DEF OneAtATime
  <2>4. NextInLine' /\ LandedKept'
    BY <2>1 DEF TurnsInv, NextInLine, LandedKept, Count
  <2> QED  BY <2>3, <2>4 DEF TurnsInv
<1>3. ASSUME NEW s \in Save, ListReply(s) PROVE TurnsInv'
  <2>1. /\ s \in DOMAIN uploads /\ uploads[s].stage = "listing" /\ files' = files
        /\ DOMAIN uploads' = DOMAIN uploads /\ uploads'[s].num = Count(files) + 1
        /\ uploads'[s].stage = "putting" /\ \A t \in DOMAIN uploads \ {s} : uploads'[t] = uploads[t]
    BY <1>0, <1>3 DEF ListReply, StartPut, InStage, NextNumber, Upload
  <2>2. OneAtATime'
    BY <1>0, <2>1 DEF TurnsInv, OneAtATime
  <2>3. NextInLine' /\ LandedKept'
    BY <2>1 DEF TurnsInv, NextInLine, LandedKept, Count
  <2> QED  BY <2>2, <2>3 DEF TurnsInv
<1>4. ASSUME NEW s \in Save, PutLands(s) \/ OrphanLands(s) PROVE TurnsInv'
  <2>1. /\ s \in DOMAIN uploads /\ uploads[s].stage \in {"putting", "orphan"}
        /\ DOMAIN uploads' = DOMAIN uploads /\ uploads'[s].look = uploads[s].look
        /\ uploads'[s].stage \in {"landed", "lost"}
        /\ \A t \in DOMAIN uploads \ {s} : uploads'[t] = uploads[t]
        /\ files' = Updated(files, uploads[s].num, uploads[s].look)
    BY <1>0, <1>4 DEF PutLands, OrphanLands, InStage, Upload
  <2>2. OneAtATime'
    BY <1>0, <2>1 DEF TurnsInv, OneAtATime
  <2>3. \A t \in DOMAIN uploads \ {s} : uploads[t].stage \in Settled
    BY <1>0, <2>1 DEF TurnsInv, OneAtATime
  <2>4. NextInLine'
    BY <1>0, <2>1, <2>3 DEF NextInLine
  <2>5. LandedKept'
    <3>1. uploads[s].num \in DOMAIN files' /\ files'[uploads[s].num] = uploads[s].look
      BY <2>1 DEF Updated
    <3>2. ASSUME NEW t \in DOMAIN uploads, uploads[t].stage \in {"landed", "saved"}
          PROVE  \E k \in DOMAIN files' : files'[k] = uploads[t].look
      BY <1>0, <3>2, PicturesStay DEF TurnsInv, LandedKept
    <3> QED  BY <2>1, <3>1, <3>2 DEF LandedKept
  <2> QED  BY <2>2, <2>4, <2>5 DEF TurnsInv
<1>5. ASSUME NEW s \in Save, PutAck(s) \/ PutError(s) PROVE TurnsInv'
  <2>1. /\ s \in DOMAIN uploads /\ files' = files /\ DOMAIN uploads' = DOMAIN uploads
        /\ uploads'[s].look = uploads[s].look /\ uploads'[s].num = uploads[s].num
        /\ uploads[s].stage \notin Settled
        /\ uploads'[s].stage = "saved" => uploads[s].stage = "landed"
        /\ \/ uploads'[s].stage \in Settled
           \/ uploads[s].stage = "putting" /\ uploads'[s].stage = "orphan"
        /\ \A t \in DOMAIN uploads \ {s} : uploads'[t] = uploads[t]
    BY <1>0, <1>5 DEF PutAck, PutError, InStage, Upload, Settled
  <2>2. OneAtATime'
    BY <1>0, <2>1 DEF TurnsInv, OneAtATime
  <2>3. NextInLine'
    BY <1>0, <2>1 DEF TurnsInv, NextInLine, Count
  <2>4. LandedKept'
    BY <1>0, <2>1 DEF TurnsInv, LandedKept
  <2> QED  BY <2>2, <2>3, <2>4 DEF TurnsInv
<1>6. ASSUME NEW d \in Device, Restart(d) PROVE TurnsInv'
  <2>1. /\ files' = files /\ DOMAIN uploads' = DOMAIN uploads
        /\ \A t \in DOMAIN uploads :
             /\ uploads'[t].look = uploads[t].look /\ uploads'[t].num = uploads[t].num
             /\ \/ uploads'[t].stage = uploads[t].stage
                \/ uploads[t].stage = "putting" /\ uploads'[t].stage = "orphan"
                \/ uploads[t].stage \in {"listing", "landed"} /\ uploads'[t].stage = "lost"
    BY <1>0, <1>6 DEF Restart, Forgotten, Upload
  <2>2. OneAtATime'
    BY <2>1 DEF TurnsInv, OneAtATime, Settled
  <2>3. NextInLine' /\ LandedKept'
    BY <2>1 DEF TurnsInv, NextInLine, LandedKept, Count
  <2> QED  BY <2>2, <2>3 DEF TurnsInv
<1> QED  BY <1>0, <1>1, <1>2, <1>3, <1>4, <1>5, <1>6, TapSteps

LEMMA TurnsInit == Init => TurnsInv
BY DEF Init, EmptyDict, TurnsInv, OneAtATime, NextInLine, LandedKept

\* What holds however users take turns, as the start of each theorem below.
LEMMA TurnsInvariant ==
  ASSUME "list" \notin Faults
  PROVE  TurnsSpec => [](TypeOK /\ FolderInv /\ TurnsInv)
<1>1. [Next /\ TakingTurns]_vars => [Next]_vars
  OBVIOUS
<1> QED
  BY <1>1, TypeInit, TypeStep, FolderInit, FolderStep, TurnsInit, TurnsStep, PTL DEF TurnsSpec

\* Unless a listing fails, users who take turns lose no set they were told is saved.
THEOREM TurnsKeepSets ==
  ASSUME "list" \notin Faults
  PROVE  TurnsSpec => []SavedSetsKept
<1>1. TurnsInv => SavedSetsKept
  BY DEF TurnsInv, LandedKept, SavedSetsKept
<1> QED  BY <1>1, TurnsInvariant, PTL

\* Unless a listing fails, every write of users who take turns adds a picture.
THEOREM TurnsAppend ==
  ASSUME "list" \notin Faults
  PROVE  TurnsSpec => FolderAppends
<1>1. ASSUME TypeOK, FolderInv, TurnsInv, [Next]_vars
      PROVE  [\E p \in Look : Folder!Add(p)]_files
  BY <1>1, TurnsFiles, StoreAppends DEF FolderInv, TurnsInv
<1>2. [Next /\ TakingTurns]_vars => [Next]_vars
  OBVIOUS
<1> QED
  BY <1>1, <1>2, TurnsInvariant, FolderInitRefines, PTL DEF TurnsSpec, FolderAppends, Folder!AppendSpec

\* GalleryCurrent says this of galleries; it is inductive when it is said of all
\* that is on the way to a gallery.
HeldCurrent == \A k, look : Held(k, look) => Holds(files, k, look)

LEMMA CurrentStep ==
  TypeOK /\ FolderInv /\ TurnsInv /\ HeldCurrent /\ [Next]_vars => HeldCurrent'
<1> SUFFICES ASSUME TypeOK, FolderContiguous, NextInLine, HeldCurrent, [Next]_vars,
                    NEW k, NEW look, Held(k, look)'
             PROVE  Holds(files', k, look)
  BY DEF FolderInv, TurnsInv, HeldCurrent, Holds
<1>1. Holds(files, k, look)
  BY HeldFrom DEF HeldCurrent
<1> QED  BY <1>1, PicturesStay DEF Holds

\* Unless a listing fails, the galleries of users who take turns never show an
\* outdated picture.
THEOREM TurnsStayCurrent ==
  ASSUME "list" \notin Faults
  PROVE  TurnsSpec => []GalleryCurrent
<1>1. Init => HeldCurrent
  BY DEF Init, EmptyDict, HeldCurrent, Held, Holds
<1>2. HeldCurrent => GalleryCurrent
  <2> SUFFICES ASSUME HeldCurrent, NEW d \in Device, NEW k \in DOMAIN prevCodiData[d]
               PROVE  k \in DOMAIN files /\ prevCodiData[d][k] = files[k]
    BY DEF GalleryCurrent
  <2>1. Held(k, prevCodiData[d][k])
    BY DEF Held, Holds
  <2> QED  BY <2>1 DEF HeldCurrent, Holds
<1>3. [Next /\ TakingTurns]_vars => [Next]_vars
  OBVIOUS
<1> QED  BY <1>1, <1>2, <1>3, TurnsInvariant, CurrentStep, PTL DEF TurnsSpec

=============================================================================
