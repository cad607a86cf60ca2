--------------------------- MODULE CodiSetsProofs ---------------------------
(***************************************************************************)
(* Theorems about CodiSets for every number of devices, pictures, taps and *)
(* refreshes, every cache capacity and every choice of faults.             *)
(***************************************************************************)
EXTENDS CodiSets, DictionaryTheorems, FiniteSetTheorems, SequenceTheorems

-----------------------------------------------------------------------------
(* Type correctness *)

\* Moving a refresh on to another well-formed record keeps the table well formed.
LEMMA RefreshUpdate ==
  ASSUME RefreshesOK, NEW r \in DOMAIN refreshes, NEW f, IsRefreshRecord(f),
         refreshes' = [refreshes EXCEPT ![r] = f]
  PROVE  RefreshesOK'
BY DEF RefreshesOK, IsRefreshRecord, IsDict

\* A fresh record is well formed.
LEMMA FreshRecord ==
  ASSUME NEW d \in Device, NEW stage \in RefreshStage, NEW n \in Nat, NEW asked \in SUBSET Nat
  PROVE  IsRefreshRecord(RefreshRecord(d, stage, n, asked))
<1>1. Wanted(n) \ asked \in SUBSET Nat
  BY DEF Wanted
<1> QED  BY <1>1 DEF IsRefreshRecord, RefreshRecord, IsDict, EmptyDict

\* Moving a tap on to another stage keeps the table well formed.
LEMMA UploadUpdate ==
  ASSUME IsDict(uploads, Save, Upload), NEW s \in DOMAIN uploads, NEW u \in Upload,
         uploads' = [uploads EXCEPT ![s] = u]
  PROVE  IsDict(uploads', Save, Upload)
BY DEF IsDict

\* A device's dictionary of pictures is replaced by another one.
LEMMA ImagesUpdate ==
  ASSUME NEW images, ImagesOK(images), NEW d \in Device, NEW f, IsDict(f, Nat, Look)
  PROVE  ImagesOK([images EXCEPT ![d] = f])
BY DEF ImagesOK, IsDict

\* The saving of a set moves one tap on to another record.
LEMMA SaveStepType ==
  ASSUME TypeOK, NEW s \in DOMAIN uploads, NEW u \in Upload,
         uploads' = [uploads EXCEPT ![s] = u],
         \/ files' = files
         \/ \E n \in Nat, look \in Look : files' = Updated(files, n, look),
         UNCHANGED << opened, screen, galleryVars, refreshes >>,
         alert' \in [Device -> {"none", "Success", "Fail"}]
  PROVE  TypeOK'
<1>1. IsDict(uploads', Save, Upload)
  BY UploadUpdate DEF TypeOK
<1>2. IsDict(files', Nat, Look) /\ IsFiniteSet(DOMAIN files')
  <2>1. CASE files' = files
    BY <2>1 DEF TypeOK
  <2>2. ASSUME NEW n \in Nat, NEW look \in Look, files' = Updated(files, n, look)
        PROVE  IsDict(files', Nat, Look) /\ IsFiniteSet(DOMAIN files')
    <3>1. DOMAIN files' = DOMAIN files \cup {n}
      BY <2>2 DEF Updated
    <3>2. IsFiniteSet(DOMAIN files')
      BY <3>1, FS_AddElement DEF TypeOK
    <3> QED  BY <2>2, <3>2 DEF TypeOK, IsDict, Updated
  <2> QED  BY <2>1, <2>2
<1> QED
  BY <1>1, <1>2 DEF TypeOK, ScreensOK, ImagesOK, RefreshesOK, IsRefreshRecord, galleryVars

\* A step of a refresh moves it on to another record and may touch the
\* pictures of one device.
LEMMA RefreshStepType ==
  ASSUME TypeOK, NEW r \in DOMAIN refreshes, NEW f, IsRefreshRecord(f),
         refreshes' = [refreshes EXCEPT ![r] = f],
         UNCHANGED << files, uploads, screenVars >>,
         ImagesOK(codiCache'), ImagesOK(codiImages'), ImagesOK(prevCodiData')
  PROVE  TypeOK'
<1>1. RefreshesOK'
  BY RefreshUpdate DEF TypeOK
<1> QED
  BY <1>1 DEF TypeOK, ScreensOK, ImagesOK, screenVars

LEMMA TypeInit == Init => TypeOK
<1> SUFFICES ASSUME Init PROVE TypeOK
  OBVIOUS
<1> USE DEF Init, EmptyDict
<1>1. ImagesOK(codiCache) /\ ImagesOK(codiImages) /\ ImagesOK(prevCodiData)
  BY DEF ImagesOK, IsDict
<1>2. ScreensOK
  BY DEF ScreensOK
<1>3. RefreshesOK
  BY DEF RefreshesOK
<1>4. IsDict(files, Nat, Look) /\ IsDict(uploads, Save, Upload) /\ IsFiniteSet(DOMAIN files)
  BY FS_EmptySet DEF IsDict
<1> QED  BY <1>1, <1>2, <1>3, <1>4 DEF TypeOK

LEMMA TypeStep == TypeOK /\ [Next]_vars => TypeOK'
<1> SUFFICES ASSUME TypeOK, [Next]_vars PROVE TypeOK'
  OBVIOUS
<1> USE DEF galleryVars, screenVars
<1> DEFINE ImagesType == ImagesOK(codiCache) /\ ImagesOK(codiImages) /\ ImagesOK(prevCodiData)
<1>0. UNCHANGED galleryVars => ImagesType'
  BY DEF TypeOK, ImagesOK
<1>00. UNCHANGED refreshes => RefreshesOK'
  BY DEF TypeOK, RefreshesOK, IsRefreshRecord
<1>1. ASSUME NEW d \in Device, OpenMake(d) \/ Cancel(d) \/ AlertOK(d) PROVE TypeOK'
  <2>1. ScreensOK'
    BY <1>1 DEF TypeOK, ScreensOK, OpenMake, Cancel, AlertOK
  <2> QED  BY <1>1, <1>0, <1>00, <2>1 DEF TypeOK, OpenMake, Cancel, AlertOK
<1>2. ASSUME NEW d \in Device, NEW s \in Save, TapMake(d, s) PROVE TypeOK'
  <2>1. [dev |-> d, look |-> screen[d], stage |-> "listing", num |-> 0] \in Upload
    BY <1>2 DEF TypeOK, ScreensOK, TapMake, Upload, InFlight
  <2>2. IsDict(uploads', Save, Upload)
    BY <1>2, <2>1 DEF TypeOK, IsDict, Updated, TapMake
  <2> QED  BY <1>2, <1>0, <1>00, <2>2 DEF TypeOK, TapMake, ScreensOK
<1>3. ASSUME NEW s \in Save, ListReply(s) \/ ListError(s) PROVE TypeOK'
  <2>1. Count(files) + 1 \in Nat
    BY FS_CardinalityType DEF TypeOK, Count
  <2>2. PICK count \in Nat : count + 1 \in Nat /\ StartPut(s, count)
    BY <1>3, <2>1, FS_CardinalityType DEF ListReply, ListError, TypeOK, Count
  <2> DEFINE u == [uploads[s] EXCEPT !.stage = "putting", !.num = NextNumber(count)]
  <2>3. s \in DOMAIN uploads /\ uploads[s] \in Upload
    BY <2>2 DEF TypeOK, IsDict, StartPut, InStage
  <2>4. u \in Upload
    BY <2>2, <2>3 DEF Upload, InFlight, NextNumber
  <2>5. uploads' = [uploads EXCEPT ![s] = u]
    BY <2>2 DEF StartPut
  <2> HIDE DEF u
  <2>6. alert' \in [Device -> {"none", "Success", "Fail"}]
    BY <2>2 DEF StartPut, TypeOK, ScreensOK
  <2> QED  BY <2>2, <2>3, <2>4, <2>5, <2>6, SaveStepType DEF StartPut
<1>4. ASSUME NEW s \in Save, PutLands(s) \/ OrphanLands(s) PROVE TypeOK'
  <2>1. s \in DOMAIN uploads /\ uploads[s] \in Upload
    BY <1>4 DEF TypeOK, IsDict, PutLands, OrphanLands, InStage
  <2>2. PICK stage \in {"landed", "lost"} : uploads' = [uploads EXCEPT ![s].stage = stage]
    BY <1>4 DEF PutLands, OrphanLands
  <2> DEFINE u == [uploads[s] EXCEPT !.stage = stage]
  <2>3. u \in Upload /\ uploads' = [uploads EXCEPT ![s] = u]
    BY <2>1, <2>2 DEF Upload, InFlight, Settled
  <2>4. \E n \in Nat, look \in Look : files' = Updated(files, n, look)
    BY <1>4, <2>1 DEF PutLands, OrphanLands, Upload
  <2>5. alert' \in [Device -> {"none", "Success", "Fail"}]
    BY <1>4 DEF PutLands, OrphanLands, TypeOK, ScreensOK
  <2> HIDE DEF u
  <2> QED  BY <1>4, <2>1, <2>3, <2>4, <2>5, SaveStepType DEF PutLands, OrphanLands
<1>5. ASSUME NEW s \in Save, PutAck(s) \/ PutError(s) PROVE TypeOK'
  <2>1. s \in DOMAIN uploads /\ uploads[s] \in Upload
    BY <1>5 DEF TypeOK, IsDict, PutAck, PutError, InStage
  <2>2. PICK stage \in {"saved", "failed", "orphan"} : uploads' = [uploads EXCEPT ![s].stage = stage]
    BY <1>5 DEF PutAck, PutError
  <2> DEFINE u == [uploads[s] EXCEPT !.stage = stage]
  <2>3. u \in Upload /\ uploads' = [uploads EXCEPT ![s] = u]
    BY <2>1, <2>2 DEF Upload, InFlight, Settled
  <2>4. alert' \in [Device -> {"none", "Success", "Fail"}]
    BY <1>5, <2>1 DEF PutAck, PutError, PresentAlert, TypeOK, ScreensOK, Upload
  <2> HIDE DEF u
  <2> QED  BY <1>5, <2>1, <2>3, <2>4, SaveStepType DEF PutAck, PutError
<1>6. ASSUME NEW d \in Device, NEW r \in Refresh, StartRefresh(d, r) PROVE TypeOK'
  <2>1. IsRefreshRecord(RefreshRecord(d, "listing", 0, {}))
    BY FreshRecord DEF RefreshStage
  <2>2. RefreshesOK'
    BY <1>6, <2>1 DEF TypeOK, RefreshesOK, StartRefresh, Updated, IsRefreshRecord
  <2> QED  BY <1>6, <1>0, <2>2 DEF TypeOK, StartRefresh, ScreensOK
<1>7. ASSUME NEW r \in Refresh, ListAnswered(r) \/ ListingFails(r) PROVE TypeOK'
  <2>1. r \in DOMAIN refreshes /\ IsRefreshRecord(refreshes[r])
    BY <1>7 DEF TypeOK, RefreshesOK, ListAnswered, ListingFails, IsRefresh
  <2>2. PICK f : IsRefreshRecord(f) /\ refreshes' = [refreshes EXCEPT ![r] = f]
    <3>1. CASE ListAnswered(r)
      <4> DEFINE f == [refreshes[r] EXCEPT !.stage = "listed", !.n = Count(files)]
      <4>1. Count(files) \in Nat
        BY FS_CardinalityType DEF TypeOK, Count
      <4>2. IsRefreshRecord(f)
        BY <2>1, <4>1 DEF IsRefreshRecord, RefreshStage
      <4>3. refreshes' = [refreshes EXCEPT ![r] = f]
        BY <3>1 DEF ListAnswered
      <4> QED  BY <4>2, <4>3
    <3>2. CASE ListingFails(r)
      BY <2>1, <3>2, FreshRecord DEF ListingFails, Finish, RefreshStage, IsRefreshRecord
    <3> QED  BY <1>7, <3>1, <3>2
  <2> QED  BY <1>7, <1>0, <2>1, <2>2, RefreshStepType DEF TypeOK, ListAnswered, ListingFails
<1>8. ASSUME NEW r \in Refresh, HandleListing(r) PROVE TypeOK'
  <2> DEFINE d == refreshes[r].dev
             n == refreshes[r].n
             hits == Wanted(n) \cap DOMAIN codiCache[d]
  <2>1. r \in DOMAIN refreshes /\ d \in Device /\ n \in Nat
    BY <1>8 DEF TypeOK, RefreshesOK, IsRefreshRecord, HandleListing, IsRefresh
  <2>2. CASE n = 0
    <3>1. IsRefreshRecord(RefreshRecord(d, "dropped", 0, {}))
      BY <2>1, FreshRecord DEF RefreshStage
    <3>2. refreshes' = [refreshes EXCEPT ![r] = RefreshRecord(d, "dropped", 0, {})]
          /\ UNCHANGED << files, uploads, screenVars, galleryVars >>
      BY <1>8, <2>2 DEF HandleListing, Finish
    <3> QED  BY <1>0, <2>1, <3>1, <3>2, RefreshStepType DEF TypeOK
  <2>3. CASE n # 0
    <3> DEFINE f == RefreshRecord(d, "loading", n, Wanted(n) \ hits)
               shown == Overlaid(codiImages[d], Kept(codiCache[d], hits))
    <3>1. IsRefreshRecord(f)
      <4>1. Wanted(n) \ hits \in SUBSET Nat
        BY <2>1 DEF Wanted
      <4> QED  BY <2>1, <4>1, FreshRecord DEF RefreshStage
    <3>2. /\ refreshes' = [refreshes EXCEPT ![r] = f]
          /\ codiImages' = [codiImages EXCEPT ![d] = shown]
          /\ UNCHANGED << files, uploads, screenVars, codiCache, prevCodiData >>
      BY <1>8, <2>3 DEF HandleListing
    <3>3. IsDict(shown, Nat, Look)
      BY <2>1 DEF TypeOK, ImagesOK, IsDict, Overlaid, Kept
    <3> HIDE DEF f, shown
    <3>4. ImagesOK(codiImages')
      BY <2>1, <3>2, <3>3, ImagesUpdate DEF TypeOK
    <3>5. ImagesOK(codiCache') /\ ImagesOK(prevCodiData')
      BY <3>2 DEF TypeOK
    <3> QED  BY <2>1, <3>1, <3>2, <3>4, <3>5, RefreshStepType
  <2> QED  BY <2>2, <2>3
<1>9. ASSUME NEW r \in Refresh, NEW i \in Wanted(refreshes[r].n), DownloadAnswered(r, i)
      PROVE  TypeOK'
  <2>1. r \in DOMAIN refreshes /\ IsRefreshRecord(refreshes[r]) /\ i \in DOMAIN files
        /\ files[i] \in Look /\ i \in Nat
    BY <1>9 DEF TypeOK, RefreshesOK, DownloadAnswered, IsRefresh, IsDict
  <2> DEFINE f == [refreshes[r] EXCEPT !.asked = @ \ {i}, !.got = Updated(@, i, files[i])]
  <2>2. IsDict(Updated(refreshes[r].got, i, files[i]), Nat, Look)
    BY <2>1 DEF IsRefreshRecord, IsDict, Updated
  <2>3. IsRefreshRecord(f)
    BY <2>1, <2>2 DEF IsRefreshRecord
  <2>4. refreshes' = [refreshes EXCEPT ![r] = f]
    BY <1>9 DEF DownloadAnswered
  <2> HIDE DEF f
  <2> QED  BY <1>9, <1>0, <2>1, <2>3, <2>4, RefreshStepType DEF TypeOK, DownloadAnswered
<1>10. ASSUME NEW r \in Refresh, NEW i \in Wanted(refreshes[r].n), HandleDownload(r, i)
       PROVE  TypeOK'
  <2> DEFINE d == refreshes[r].dev
             got == refreshes[r].got
             f == [refreshes[r] EXCEPT !.left = @ - 1, !.got = Kept(@, DOMAIN got \ {i})]
  <2>1. /\ r \in DOMAIN refreshes /\ IsRefreshRecord(refreshes[r]) /\ d \in Device
        /\ i \in DOMAIN got /\ i \in Nat /\ got[i] \in Look
    BY <1>10 DEF TypeOK, RefreshesOK, IsRefreshRecord, HandleDownload, IsRefresh, IsDict
  <2>2. IsRefreshRecord(f)
    <3>1. IsDict(Kept(got, DOMAIN got \ {i}), Nat, Look)
      BY <2>1 DEF IsRefreshRecord, IsDict, Kept
    <3>2. refreshes[r].left - 1 \in Int
      BY <2>1 DEF IsRefreshRecord
    <3> QED  BY <2>1, <3>1, <3>2 DEF IsRefreshRecord
  <2>3. refreshes' = [refreshes EXCEPT ![r] = f]
    BY <1>10 DEF HandleDownload
  <2> HIDE DEF f
  <2>4. ImagesOK(codiImages')
    <3>1. IsDict(KeepImage(codiImages[d], i, got[i]), Nat, Look)
      BY <2>1 DEF TypeOK, ImagesOK, IsDict, KeepImage, Updated
    <3>2. codiImages' = [codiImages EXCEPT ![d] = KeepImage(codiImages[d], i, got[i])]
      BY <1>10 DEF HandleDownload
    <3> HIDE DEF d, got
    <3> QED  BY <2>1, <3>1, <3>2, ImagesUpdate DEF TypeOK
  <2>5. ImagesOK(codiCache')
    <3>1. PICK cache \in CachePuts(codiCache[d], i, got[i], CacheCapacity) :
             codiCache' = [codiCache EXCEPT ![d] = cache]
      BY <1>10 DEF HandleDownload
    <3>2. IsDict(codiCache[d], Nat, Look)
      BY <2>1 DEF TypeOK, ImagesOK
    <3> HIDE DEF d, got
    <3>3. IsDict(cache, Nat, Look)
      BY <2>1, <3>1, <3>2, CachePutDict, Zenon
    <3> QED  BY <2>1, <3>1, <3>3, ImagesUpdate DEF TypeOK
  <2> QED  BY <1>10, <2>1, <2>2, <2>3, <2>4, <2>5, RefreshStepType DEF TypeOK, HandleDownload
<1>11. ASSUME NEW r \in Refresh, NEW i \in Wanted(refreshes[r].n),
              DownloadFails(r, i) \/ DownloadGarbled(r, i)
       PROVE  TypeOK'
  <2>1. r \in DOMAIN refreshes /\ IsRefreshRecord(refreshes[r]) /\ i \in Nat
    BY <1>11 DEF TypeOK, RefreshesOK, IsRefreshRecord, DownloadFails, DownloadGarbled, IsRefresh
  <2>2. PICK f : IsRefreshRecord(f) /\ refreshes' = [refreshes EXCEPT ![r] = f]
    <3>1. CASE DownloadFails(r, i)
      <4> DEFINE f == [refreshes[r] EXCEPT !.left = @ - 1, !.asked = @ \ {i},
                                           !.failed = @ \cup {i}]
      <4>1. refreshes[r].left - 1 \in Int
        BY <2>1 DEF IsRefreshRecord
      <4>2. IsRefreshRecord(f)
        BY <2>1, <4>1 DEF IsRefreshRecord
      <4>3. refreshes' = [refreshes EXCEPT ![r] = f]
        BY <3>1 DEF DownloadFails
      <4> QED  BY <4>2, <4>3
    <3>2. CASE DownloadGarbled(r, i)
      <4> DEFINE f == [refreshes[r] EXCEPT !.asked = @ \ {i}, !.stranded = @ \cup {i}]
      <4>1. IsRefreshRecord(f)
        BY <2>1 DEF IsRefreshRecord
      <4>2. refreshes' = [refreshes EXCEPT ![r] = f]
        BY <3>2 DEF DownloadGarbled
      <4> QED  BY <4>1, <4>2
    <3> QED  BY <1>11, <3>1, <3>2
  <2> QED
    BY <1>11, <1>0, <2>1, <2>2, RefreshStepType DEF TypeOK, DownloadFails, DownloadGarbled
<1>12. ASSUME NEW r \in Refresh, Notify(r) PROVE TypeOK'
  <2> DEFINE d == refreshes[r].dev
  <2>1. r \in DOMAIN refreshes /\ d \in Device
    BY <1>12 DEF TypeOK, RefreshesOK, IsRefreshRecord, Notify, IsRefresh
  <2>2. IsRefreshRecord(RefreshRecord(d, "done", 0, {}))
    BY <2>1, FreshRecord DEF RefreshStage
  <2>3. /\ refreshes' = [refreshes EXCEPT ![r] = RefreshRecord(d, "done", 0, {})]
        /\ prevCodiData' = [prevCodiData EXCEPT ![d] = codiImages[d]]
        /\ UNCHANGED << files, uploads, screenVars, codiCache, codiImages >>
    BY <1>12 DEF Notify, Finish
  <2> HIDE DEF d
  <2>4. IsDict(codiImages[d], Nat, Look)
    BY <2>1 DEF TypeOK, ImagesOK
  <2>5. ImagesOK(prevCodiData')
    BY <2>1, <2>3, <2>4, ImagesUpdate DEF TypeOK
  <2>6. ImagesOK(codiCache') /\ ImagesOK(codiImages')
    BY <2>3 DEF TypeOK
  <2> QED  BY <2>1, <2>2, <2>3, <2>5, <2>6, RefreshStepType
<1>13. ASSUME NEW d \in Device, Restart(d) PROVE TypeOK'
  <2>1. IsDict(uploads', Save, Upload)
    <3>1. ASSUME NEW s \in DOMAIN uploads PROVE Forgotten(uploads[s]) \in Upload
      BY DEF TypeOK, IsDict, Upload, Forgotten, InFlight, Settled
    <3> QED  BY <1>13, <3>1 DEF TypeOK, IsDict, Restart
  <2>2. ScreensOK'
    BY <1>13 DEF TypeOK, ScreensOK, Restart
  <2>3. ImagesType'
    <3>1. IsDict(EmptyDict, Nat, Look)
      BY DEF IsDict, EmptyDict
    <3>2. /\ codiCache' = [codiCache EXCEPT ![d] = EmptyDict]
          /\ codiImages' = [codiImages EXCEPT ![d] = EmptyDict]
          /\ prevCodiData' = [prevCodiData EXCEPT ![d] = EmptyDict]
      BY <1>13 DEF Restart
    <3> QED  BY <3>1, <3>2, ImagesUpdate DEF TypeOK
  <2>4. RefreshesOK'
    <3>1. IsRefreshRecord(RefreshRecord(d, "dropped", 0, {}))
      BY FreshRecord DEF RefreshStage
    <3> QED  BY <1>13, <3>1 DEF TypeOK, RefreshesOK, Restart
  <2> QED  BY <1>13, <2>1, <2>2, <2>3, <2>4 DEF TypeOK, Restart
<1>14. CASE UNCHANGED vars
  BY <1>14, <1>0, <1>00 DEF TypeOK, vars, ScreensOK
<1> QED
  BY <1>1, <1>2, <1>3, <1>4, <1>5, <1>6, <1>7, <1>8, <1>9, <1>10, <1>11, <1>12, <1>13, <1>14
  DEF Next, SaveProgress, RefreshProgress

\* The folder, the taps, the screens, DataManager, its cache and the refreshes
\* keep their types.
THEOREM TypeCorrect == Spec => []TypeOK
BY TypeInit, TypeStep, PTL DEF Spec

-----------------------------------------------------------------------------
(* The folder has no gap *)

\* FolderContiguous alone is not inductive: a put under way was numbered by an
\* old count.  It never reaches beyond the next number, for files are only added.
PutsInReach ==
  \A s \in DOMAIN uploads :
    uploads[s].stage \in {"putting", "orphan"} => uploads[s].num \in 1 .. Count(files) + 1

FolderInv == FolderContiguous /\ PutsInReach

\* Storing under a number that is in use, or the next one, leaves no gap.
LEMMA StoreContiguous ==
  ASSUME TypeOK, FolderContiguous, NEW k \in 1 .. Count(files) + 1, NEW look \in Look,
         files' = Updated(files, k, look)
  PROVE  /\ FolderContiguous'
         /\ Count(files)' = IF k <= Count(files) THEN Count(files) ELSE Count(files) + 1
<1> DEFINE n == Count(files)
<1>1. n \in Nat
  BY FS_CardinalityType DEF TypeOK, Count
<1>2. DOMAIN files' = DOMAIN files \cup {k} /\ DOMAIN files = 1 .. n
  BY DEF Updated, FolderContiguous
<1> HIDE DEF n
<1>3. CASE k <= n
  <2>1. DOMAIN files' = DOMAIN files
    BY <1>1, <1>2, <1>3
  <2>2. Count(files)' = n
    BY <2>1 DEF Count, n
  <2> QED  BY <1>2, <1>3, <2>1, <2>2 DEF FolderContiguous, n
<1>4. CASE ~ (k <= n)
  <2>1. k = n + 1
    BY <1>1, <1>4 DEF n
  <2>2. DOMAIN files' = 1 .. n + 1
    BY <1>1, <1>2, <2>1
  <2>3. Cardinality(1 .. n + 1) = n + 1
    BY <1>1, FS_Interval
  <2>4. Count(files)' = n + 1
    BY <2>2, <2>3 DEF Count
  <2> QED  BY <1>4, <2>2, <2>4 DEF FolderContiguous, n
<1> QED  BY <1>3, <1>4

LEMMA FolderInit == Init => FolderInv
<1> SUFFICES ASSUME Init PROVE FolderInv
  OBVIOUS
<1>1. DOMAIN files = {} /\ DOMAIN uploads = {}
  BY DEF Init, EmptyDict
<1>2. Count(files) = 0
  BY <1>1, FS_EmptySet DEF Count
<1> QED  BY <1>1, <1>2 DEF FolderInv, FolderContiguous, PutsInReach

LEMMA FolderStep == TypeOK /\ FolderInv /\ [Next]_vars => FolderInv'
<1> SUFFICES ASSUME TypeOK, FolderInv, [Next]_vars PROVE FolderInv'
  OBVIOUS
<1> USE DEF galleryVars, screenVars
<1>0. Count(files) \in Nat
  BY FS_CardinalityType DEF TypeOK, Count
\* Steps that leave the folder alone and number no put.
<1>1. ASSUME files' = files,
             \A s \in DOMAIN uploads' : uploads'[s].stage \in {"putting", "orphan"} =>
               /\ s \in DOMAIN uploads
               /\ uploads[s].stage \in {"putting", "orphan"}
               /\ uploads'[s].num = uploads[s].num
      PROVE  FolderInv'
  BY <1>1 DEF FolderInv, FolderContiguous, PutsInReach, Count
<1>2. ASSUME NEW d \in Device, NEW s \in Save, TapMake(d, s) PROVE FolderInv'
  BY <1>1, <1>2 DEF TapMake, Updated
<1>3. ASSUME NEW s \in Save, ListReply(s) \/ ListError(s) PROVE FolderInv'
  <2>1. uploads' = [uploads EXCEPT ![s].stage = "putting", ![s].num = uploads'[s].num]
        /\ uploads'[s].num \in 1 .. Count(files) + 1 /\ files' = files
    BY <1>0, <1>3 DEF TypeOK, IsDict, Upload, ListReply, ListError, StartPut, InStage, NextNumber
  <2> QED
    BY <2>1 DEF FolderInv, FolderContiguous, PutsInReach, Count, TypeOK, IsDict, Upload
<1>4. ASSUME NEW s \in Save, PutLands(s) \/ OrphanLands(s) PROVE FolderInv'
  <2>1. /\ s \in DOMAIN uploads /\ uploads[s].num \in 1 .. Count(files) + 1
        /\ files' = Updated(files, uploads[s].num, uploads[s].look) /\ uploads[s].look \in Look
    BY <1>4 DEF FolderInv, PutsInReach, PutLands, OrphanLands, InStage, TypeOK, IsDict, Upload
  <2>2. FolderContiguous' /\ Count(files)' \in Nat /\ Count(files)' >= Count(files)
    BY <1>0, <2>1, StoreContiguous DEF FolderInv
  <2>3. ASSUME NEW t \in DOMAIN uploads', uploads'[t].stage \in {"putting", "orphan"}
        PROVE  t \in DOMAIN uploads /\ uploads'[t] = uploads[t]
    BY <1>4, <2>3 DEF PutLands, OrphanLands, TypeOK, IsDict, Upload
  <2> QED  BY <1>0, <2>2, <2>3 DEF FolderInv, PutsInReach
<1>5. ASSUME NEW s \in Save, PutAck(s) \/ PutError(s) PROVE FolderInv'
  BY <1>1, <1>5 DEF PutAck, PutError, TypeOK, IsDict, Upload
<1>6. ASSUME NEW d \in Device, Restart(d) PROVE FolderInv'
  <2>1. ASSUME NEW s \in DOMAIN uploads
        PROVE  /\ Forgotten(uploads[s]).num = uploads[s].num
               /\ Forgotten(uploads[s]).stage \in {"putting", "orphan"}
                    => uploads[s].stage \in {"putting", "orphan"}
    BY DEF Forgotten, TypeOK, IsDict, Upload, InFlight, Settled
  <2> QED  BY <1>1, <1>6, <2>1 DEF Restart
<1>7. CASE UNCHANGED << files, uploads >>
  BY <1>1, <1>7
<1>8. ASSUME NEW d \in Device,
             OpenMake(d) \/ Cancel(d) \/ AlertOK(d) \/ \E r \in Refresh : StartRefresh(d, r)
      PROVE  FolderInv'
  BY <1>7, <1>8 DEF OpenMake, Cancel, AlertOK, StartRefresh
<1>9. ASSUME NEW r \in Refresh, RefreshProgress(r) PROVE FolderInv'
  BY <1>7, <1>9 DEF RefreshProgress, ListAnswered, ListingFails, HandleListing, Notify,
                   DownloadAnswered, HandleDownload, DownloadFails, DownloadGarbled
<1> QED
  BY <1>2, <1>3, <1>4, <1>5, <1>6, <1>7, <1>8, <1>9 DEF Next, SaveProgress, vars

\* However saves race, fail or outlive their process, the folder has no gap.
THEOREM FolderIsContiguous == Spec => []FolderContiguous
<1>1. FolderInv => FolderContiguous
  BY DEF FolderInv
<1> QED  BY <1>1, TypeInit, TypeStep, FolderInit, FolderStep, PTL DEF Spec

-----------------------------------------------------------------------------
(* The folder implements the abstract one *)

\* Storing under the next number adds a picture to the list.
LEMMA StoreAppends ==
  ASSUME TypeOK, FolderContiguous, NEW look \in Look,
         files' = Updated(files, Count(files) + 1, look)
  PROVE  Folder!Add(look)
<1> DEFINE n == Count(files)
<1>1. n \in Nat
  BY FS_CardinalityType DEF TypeOK, Count
<1>2. files \in [1 .. n -> Look] /\ files' = Updated(files, n + 1, look)
  BY DEF TypeOK, IsDict, FolderContiguous
<1> HIDE DEF n
<1>3. files \in Seq(Look) /\ Len(files) = n
  BY <1>1, <1>2
<1>4. files' = [x \in 1 .. n + 1 |-> IF x = n + 1 THEN look ELSE files[x]]
  BY <1>1, <1>2 DEF Updated
<1>5. Append(files, look) \in [1 .. n + 1 -> Look]
  <2>1. Append(files, look) \in Seq(Look) /\ Len(Append(files, look)) = n + 1
    BY <1>3, AppendProperties
  <2> QED  BY <2>1, LenProperties
<1>6. \A x \in 1 .. n + 1 : Append(files, look)[x] = IF x = n + 1 THEN look ELSE files[x]
  BY <1>1, <1>3
<1>7. files' = Append(files, look)
  BY <1>4, <1>5, <1>6
<1> QED  BY <1>7 DEF Folder!Add

\* Storing under a number in use replaces a picture, under the next one adds it.
LEMMA StoreRefines ==
  ASSUME TypeOK, FolderContiguous, NEW k \in 1 .. Count(files) + 1, NEW look \in Look,
         files' = Updated(files, k, look)
  PROVE  Folder!Next
<1>1. Count(files) \in Nat /\ files \in [1 .. Count(files) -> Look]
  BY FS_CardinalityType DEF TypeOK, Count, IsDict, FolderContiguous
<1>2. CASE k \in 1 .. Count(files)
  <2>1. files' = [files EXCEPT ![k] = look] /\ k \in DOMAIN files
    BY <1>1, <1>2 DEF Updated
  <2> QED  BY <2>1 DEF Folder!Next, Folder!Replace
<1>3. CASE k = Count(files) + 1
  BY <1>3, StoreAppends DEF Folder!Next
<1> QED  BY <1>1, <1>2, <1>3

LEMMA FolderInitRefines == Init => Folder!Init
BY DEF Init, EmptyDict, Folder!Init

LEMMA FolderStepRefines == TypeOK /\ FolderInv /\ [Next]_vars => [Folder!Next]_files
<1> SUFFICES ASSUME TypeOK, FolderInv, [Next]_vars, files' # files PROVE Folder!Next
  OBVIOUS
<1>1. PICK s \in Save : PutLands(s) \/ OrphanLands(s)
  BY DEF Next, vars, OpenMake, Cancel, AlertOK, Restart, TapMake, StartRefresh, SaveProgress,
         ListReply, ListError, StartPut, PutAck, PutError, RefreshProgress, ListAnswered,
         ListingFails, HandleListing, Notify, DownloadAnswered, HandleDownload, DownloadFails,
         DownloadGarbled
<1>2. /\ uploads[s].num \in 1 .. Count(files) + 1 /\ uploads[s].look \in Look
      /\ files' = Updated(files, uploads[s].num, uploads[s].look)
  BY <1>1 DEF FolderInv, PutsInReach, PutLands, OrphanLands, InStage, TypeOK, IsDict, Upload
<1> QED  BY <1>2, StoreRefines DEF FolderInv

\* Every write to the folder replaces a picture of a gapless list or adds one.
THEOREM FolderRefines == Spec => FolderSpec
BY TypeInit, TypeStep, FolderInit, FolderStep, FolderInitRefines, FolderStepRefines, PTL
DEF Spec, FolderSpec, Folder!Spec

-----------------------------------------------------------------------------
(* Nothing is asked for that is not there *)

\* A listing may be old when it is used, but files are only added: its count
\* is one the folder has reached.
ListingsReached == \A r \in DOMAIN refreshes : refreshes[r].n <= Count(files)

RequestInv == ListingsReached /\ NoMissingDownload

\* The folder only grows.
LEMMA FolderGrows ==
  ASSUME TypeOK, FolderInv, [Next]_vars
  PROVE  DOMAIN files \subseteq DOMAIN files' /\ Count(files) <= Count(files')
<1>1. DOMAIN files \subseteq DOMAIN files'
  BY DEF Updated, Next, vars, OpenMake, Cancel, AlertOK, Restart, TapMake, StartRefresh,
         SaveProgress, ListReply, ListError, StartPut, PutLands, OrphanLands, PutAck, PutError,
         RefreshProgress, ListAnswered, ListingFails, HandleListing, Notify, DownloadAnswered,
         HandleDownload, DownloadFails, DownloadGarbled
<1>2. IsFiniteSet(DOMAIN files')
  BY TypeStep DEF TypeOK
<1> QED  BY <1>1, <1>2, FS_Subset DEF Count

LEMMA RequestStep == TypeOK /\ FolderInv /\ RequestInv /\ [Next]_vars => RequestInv'
<1> SUFFICES ASSUME TypeOK, FolderInv, RequestInv, [Next]_vars PROVE RequestInv'
  OBVIOUS
<1> USE DEF galleryVars, screenVars
<1>0. /\ DOMAIN files \subseteq DOMAIN files' /\ Count(files) <= Count(files')
      /\ Count(files) \in Nat /\ Count(files') \in Nat /\ DOMAIN files = 1 .. Count(files)
  BY FolderGrows, TypeStep, FS_CardinalityType DEF TypeOK, Count, FolderInv, FolderContiguous
\* Every record of a refresh goes by a count the folder had and asks for files
\* it had, before this step.
<1>1. ASSUME \A r \in DOMAIN refreshes' :
               /\ refreshes'[r].n \in Nat
               /\ refreshes'[r].n <= Count(files)
               /\ refreshes'[r].asked \subseteq DOMAIN files
      PROVE  RequestInv'
  BY <1>0, <1>1 DEF RequestInv, ListingsReached, NoMissingDownload
<1>2. \A r \in DOMAIN refreshes : /\ refreshes[r].n \in Nat
                                  /\ refreshes[r].n <= Count(files)
                                  /\ refreshes[r].asked \subseteq DOMAIN files
  BY DEF TypeOK, RefreshesOK, IsRefreshRecord, RequestInv, ListingsReached, NoMissingDownload
<1>3. \A d, stage : RefreshRecord(d, stage, 0, {}).n = 0 /\ RefreshRecord(d, stage, 0, {}).asked = {}
  BY DEF RefreshRecord
<1>4. CASE UNCHANGED refreshes
  BY <1>1, <1>2, <1>4
<1>5. ASSUME NEW d \in Device, NEW r \in Refresh, StartRefresh(d, r) PROVE RequestInv'
  BY <1>0, <1>1, <1>2, <1>3, <1>5 DEF StartRefresh, Updated
<1>6. ASSUME NEW r \in Refresh, ListAnswered(r) PROVE RequestInv'
  BY <1>0, <1>1, <1>2, <1>6 DEF ListAnswered, TypeOK, RefreshesOK, IsRefreshRecord
<1>7. ASSUME NEW r \in Refresh, ListingFails(r) \/ Notify(r) PROVE RequestInv'
  BY <1>0, <1>1, <1>2, <1>3, <1>7 DEF ListingFails, Notify, Finish
<1>8. ASSUME NEW r \in Refresh, HandleListing(r) PROVE RequestInv'
  <2>1. r \in DOMAIN refreshes
    BY <1>8 DEF HandleListing, IsRefresh
  <2>2. CASE refreshes[r].n = 0
    BY <1>0, <1>1, <1>2, <1>3, <1>8, <2>1, <2>2 DEF HandleListing, Finish
  <2>3. CASE refreshes[r].n # 0
    <3>1. PICK asked \in SUBSET Wanted(refreshes[r].n) :
             refreshes' = [refreshes EXCEPT ![r] =
                             RefreshRecord(refreshes[r].dev, "loading", refreshes[r].n, asked)]
      BY <1>8, <2>3 DEF HandleListing
    <3>2. asked \subseteq DOMAIN files
      BY <1>0, <1>2, <2>1 DEF Wanted
    <3> QED  BY <1>1, <1>2, <2>1, <3>1, <3>2 DEF RefreshRecord
  <2> QED  BY <2>2, <2>3
<1>9. ASSUME NEW r \in Refresh, NEW i \in Wanted(refreshes[r].n),
             \/ DownloadAnswered(r, i) \/ HandleDownload(r, i)
             \/ DownloadFails(r, i) \/ DownloadGarbled(r, i)
      PROVE  RequestInv'
  BY <1>1, <1>2, <1>9 DEF DownloadAnswered, HandleDownload, DownloadFails, DownloadGarbled,
                          IsRefresh, TypeOK, RefreshesOK, IsRefreshRecord
<1>10. ASSUME NEW d \in Device, Restart(d) PROVE RequestInv'
  BY <1>0, <1>1, <1>2, <1>3, <1>10 DEF Restart
<1>11. CASE UNCHANGED vars
  BY <1>4, <1>11 DEF vars
<1>12. ASSUME NEW d \in Device,
              OpenMake(d) \/ Cancel(d) \/ AlertOK(d) \/ \E s \in Save : TapMake(d, s)
       PROVE  RequestInv'
  BY <1>4, <1>12 DEF OpenMake, Cancel, AlertOK, TapMake
<1>13. ASSUME NEW s \in Save, SaveProgress(s) \/ OrphanLands(s) PROVE RequestInv'
  BY <1>4, <1>13 DEF SaveProgress, ListReply, ListError, StartPut, PutLands, PutAck, PutError,
                     OrphanLands
<1> QED
  BY <1>5, <1>6, <1>7, <1>8, <1>9, <1>10, <1>11, <1>12, <1>13 DEF Next, RefreshProgress

\* The gallery never asks Storage for a file that is not there.
THEOREM NothingMissing == Spec => []NoMissingDownload
<1>1. Init => RequestInv
  BY DEF Init, EmptyDict, RequestInv, ListingsReached, NoMissingDownload
<1>2. RequestInv => NoMissingDownload
  BY DEF RequestInv
<1> QED  BY <1>1, <1>2, TypeInit, TypeStep, FolderInit, FolderStep, RequestStep, PTL DEF Spec

-----------------------------------------------------------------------------
(* The cache and DataManager agree *)

LEMMA CacheStep == TypeOK /\ CacheAgrees /\ [Next]_vars => CacheAgrees'
<1> SUFFICES ASSUME TypeOK, CacheAgrees, [Next]_vars PROVE CacheAgrees'
  OBVIOUS
<1> USE DEF galleryVars, screenVars
<1>0. ASSUME NEW d \in Device
      PROVE  IsDict(codiCache[d], Nat, Look) /\ IsDict(codiImages[d], Nat, Look)
  BY DEF TypeOK, ImagesOK
<1>1. CASE UNCHANGED << codiCache, codiImages >>
  BY <1>1 DEF CacheAgrees
\* The pictures of one device change.
<1>2. ASSUME NEW d \in Device,
             \A e \in Device \ {d} : codiCache'[e] = codiCache[e] /\ codiImages'[e] = codiImages[e],
             \A k \in DOMAIN codiCache'[d] :
               k \in DOMAIN codiImages'[d] /\ codiImages'[d][k] = codiCache'[d][k]
      PROVE  CacheAgrees'
  BY <1>2 DEF CacheAgrees
<1>3. ASSUME NEW r \in Refresh, HandleListing(r) PROVE CacheAgrees'
  <2> DEFINE d == refreshes[r].dev
             hits == Wanted(refreshes[r].n) \cap DOMAIN codiCache[d]
             images == Overlaid(codiImages[d], Kept(codiCache[d], hits))
  <2>1. d \in Device
    BY <1>3 DEF TypeOK, RefreshesOK, IsRefreshRecord, HandleListing, IsRefresh
  <2>2. CASE refreshes[r].n = 0
    BY <1>1, <1>3, <2>2 DEF HandleListing
  <2>3. CASE refreshes[r].n # 0
    <3>1. codiImages' = [codiImages EXCEPT ![d] = images] /\ codiCache' = codiCache
      BY <1>3, <2>3 DEF HandleListing
    <3>2. ASSUME NEW k \in DOMAIN codiCache[d]
          PROVE  k \in DOMAIN images /\ images[k] = codiCache[d][k]
      BY <2>1 DEF CacheAgrees, Overlaid, Kept
    <3> HIDE DEF images, d
    <3> QED  BY <1>2, <2>1, <3>1, <3>2 DEF TypeOK, ImagesOK
  <2> QED  BY <2>2, <2>3
<1>4. ASSUME NEW r \in Refresh, NEW i \in Wanted(refreshes[r].n), HandleDownload(r, i)
      PROVE  CacheAgrees'
  <2> DEFINE d == refreshes[r].dev
             image == refreshes[r].got[i]
             images == KeepImage(codiImages[d], i, image)
  <2>1. d \in Device /\ i \in Nat /\ image \in Look
    BY <1>4 DEF TypeOK, RefreshesOK, IsRefreshRecord, HandleDownload, IsRefresh, IsDict
  <2>2. /\ codiImages' = [codiImages EXCEPT ![d] = images]
        /\ \E cache \in CachePuts(codiCache[d], i, image, CacheCapacity) :
             codiCache' = [codiCache EXCEPT ![d] = cache]
    BY <1>4 DEF HandleDownload
  <2>3. PICK cache \in CachePuts(codiCache[d], i, image, CacheCapacity) :
             codiCache' = [codiCache EXCEPT ![d] = cache]
    BY <2>2
  <2>4. IsDict(codiCache[d], Nat, Look)
    BY <1>0, <2>1
  <2> HIDE DEF d, image
  <2>5. ASSUME NEW x \in DOMAIN cache
        PROVE  IF x = i THEN cache[x] = image
                        ELSE x \in DOMAIN codiCache[d] /\ cache[x] = codiCache[d][x]
    BY <2>1, <2>3, <2>4, CachePutEntries
  <2>6. \A k \in DOMAIN cache : k \in DOMAIN images /\ images[k] = cache[k]
    <3>1. i \in DOMAIN images /\ images[i] = image
      BY DEF KeepImage, Updated
    <3>2. \A k \in DOMAIN codiImages[d] : k # i => k \in DOMAIN images /\ images[k] = codiImages[d][k]
      BY DEF KeepImage, Updated
    <3>3. \A k \in DOMAIN codiCache[d] : k \in DOMAIN codiImages[d] /\ codiImages[d][k] = codiCache[d][k]
      BY <2>1 DEF CacheAgrees
    <3> HIDE DEF images
    <3> QED  BY <2>5, <3>1, <3>2, <3>3
  <2> HIDE DEF images
  <2> QED  BY <1>2, <2>1, <2>2, <2>3, <2>6 DEF TypeOK, ImagesOK
<1>5. ASSUME NEW d \in Device, Restart(d) PROVE CacheAgrees'
  <2>1. /\ codiCache' = [codiCache EXCEPT ![d] = EmptyDict]
        /\ codiImages' = [codiImages EXCEPT ![d] = EmptyDict]
    BY <1>5 DEF Restart
  <2>2. DOMAIN EmptyDict = {}
    BY DEF EmptyDict
  <2> QED  BY <1>2, <2>1, <2>2 DEF TypeOK, ImagesOK
<1>6. ASSUME NEW d \in Device,
             \/ OpenMake(d) \/ Cancel(d) \/ AlertOK(d)
             \/ \E s \in Save : TapMake(d, s)
             \/ \E r \in Refresh : StartRefresh(d, r)
      PROVE  CacheAgrees'
  BY <1>1, <1>6 DEF OpenMake, Cancel, AlertOK, TapMake, StartRefresh
<1>7. ASSUME NEW s \in Save, SaveProgress(s) \/ OrphanLands(s) PROVE CacheAgrees'
  BY <1>1, <1>7 DEF SaveProgress, ListReply, ListError, StartPut, PutLands, PutAck, PutError,
                    OrphanLands
<1>8. ASSUME NEW r \in Refresh, NEW i \in Wanted(refreshes[r].n),
             \/ ListAnswered(r) \/ ListingFails(r) \/ Notify(r)
             \/ DownloadAnswered(r, i) \/ DownloadFails(r, i) \/ DownloadGarbled(r, i)
      PROVE  CacheAgrees'
  BY <1>1, <1>8 DEF ListAnswered, ListingFails, Notify, DownloadAnswered, DownloadFails,
                    DownloadGarbled
<1>9. ASSUME NEW r \in Refresh, ListAnswered(r) \/ ListingFails(r) \/ Notify(r) PROVE CacheAgrees'
  BY <1>1, <1>9 DEF ListAnswered, ListingFails, Notify
<1> QED
  BY <1>1, <1>3, <1>4, <1>5, <1>6, <1>7, <1>8, <1>9 DEF Next, RefreshProgress, vars

\* What is cached is what DataManager holds, whatever the eviction order.
THEOREM CacheAgreement == Spec => []CacheAgrees
<1>1. Init => CacheAgrees
  BY DEF Init, EmptyDict, CacheAgrees
<1> QED  BY <1>1, TypeInit, TypeStep, CacheStep, PTL DEF Spec

=============================================================================
