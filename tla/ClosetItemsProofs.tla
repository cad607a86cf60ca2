------------------------- MODULE ClosetItemsProofs -------------------------
(***************************************************************************)
(* Theorems about ClosetItems for every number of devices, categories,     *)
(* photos and taps, every cache capacity, every order of the keys and      *)
(* every choice of faults.                                                 *)
(***************************************************************************)
EXTENDS ClosetItems, DictionaryTheorems, FiniteSetTheorems, SequenceTheorems

-----------------------------------------------------------------------------
(* Sorting *)

\* The sorted photos are numbered below their count, in whatever order.
LEMMA SortedDict ==
  ASSUME NEW images, IsDict(images, Nat, Photo), IsFiniteSet(DOMAIN images)
  PROVE  /\ IsDict(Sorted(images), Nat, Photo)
         /\ IsFiniteSet(DOMAIN Sorted(images))
         /\ DOMAIN Sorted(images) \subseteq 0 .. Count(images) - 1
<1> DEFINE D == DOMAIN images
           before(k) == { j \in D \ {k} : KeyBefore(j, k) }
           rank(k) == Cardinality(before(k))
           n == Count(images)
<1>1. ASSUME NEW k \in D PROVE rank(k) \in 0 .. n - 1
  <2>1. IsFiniteSet(D \ {k}) /\ Cardinality(D \ {k}) = n - 1
    BY FS_RemoveElement DEF Count
  <2>2. before(k) \subseteq D \ {k}
    OBVIOUS
  <2> HIDE DEF before, D
  <2>3. IsFiniteSet(before(k)) /\ Cardinality(before(k)) <= n - 1
    BY <2>1, <2>2, FS_Subset
  <2>4. Cardinality(before(k)) \in Nat /\ n \in Nat
    BY <2>3, FS_CardinalityType DEF Count, D
  <2> QED  BY <2>3, <2>4
<1>2. DOMAIN Sorted(images) = { rank(k) : k \in D }
  BY DEF Sorted
<1>3. IsFiniteSet({ rank(k) : k \in D })
  <2>1. n \in Nat
    BY FS_CardinalityType DEF Count
  <2>2. IsFiniteSet(0 .. n - 1)
    BY <2>1, FS_Interval
  <2>3. { rank(k) : k \in D } \subseteq 0 .. n - 1
    BY <1>1
  <2> HIDE DEF rank, n
  <2> QED  BY <2>2, <2>3, FS_Subset
<1>4. ASSUME NEW idx \in { rank(k) : k \in D } PROVE Sorted(images)[idx] \in Photo
  <2>1. Sorted(images)[idx] = images[CHOOSE k \in D : rank(k) = idx]
    BY DEF Sorted
  <2> HIDE DEF rank
  <2>2. (CHOOSE k \in D : rank(k) = idx) \in D
    BY <1>4
  <2> QED  BY <2>1, <2>2 DEF IsDict
<1>5. Sorted(images) \in [DOMAIN Sorted(images) -> Photo]
  <2>1. Sorted(images) = [idx \in { rank(k) : k \in D } |-> images[CHOOSE k \in D : rank(k) = idx]]
    BY DEF Sorted
  <2> HIDE DEF rank
  <2> QED  BY <1>2, <1>4, <2>1
<1>6. DOMAIN Sorted(images) \subseteq 0 .. n - 1
  BY <1>1, <1>2
<1>7. n \in Nat
  BY FS_CardinalityType DEF Count
<1>8. DOMAIN Sorted(images) \subseteq Nat
  BY <1>6, <1>7
<1> QED  BY <1>2, <1>3, <1>5, <1>6, <1>8 DEF IsDict

-----------------------------------------------------------------------------
(* Type correctness *)

\* A fresh record is well formed.
LEMMA FreshRecord ==
  ASSUME NEW stage \in {"listing", "listed", "loading"}, NEW n \in Nat,
         NEW asked \in SUBSET Nat, IsFiniteSet(asked),
         NEW images, IsDict(images, Nat, Photo), IsFiniteSet(DOMAIN images)
  PROVE  IsFetchRecord(FetchRecord(stage, n, asked, images))
<1>1. Cardinality(asked) \in Int
  BY FS_CardinalityType
<1> QED  BY <1>1 DEF IsFetchRecord, FetchRecord, IsDict, EmptyDict

LEMMA NewFetchType == IsFetchRecord(NewFetch)
<1>1. IsDict(EmptyDict, Nat, Photo) /\ DOMAIN EmptyDict = {}
  BY DEF IsDict, EmptyDict
<1>2. IsFiniteSet({})
  BY FS_EmptySet
<1> QED  BY <1>1, <1>2, FreshRecord DEF NewFetch

\* Moving a fetch on to another well-formed record keeps the table well formed.
LEMMA FetchUpdate ==
  ASSUME FetchesOK, NEW f \in DOMAIN fetches, NEW g, IsFetchRecord(g),
         fetches' = [fetches EXCEPT ![f] = g]
  PROVE  FetchesOK'
BY DEF FetchesOK, IsFetchRecord, IsDict, FetchId

LEMMA FetchesKept ==
  ASSUME FetchesOK, NEW S, fetches' = Kept(fetches, S)
  PROVE  FetchesOK'
BY DEF FetchesOK, IsFetchRecord, IsDict, FetchId, Kept

LEMMA FetchesStarted ==
  ASSUME FetchesOK, NEW d \in Device, NEW cs \in SUBSET Category,
         NEW cause \in Tap \cup {RowShown}, fetches' = StartFetches(d, cs, cause)
  PROVE  FetchesOK'
<1> DEFINE fresh == [f \in {d} \X cs \X {cause} |-> NewFetch]
<1>1. DOMAIN fresh \subseteq FetchId /\ \A f \in DOMAIN fresh : fresh[f] = NewFetch
  BY DEF FetchId
<1>2. fetches' = Overlaid(fetches, fresh)
  BY DEF StartFetches
<1> HIDE DEF fresh
<1> QED  BY <1>1, <1>2, NewFetchType DEF FetchesOK, Overlaid, IsFetchRecord

\* A step of a fetch that is under way moves it on to another record.
LEMMA FetchStepType ==
  ASSUME TypeOK, NEW f \in DOMAIN fetches, NEW g, IsFetchRecord(g),
         fetches' = [fetches EXCEPT ![f] = g],
         UNCHANGED << files, taps, cameraVars, rows, slots >>, CacheOK'
  PROVE  TypeOK'
<1>1. FetchesOK'
  BY FetchUpdate DEF TypeOK
<1> QED  BY <1>1 DEF TypeOK, FoldersOK, SlotsOK, cameraVars

\* A tap moves on to another record; the rest is well formed.
LEMMA TapStepType ==
  ASSUME TypeOK, NEW t \in DOMAIN taps, NEW u \in TapRecord, taps' = [taps EXCEPT ![t] = u],
         FoldersOK', FetchesOK', camera' \in [Device -> Photo \cup {NoPhoto}],
         UNCHANGED << taken, closetVars >>
  PROVE  TypeOK'
<1>1. IsDict(taps', Tap, TapRecord)
  BY DEF TypeOK, IsDict
<1> QED  BY <1>1 DEF TypeOK, SlotsOK, CacheOK, closetVars

LEMMA TypeInit == Init => TypeOK
<1> SUFFICES ASSUME Init PROVE TypeOK
  OBVIOUS
<1> USE DEF Init, EmptyDict
<1>1. FoldersOK /\ SlotsOK
  BY FS_EmptySet DEF FoldersOK, SlotsOK, IsDict
<1>2. CacheOK /\ FetchesOK
  BY DEF CacheOK, FetchesOK, IsDict
<1> QED  BY <1>1, <1>2 DEF TypeOK, IsDict

LEMMA TypeStep == TypeOK /\ [Next]_vars => TypeOK'
<1> SUFFICES ASSUME TypeOK, [Next]_vars PROVE TypeOK'
  OBVIOUS
<1> USE DEF cameraVars, closetVars
\* What a step leaves unchanged keeps its type.
<1>0. /\ UNCHANGED files => FoldersOK'
      /\ UNCHANGED slots => SlotsOK'
      /\ UNCHANGED itemCache => CacheOK'
      /\ UNCHANGED fetches => FetchesOK'
  BY DEF TypeOK, FoldersOK, SlotsOK, CacheOK, FetchesOK, IsFetchRecord
<1>1. ASSUME NEW d \in Device, OpenCamera(d) \/ CancelCamera(d) PROVE TypeOK'
  BY <1>0, <1>1 DEF TypeOK, OpenCamera, CancelCamera
<1>2. ASSUME NEW d \in Device, NEW c \in Category, ShowRow(d, c) PROVE TypeOK'
  <2>1. FetchesOK'
    BY <1>2, FetchesStarted DEF TypeOK, ShowRow
  <2> QED  BY <1>0, <1>2, <2>1 DEF TypeOK, ShowRow
<1>3. ASSUME NEW d \in Device, NEW c \in Category, NEW t \in Tap, TapAdd(d, c, t) PROVE TypeOK'
  <2>1. FileCount(d, c) \in Nat
    BY FS_CardinalityType DEF TypeOK, SlotsOK, FileCount, Count
  <2>2. [dev |-> d, cat |-> c, photo |-> camera[d], num |-> FileCount(d, c),
         stage |-> "putting"] \in TapRecord
    BY <1>3, <2>1 DEF TypeOK, TapAdd, TapRecord, Unsettled
  <2>3. IsDict(taps', Tap, TapRecord)
    BY <1>3, <2>2 DEF TypeOK, TapAdd, IsDict, Updated
  <2> QED  BY <1>0, <1>3, <2>3 DEF TypeOK, TapAdd
<1>4. ASSUME NEW t \in Tap, PutLands(t) \/ OrphanLands(t) PROVE TypeOK'
  <2>1. t \in DOMAIN taps /\ taps[t] \in TapRecord
    BY <1>4 DEF TypeOK, IsDict, PutLands, OrphanLands, InStage
  <2>2. PICK stage \in {"landed", "lost"} : taps' = [taps EXCEPT ![t].stage = stage]
    BY <1>4 DEF PutLands, OrphanLands
  <2> DEFINE u == [taps[t] EXCEPT !.stage = stage]
             c == taps[t].cat
             folder == Updated(files[c], taps[t].num, taps[t].photo)
  <2>3. u \in TapRecord /\ taps' = [taps EXCEPT ![t] = u]
    BY <2>1, <2>2 DEF TapRecord, Unsettled, Settled
  <2>4. c \in Category /\ taps[t].num \in Nat /\ taps[t].photo \in Photo
    BY <2>1 DEF TapRecord
  <2>5. IsDict(folder, Nat, Photo) /\ IsFiniteSet(DOMAIN folder)
    <3>1. IsDict(folder, Nat, Photo) /\ DOMAIN folder = DOMAIN files[c] \cup {taps[t].num}
      BY <2>4 DEF TypeOK, FoldersOK, IsDict, Updated
    <3>2. IsFiniteSet(DOMAIN files[c])
      BY <2>4 DEF TypeOK, FoldersOK
    <3> HIDE DEF c, folder
    <3> QED  BY <3>1, <3>2, FS_AddElement
  <2>6. files' = [files EXCEPT ![c] = folder]
    BY <1>4 DEF PutLands, OrphanLands, Store
  <2> HIDE DEF u, c, folder
  <2>7. FoldersOK'
    BY <2>4, <2>5, <2>6 DEF TypeOK, FoldersOK
  <2> QED  BY <1>0, <1>4, <2>1, <2>3, <2>7, TapStepType DEF TypeOK, PutLands, OrphanLands
<1>5. ASSUME NEW t \in Tap, PutHeard(t) \/ PutUnheard(t) \/ PutError(t) PROVE TypeOK'
  <2>1. t \in DOMAIN taps /\ taps[t] \in TapRecord
    BY <1>5 DEF TypeOK, IsDict, PutHeard, PutUnheard, PutError, InStage
  <2>2. PICK stage \in Settled \cup {"orphan"} : taps' = [taps EXCEPT ![t].stage = stage]
    BY <1>5 DEF PutHeard, PutUnheard, PutError, Settled
  <2> DEFINE u == [taps[t] EXCEPT !.stage = stage]
  <2>3. u \in TapRecord /\ taps' = [taps EXCEPT ![t] = u]
    BY <2>1, <2>2 DEF TapRecord, Unsettled, Settled
  <2> HIDE DEF u
  <2>4. FetchesOK' /\ camera' \in [Device -> Photo \cup {NoPhoto}]
    <3>1. CASE PutHeard(t)
      <4>1. rows[taps[t].dev] \in SUBSET Category /\ taps[t].dev \in Device
        BY <2>1 DEF TypeOK, TapRecord
      <4>2. FetchesOK'
        BY <3>1, <4>1, FetchesStarted DEF TypeOK, PutHeard
      <4>3. camera' \in [Device -> Photo \cup {NoPhoto}]
        BY <3>1 DEF TypeOK, PutHeard, Dismiss
      <4> QED  BY <4>2, <4>3
    <3>2. CASE PutUnheard(t) \/ PutError(t)
      BY <1>0, <3>2 DEF TypeOK, PutUnheard, PutError
    <3> QED  BY <1>5, <3>1, <3>2
  <2> QED
    BY <1>0, <1>5, <2>1, <2>3, <2>4, TapStepType DEF TypeOK, PutHeard, PutUnheard, PutError
<1>6. ASSUME NEW f \in FetchId, ListAnswered(f) PROVE TypeOK'
  <2> DEFINE g == [fetches[f] EXCEPT !.stage = "listed", !.n = Count(files[f[2]])]
  <2>1. f \in DOMAIN fetches /\ IsFetchRecord(fetches[f]) /\ f[2] \in Category
    BY <1>6 DEF TypeOK, FetchesOK, ListAnswered, IsFetch, FetchId
  <2>2. Count(files[f[2]]) \in Nat
    BY <2>1, FS_CardinalityType DEF TypeOK, FoldersOK, Count
  <2>3. IsFetchRecord(g)
    BY <2>1, <2>2 DEF IsFetchRecord
  <2>4. fetches' = [fetches EXCEPT ![f] = g]
    BY <1>6 DEF ListAnswered
  <2> HIDE DEF g
  <2> QED  BY <1>0, <1>6, <2>1, <2>3, <2>4, FetchStepType DEF ListAnswered
<1>7. ASSUME NEW f \in FetchId, ListingFails(f) PROVE TypeOK'
  <2>1. FetchesOK'
    BY <1>7, FetchesKept DEF TypeOK, ListingFails, Finish
  <2> QED  BY <1>0, <1>7, <2>1 DEF TypeOK, ListingFails
<1>8. ASSUME NEW f \in FetchId, HandleListing(f) PROVE TypeOK'
  <2> DEFINE n == fetches[f].n
             cache == itemCache[f[1]]
             hits == [i \in { j \in Wanted(n) : CacheKey(f[2], j) \in DOMAIN cache }
                        |-> cache[CacheKey(f[2], i)]]
  <2>1. /\ f \in DOMAIN fetches /\ n \in Nat
        /\ f[1] \in Device /\ f[2] \in Category
    BY <1>8 DEF TypeOK, FetchesOK, IsFetchRecord, HandleListing, IsFetch, FetchId
  <2>2. Wanted(n) \subseteq Nat /\ IsFiniteSet(Wanted(n))
    BY <2>1, FS_Interval DEF Wanted
  <2>3. IsDict(hits, Nat, Photo) /\ DOMAIN hits \subseteq Wanted(n)
    <3>1. IsDict(cache, Category \X Nat, Photo)
      BY <2>1 DEF TypeOK, CacheOK
    <3> HIDE DEF n, cache
    <3> QED  BY <2>2, <3>1 DEF IsDict
  <2>4. PICK images \in Collected(hits) :
           fetches' = [fetches EXCEPT ![f] =
             FetchRecord("loading", n, Wanted(n) \ DOMAIN hits, images)]
    BY <1>8 DEF HandleListing
  <2> HIDE DEF hits, n
  <2>5. IsDict(images, Nat, Photo) /\ DOMAIN images \subseteq Wanted(n)
    BY <2>3 DEF Collected, IsDict, Kept
  <2>6. IsFiniteSet(DOMAIN images) /\ IsFiniteSet(Wanted(n) \ DOMAIN hits)
    BY <2>2, <2>5, FS_Subset
  <2>7. IsFetchRecord(FetchRecord("loading", n, Wanted(n) \ DOMAIN hits, images))
    BY <2>1, <2>2, <2>5, <2>6, FreshRecord
  <2> QED  BY <1>0, <1>8, <2>1, <2>4, <2>7, FetchStepType DEF HandleListing
<1>9. ASSUME NEW f \in FetchId, NEW i \in Wanted(fetches[f].n), DownloadAnswered(f, i)
      PROVE  TypeOK'
  <2> DEFINE photo == files[f[2]][i]
             g == [fetches[f] EXCEPT !.asked = @ \ {i}, !.got = Updated(@, i, photo)]
  <2>1. /\ f \in DOMAIN fetches /\ IsFetchRecord(fetches[f]) /\ f[2] \in Category
        /\ i \in DOMAIN files[f[2]]
    BY <1>9 DEF TypeOK, FetchesOK, DownloadAnswered, IsFetch, FetchId
  <2>2. i \in Nat /\ photo \in Photo
    BY <2>1 DEF TypeOK, FoldersOK, IsDict
  <2>3. fetches' = [fetches EXCEPT ![f] = g]
    BY <1>9 DEF DownloadAnswered
  <2> HIDE DEF photo
  <2>4. IsDict(Updated(fetches[f].got, i, photo), Nat, Photo)
    BY <2>1, <2>2 DEF IsFetchRecord, IsDict, Updated
  <2>5. IsFetchRecord(g)
    BY <2>1, <2>4 DEF IsFetchRecord
  <2> HIDE DEF g
  <2> QED  BY <1>0, <1>9, <2>1, <2>3, <2>5, FetchStepType DEF DownloadAnswered
<1>10. ASSUME NEW f \in FetchId, NEW i \in Wanted(fetches[f].n), HandleDownload(f, i)
       PROVE  TypeOK'
  <2> DEFINE got == fetches[f].got
             photo == got[i]
             images == Updated(fetches[f].images, i, photo)
             g == [fetches[f] EXCEPT !.left = @ - 1, !.got = Kept(@, DOMAIN got \ {i}),
                                     !.images = images]
  <2>1. /\ f \in DOMAIN fetches /\ IsFetchRecord(fetches[f])
        /\ f[1] \in Device /\ f[2] \in Category /\ i \in DOMAIN got
    BY <1>10 DEF TypeOK, FetchesOK, HandleDownload, IsFetch, FetchId
  <2>2. i \in Nat /\ photo \in Photo /\ fetches[f].left - 1 \in Int
    BY <2>1 DEF IsFetchRecord, IsDict
  <2>3. fetches' = [fetches EXCEPT ![f] = g]
    BY <1>10 DEF HandleDownload
  <2>4. IsDict(Kept(got, DOMAIN got \ {i}), Nat, Photo)
    BY <2>1 DEF IsFetchRecord, IsDict, Kept
  <2>5. PICK cache \in CachePuts(itemCache[f[1]], CacheKey(f[2], i), photo, CacheCapacity) :
           itemCache' = [itemCache EXCEPT ![f[1]] = cache]
    BY <1>10 DEF HandleDownload
  <2> HIDE DEF photo
  <2>6. IsDict(images, Nat, Photo) /\ IsFiniteSet(DOMAIN images)
    <3>1. IsDict(images, Nat, Photo) /\ DOMAIN images = DOMAIN fetches[f].images \cup {i}
      BY <2>1, <2>2 DEF IsFetchRecord, IsDict, Updated
    <3> QED  BY <2>1, <3>1, FS_AddElement DEF IsFetchRecord
  <2>7. CacheOK'
    <3>1. IsDict(itemCache[f[1]], Category \X Nat, Photo) /\ CacheKey(f[2], i) \in Category \X Nat
      BY <2>1, <2>2 DEF TypeOK, CacheOK, CacheKey
    <3>2. IsDict(cache, Category \X Nat, Photo)
      BY <2>2, <2>5, <3>1, CachePutDict
    <3> QED  BY <2>1, <2>5, <3>2 DEF TypeOK, CacheOK
  <2> HIDE DEF images
  <2>8. IsFetchRecord(g)
    BY <2>1, <2>2, <2>4, <2>6 DEF IsFetchRecord
  <2> HIDE DEF g
  <2> QED  BY <1>0, <1>10, <2>1, <2>3, <2>7, <2>8, FetchStepType DEF HandleDownload
<1>11. ASSUME NEW f \in FetchId, NEW i \in Wanted(fetches[f].n), DownloadFails(f, i)
       PROVE  TypeOK'
  <2> DEFINE g == [fetches[f] EXCEPT !.asked = @ \ {i}]
  <2>1. f \in DOMAIN fetches /\ IsFetchRecord(fetches[f])
    BY <1>11 DEF TypeOK, FetchesOK, DownloadFails, IsFetch
  <2>2. IsFetchRecord(g)
    BY <2>1 DEF IsFetchRecord
  <2>3. fetches' = [fetches EXCEPT ![f] = g]
    BY <1>11 DEF DownloadFails
  <2> HIDE DEF g
  <2> QED  BY <1>0, <1>11, <2>1, <2>2, <2>3, FetchStepType DEF DownloadFails
<1>12. ASSUME NEW f \in FetchId, Notify(f) PROVE TypeOK'
  <2> DEFINE d == f[1]
             c == f[2]
             images == fetches[f].images
             row == FillSlots(slots[d][c], images)
  <2>1. f \in DOMAIN fetches /\ IsFetchRecord(fetches[f]) /\ d \in Device /\ c \in Category
    BY <1>12 DEF TypeOK, FetchesOK, Notify, IsFetch, FetchId
  <2>2. IsDict(row, Nat, Photo) /\ IsFiniteSet(DOMAIN row)
    <3>1. IsDict(Sorted(images), Nat, Photo) /\ IsFiniteSet(DOMAIN Sorted(images))
      BY <2>1, SortedDict DEF IsFetchRecord
    <3>2. IsDict(slots[d][c], Nat, Photo) /\ IsFiniteSet(DOMAIN slots[d][c])
      BY <2>1 DEF TypeOK, SlotsOK
    <3>3. IsDict(row, Nat, Photo) /\ DOMAIN row = DOMAIN slots[d][c] \cup DOMAIN Sorted(images)
      BY <3>1, <3>2 DEF FillSlots, Overlaid, IsDict
    <3> QED  BY <3>1, <3>2, <3>3, FS_Union
  <2>3. slots' = [slots EXCEPT ![d][c] = row]
    BY <1>12 DEF Notify
  <2> HIDE DEF d, c, row
  <2>4. SlotsOK'
    BY <2>1, <2>2, <2>3 DEF TypeOK, SlotsOK
  <2>5. FetchesOK'
    BY <1>12, FetchesKept DEF TypeOK, Notify, Finish
  <2> QED  BY <1>0, <1>12, <2>4, <2>5 DEF TypeOK, Notify
<1>13. ASSUME NEW d \in Device, Restart(d) PROVE TypeOK'
  <2>1. IsDict(taps', Tap, TapRecord)
    <3>1. ASSUME NEW t \in DOMAIN taps PROVE Forgotten(taps[t]) \in TapRecord
      BY DEF TypeOK, IsDict, TapRecord, Forgotten, Unsettled, Settled
    <3> QED  BY <1>13, <3>1 DEF TypeOK, IsDict, Restart
  <2>2. IsDict(EmptyDict, Nat, Photo) /\ IsFiniteSet(DOMAIN EmptyDict)
        /\ IsDict(EmptyDict, Category \X Nat, Photo)
    BY FS_EmptySet DEF IsDict, EmptyDict
  <2>3. SlotsOK'
    BY <1>13, <2>2 DEF TypeOK, SlotsOK, Restart
  <2>4. CacheOK'
    BY <1>13, <2>2 DEF TypeOK, CacheOK, Restart
  <2>5. FetchesOK'
    BY <1>13, FetchesKept DEF TypeOK, Restart
  <2> QED  BY <1>0, <1>13, <2>1, <2>3, <2>4, <2>5 DEF TypeOK, Restart
<1>14. CASE UNCHANGED vars
  BY <1>0, <1>14 DEF TypeOK, vars
<1> QED
  BY <1>1, <1>2, <1>3, <1>4, <1>5, <1>6, <1>7, <1>8, <1>9, <1>10, <1>11, <1>12, <1>13, <1>14
  DEF Next, TapProgress, FetchProgress

\* The folders, the taps, the rows, the cache and the fetches keep their types.
THEOREM TypeCorrect == Spec => []TypeOK
BY TypeInit, TypeStep, PTL DEF Spec

-----------------------------------------------------------------------------
(* No folder has a gap *)

\* ItemsContiguous alone is not inductive: a put under way took its number from
\* the slots of a device, and those came from a fetch.  Nothing of this reaches
\* beyond the folder, for files are only added.
TapsInReach ==
  \A t \in DOMAIN taps : taps[t].stage \in {"putting", "orphan"} =>
    taps[t].num <= Count(files[taps[t].cat])

SlotsWithin == \A d \in Device, c \in Category : DOMAIN slots[d][c] \subseteq DOMAIN files[c]

FetchWithin(f, folder) ==
  /\ f.n <= Count(folder)
  /\ f.asked \cup DOMAIN f.got \cup DOMAIN f.images \subseteq DOMAIN folder

FetchesWithin == \A f \in DOMAIN fetches : FetchWithin(fetches[f], files[f[2]])

FolderInv == ItemsContiguous /\ TapsInReach /\ SlotsWithin /\ FetchesWithin

LEMMA FolderInit == Init => FolderInv
<1> SUFFICES ASSUME Init PROVE FolderInv
  OBVIOUS
<1>1. \A c \in Category : DOMAIN files[c] = {} /\ Count(files[c]) = 0
  BY FS_EmptySet DEF Init, EmptyDict, Count
<1> QED
  BY <1>1 DEF Init, EmptyDict, FolderInv, ItemsContiguous, TapsInReach, SlotsWithin, FetchesWithin

LEMMA CountType == TypeOK => \A c \in Category : Count(files[c]) \in Nat
BY FS_CardinalityType DEF TypeOK, FoldersOK, Count

\* A put that is stored leaves no gap, and no other number gets out of reach.
LEMMA StoreStep ==
  ASSUME TypeOK, FolderInv, NEW t \in Tap, PutLands(t) \/ OrphanLands(t)
  PROVE  /\ ItemsContiguous'
         /\ \A c \in Category : Count(files[c]) <= Count(files[c])' /\ Count(files[c])' \in Nat
<1> DEFINE c == taps[t].cat
           k == taps[t].num
           n == Count(files[c])
<1>1. /\ t \in DOMAIN taps /\ c \in Category /\ k \in Nat /\ k <= n
      /\ taps[t].photo \in Photo /\ taps[t].stage \in {"putting", "orphan"}
  BY DEF TypeOK, IsDict, TapRecord, PutLands, OrphanLands, InStage, FolderInv, TapsInReach
<1>2. n \in Nat /\ DOMAIN files[c] = 0 .. n - 1
  BY <1>1, CountType DEF FolderInv, ItemsContiguous
<1>3. files' = [files EXCEPT ![c] = Updated(files[c], k, taps[t].photo)]
  BY DEF PutLands, OrphanLands, Store
<1> HIDE DEF c, k, n
<1>4. DOMAIN files'[c] = 0 .. n - 1 \cup {k} /\ \A e \in Category \ {c} : files'[e] = files[e]
  BY <1>1, <1>2, <1>3 DEF TypeOK, FoldersOK, Updated
<1>5. \E m \in {n, n + 1} : DOMAIN files'[c] = 0 .. m - 1 /\ Count(files'[c]) = m
  <2>1. CASE k < n
    <3>1. DOMAIN files'[c] = 0 .. n - 1
      BY <1>1, <1>2, <1>4, <2>1
    <3> QED  BY <1>2, <3>1 DEF Count, n
  <2>2. CASE k = n
    <3>1. DOMAIN files'[c] = 0 .. n
      BY <1>2, <1>4, <2>2
    <3>2. Cardinality(0 .. n) = n + 1
      BY <1>2, FS_Interval
    <3> QED  BY <1>2, <3>1, <3>2 DEF Count
  <2> QED  BY <1>1, <1>2, <2>1, <2>2
<1>6. PICK m \in {n, n + 1} : DOMAIN files'[c] = 0 .. m - 1 /\ Count(files'[c]) = m
  BY <1>5
<1>7. ItemsContiguous'
  BY <1>1, <1>4, <1>6 DEF FolderInv, ItemsContiguous
<1>8. ASSUME NEW e \in Category
      PROVE  Count(files[e]) <= Count(files'[e]) /\ Count(files'[e]) \in Nat
  <2>1. CASE e = c
    BY <1>2, <1>6, <2>1 DEF n
  <2>2. CASE e # c
    BY <1>4, <2>2, CountType
  <2> QED  BY <2>1, <2>2
<1> QED  BY <1>7, <1>8

LEMMA FoldersGrow ==
  ASSUME TypeOK, FolderInv, [Next]_vars
  PROVE  /\ ItemsContiguous'
         /\ \A c \in Category : /\ Count(files[c]) <= Count(files[c])'
                                /\ Count(files[c])' \in Nat
                                /\ DOMAIN files[c] \subseteq DOMAIN files'[c]
<1>1. CASE files' = files
  BY <1>1, CountType DEF FolderInv, ItemsContiguous, Count
<1>2. ASSUME NEW t \in Tap, PutLands(t) \/ OrphanLands(t)
      PROVE  /\ ItemsContiguous'
             /\ \A c \in Category : /\ Count(files[c]) <= Count(files[c])'
                                    /\ Count(files[c])' \in Nat
                                    /\ DOMAIN files[c] \subseteq DOMAIN files'[c]
  <2>1. /\ ItemsContiguous'
        /\ \A c \in Category : Count(files[c]) <= Count(files[c])' /\ Count(files[c])' \in Nat
    BY <1>2, StoreStep
  <2>2. ASSUME NEW c \in Category PROVE DOMAIN files[c] \subseteq DOMAIN files'[c]
    <3>1. files' = [files EXCEPT ![taps[t].cat] =
                      Updated(files[taps[t].cat], taps[t].num, taps[t].photo)]
      BY <1>2 DEF PutLands, OrphanLands, Store
    <3>2. DOMAIN files[taps[t].cat]
            \subseteq DOMAIN Updated(files[taps[t].cat], taps[t].num, taps[t].photo)
      BY DEF Updated
    <3>3. files = [e \in Category |-> files[e]]
      BY DEF TypeOK, FoldersOK
    <3> QED  BY <3>1, <3>2, <3>3
  <2> QED  BY <2>1, <2>2
<1>3. files' = files \/ \E t \in Tap : PutLands(t) \/ OrphanLands(t)
  BY DEF Next, vars, OpenCamera, CancelCamera, Restart, ShowRow, TapAdd, TapProgress, PutHeard,
         PutUnheard, PutError, FetchProgress, ListAnswered, ListingFails, HandleListing, Notify,
         DownloadAnswered, HandleDownload, DownloadFails
<1> QED  BY <1>1, <1>2, <1>3

\* The slots, the fetches and the puts under way reach no further than the
\* folders did before this step, so they reach no further than the folders.
LEMMA StaysInReach ==
  ASSUME TypeOK, FolderInv, [Next]_vars,
         \A t \in DOMAIN taps' : taps'[t].stage \in {"putting", "orphan"} =>
           taps'[t].num <= Count(files[taps'[t].cat]),
         \A d \in Device, c \in Category : DOMAIN slots'[d][c] \subseteq DOMAIN files[c],
         \A f \in DOMAIN fetches' : FetchWithin(fetches'[f], files[f[2]])
  PROVE  FolderInv'
<1>1. TypeOK'
  BY TypeStep
<1>2. /\ ItemsContiguous'
      /\ \A c \in Category : /\ Count(files[c]) \in Nat /\ Count(files'[c]) \in Nat
                             /\ Count(files[c]) <= Count(files'[c])
                             /\ DOMAIN files[c] \subseteq DOMAIN files'[c]
  BY FoldersGrow, CountType DEF Count
<1>3. TapsInReach'
  <2>1. \A t \in DOMAIN taps' : taps'[t].cat \in Category /\ taps'[t].num \in Nat
    BY <1>1 DEF TypeOK, IsDict, TapRecord
  <2> QED  BY <1>2, <2>1 DEF TapsInReach
<1>4. SlotsWithin'
  BY <1>2 DEF SlotsWithin
<1>5. FetchesWithin'
  <2>1. \A f \in DOMAIN fetches' : f[2] \in Category /\ fetches'[f].n \in Nat
    BY <1>1 DEF TypeOK, FetchesOK, FetchId, IsFetchRecord
  <2> QED  BY <1>2, <2>1 DEF FetchesWithin, FetchWithin
<1> QED  BY <1>2, <1>3, <1>4, <1>5 DEF FolderInv

LEMMA FolderStep == TypeOK /\ FolderInv /\ [Next]_vars => FolderInv'
<1> SUFFICES ASSUME TypeOK, FolderInv, [Next]_vars PROVE FolderInv'
  OBVIOUS
<1> USE DEF cameraVars, closetVars
<1> DEFINE TapsReach == \A t \in DOMAIN taps' : taps'[t].stage \in {"putting", "orphan"} =>
                          taps'[t].num <= Count(files[taps'[t].cat])
           SlotsReach == \A d \in Device, c \in Category : DOMAIN slots'[d][c] \subseteq DOMAIN files[c]
           FetchesReach == \A f \in DOMAIN fetches' : FetchWithin(fetches'[f], files[f[2]])
<1>0. /\ UNCHANGED taps => TapsReach
      /\ UNCHANGED slots => SlotsReach
      /\ UNCHANGED fetches => FetchesReach
  BY DEF FolderInv, TapsInReach, SlotsWithin, FetchesWithin
<1>a. TapsReach /\ SlotsReach /\ FetchesReach => FolderInv'
  BY StaysInReach
<1>b. \A c \in Category : Count(files[c]) \in Nat /\ DOMAIN files[c] = 0 .. Count(files[c]) - 1
  BY CountType DEF FolderInv, ItemsContiguous
<1>c. \A folder : FetchWithin(NewFetch, folder) <=> 0 <= Count(folder)
  BY DEF FetchWithin, NewFetch, FetchRecord, EmptyDict
<1>d. ASSUME NEW d \in Device, NEW cs \in SUBSET Category, NEW cause,
             fetches' = StartFetches(d, cs, cause)
      PROVE  FetchesReach
  BY <1>b, <1>c, <1>d DEF StartFetches, Overlaid, FolderInv, FetchesWithin
\* One fetch moves on, and the other ones keep within the folders.
<1>e. ASSUME NEW f \in DOMAIN fetches, NEW g, fetches' = [fetches EXCEPT ![f] = g],
             FetchWithin(g, files[f[2]])
      PROVE  FetchesReach
  BY <1>e DEF FolderInv, FetchesWithin
<1>f. ASSUME NEW S, fetches' = Kept(fetches, S) PROVE FetchesReach
  BY <1>f DEF Kept, FolderInv, FetchesWithin
<1> HIDE DEF TapsReach, SlotsReach, FetchesReach
<1>1. ASSUME NEW d \in Device, OpenCamera(d) \/ CancelCamera(d) PROVE FolderInv'
  BY <1>0, <1>a, <1>1 DEF OpenCamera, CancelCamera
<1>2. ASSUME NEW d \in Device, NEW c \in Category, ShowRow(d, c) PROVE FolderInv'
  BY <1>0, <1>a, <1>d, <1>2 DEF ShowRow
<1>3. ASSUME NEW d \in Device, NEW c \in Category, NEW t \in Tap, TapAdd(d, c, t)
      PROVE  FolderInv'
  <2>1. FileCount(d, c) <= Count(files[c])
    <3>1. DOMAIN slots[d][c] \subseteq DOMAIN files[c] /\ IsFiniteSet(DOMAIN files[c])
      BY DEF FolderInv, SlotsWithin, TypeOK, FoldersOK
    <3> QED  BY <3>1, FS_Subset DEF FileCount, Count
  <2>2. TapsReach
    BY <1>3, <2>1 DEF TapAdd, Updated, FolderInv, TapsInReach, TapsReach
  <2> QED  BY <1>0, <1>a, <1>3, <2>2 DEF TapAdd
<1>4. ASSUME NEW t \in Tap, PutLands(t) \/ OrphanLands(t) \/ PutUnheard(t) \/ PutError(t)
      PROVE  FolderInv'
  <2>1. TapsReach
    BY <1>4 DEF PutLands, OrphanLands, PutUnheard, PutError, InStage, TypeOK, IsDict, TapRecord,
                FolderInv, TapsInReach, TapsReach
  <2> QED  BY <1>0, <1>a, <1>4, <2>1 DEF PutLands, OrphanLands, PutUnheard, PutError
<1>5. ASSUME NEW t \in Tap, PutHeard(t) PROVE FolderInv'
  <2>1. TapsReach
    BY <1>5 DEF PutHeard, InStage, TypeOK, IsDict, TapRecord, FolderInv, TapsInReach, TapsReach
  <2>2. taps[t].dev \in Device /\ rows[taps[t].dev] \in SUBSET Category
    BY <1>5 DEF PutHeard, InStage, TypeOK, IsDict, TapRecord
  <2> QED  BY <1>0, <1>a, <1>d, <1>5, <2>1, <2>2 DEF PutHeard
<1>6. ASSUME NEW f \in FetchId, ListAnswered(f) PROVE FolderInv'
  <2> DEFINE g == [fetches[f] EXCEPT !.stage = "listed", !.n = Count(files[f[2]])]
  <2>1. f \in DOMAIN fetches /\ f[2] \in Category /\ IsFetchRecord(fetches[f])
    BY <1>6 DEF TypeOK, FetchesOK, FetchId, ListAnswered, IsFetch
  <2>2. FetchWithin(g, files[f[2]])
    BY <1>b, <2>1 DEF IsFetchRecord, FolderInv, FetchesWithin, FetchWithin
  <2>3. fetches' = [fetches EXCEPT ![f] = g]
    BY <1>6 DEF ListAnswered
  <2> HIDE DEF g
  <2> QED  BY <1>0, <1>a, <1>e, <1>6, <2>1, <2>2, <2>3 DEF ListAnswered
<1>7. ASSUME NEW f \in FetchId, ListingFails(f) PROVE FolderInv'
  BY <1>0, <1>a, <1>f, <1>7 DEF ListingFails, Finish
<1>8. ASSUME NEW f \in FetchId, HandleListing(f) PROVE FolderInv'
  <2> DEFINE n == fetches[f].n
             cache == itemCache[f[1]]
             hits == [i \in { j \in Wanted(n) : CacheKey(f[2], j) \in DOMAIN cache }
                        |-> cache[CacheKey(f[2], i)]]
  <2>1. f \in DOMAIN fetches /\ f[2] \in Category /\ n \in Nat /\ n <= Count(files[f[2]])
    BY <1>8 DEF TypeOK, FetchesOK, FetchId, IsFetchRecord, HandleListing, IsFetch, FolderInv,
                FetchesWithin, FetchWithin
  <2>2. PICK images \in Collected(hits) :
           fetches' = [fetches EXCEPT ![f] =
             FetchRecord("loading", n, Wanted(n) \ DOMAIN hits, images)]
    BY <1>8 DEF HandleListing
  <2>3. Wanted(n) \subseteq DOMAIN files[f[2]]
    BY <1>b, <2>1 DEF Wanted
  <2>4. DOMAIN images \subseteq Wanted(n)
    BY <2>2 DEF Collected, Kept
  <2> HIDE DEF hits, n
  <2>5. FetchWithin(FetchRecord("loading", n, Wanted(n) \ DOMAIN hits, images), files[f[2]])
    BY <2>1, <2>3, <2>4 DEF FetchWithin, FetchRecord, EmptyDict
  <2> QED  BY <1>0, <1>a, <1>e, <1>8, <2>1, <2>2, <2>5 DEF HandleListing
<1>9. ASSUME NEW f \in FetchId, NEW i \in Wanted(fetches[f].n),
             DownloadAnswered(f, i) \/ HandleDownload(f, i) \/ DownloadFails(f, i)
      PROVE  FolderInv'
  <2>1. f \in DOMAIN fetches /\ IsFetchRecord(fetches[f]) /\ FetchWithin(fetches[f], files[f[2]])
    BY <1>9 DEF TypeOK, FetchesOK, DownloadAnswered, HandleDownload, DownloadFails, IsFetch,
                FolderInv, FetchesWithin
  <2>2. FetchesReach
    <3>1. CASE DownloadAnswered(f, i)
      <4> DEFINE g == [fetches[f] EXCEPT !.asked = @ \ {i}, !.got = Updated(@, i, files[f[2]][i])]
      <4>1. FetchWithin(g, files[f[2]])
        BY <2>1, <3>1 DEF DownloadAnswered, IsFetchRecord, FetchWithin, Updated
      <4>2. fetches' = [fetches EXCEPT ![f] = g]
        BY <3>1 DEF DownloadAnswered
      <4> QED  BY <1>e, <2>1, <4>1, <4>2
    <3>2. CASE HandleDownload(f, i)
      <4> DEFINE got == fetches[f].got
                 g == [fetches[f] EXCEPT !.left = @ - 1, !.got = Kept(@, DOMAIN got \ {i}),
                                         !.images = Updated(@, i, got[i])]
      <4>0. /\ g.n = fetches[f].n /\ g.asked = fetches[f].asked
            /\ DOMAIN g.got \subseteq DOMAIN got
            /\ DOMAIN g.images = DOMAIN fetches[f].images \cup {i} /\ i \in DOMAIN got
        BY <2>1, <3>2 DEF HandleDownload, IsFetchRecord, Updated, Kept
      <4>1. FetchWithin(g, files[f[2]])
        BY <2>1, <4>0 DEF FetchWithin
      <4>2. fetches' = [fetches EXCEPT ![f] = g]
        BY <3>2 DEF HandleDownload
      <4> QED  BY <1>e, <2>1, <4>1, <4>2
    <3>3. CASE DownloadFails(f, i)
      <4> DEFINE g == [fetches[f] EXCEPT !.asked = @ \ {i}]
      <4>1. FetchWithin(g, files[f[2]])
        BY <2>1 DEF IsFetchRecord, FetchWithin
      <4>2. fetches' = [fetches EXCEPT ![f] = g]
        BY <3>3 DEF DownloadFails
      <4> QED  BY <1>e, <2>1, <4>1, <4>2
    <3> QED  BY <1>9, <3>1, <3>2, <3>3
  <2> QED  BY <1>0, <1>a, <1>9, <2>2 DEF DownloadAnswered, HandleDownload, DownloadFails
<1>10. ASSUME NEW f \in FetchId, Notify(f) PROVE FolderInv'
  <2> DEFINE c == f[2]
             images == fetches[f].images
  <2>1. /\ f[1] \in Device /\ c \in Category
        /\ IsDict(images, Nat, Photo) /\ IsFiniteSet(DOMAIN images)
        /\ DOMAIN images \subseteq DOMAIN files[c]
    BY <1>10 DEF TypeOK, FetchesOK, FetchId, IsFetchRecord, Notify, IsFetch, FolderInv,
                 FetchesWithin, FetchWithin
  <2>2. Count(images) <= Count(files[c]) /\ Count(images) \in Nat
    BY <2>1, FS_Subset, FS_CardinalityType DEF Count, TypeOK, FoldersOK
  <2>3. slots' = [slots EXCEPT ![f[1]][c] = FillSlots(slots[f[1]][c], images)]
    BY <1>10 DEF Notify
  <2> HIDE DEF c, images
  <2>4. DOMAIN Sorted(images) \subseteq DOMAIN files[c]
    <3>1. DOMAIN Sorted(images) \subseteq 0 .. Count(images) - 1
      BY <2>1, SortedDict
    <3> QED  BY <1>b, <2>1, <2>2, <3>1
  <2>5. SlotsReach
    BY <2>1, <2>3, <2>4
    DEF FillSlots, Overlaid, FolderInv, SlotsWithin, SlotsReach, TypeOK, SlotsOK
  <2> QED  BY <1>0, <1>a, <1>f, <1>10, <2>5 DEF Notify, Finish
<1>11. ASSUME NEW d \in Device, Restart(d) PROVE FolderInv'
  <2>1. TapsReach
    <3>1. ASSUME NEW t \in DOMAIN taps
          PROVE  /\ Forgotten(taps[t]).num = taps[t].num /\ Forgotten(taps[t]).cat = taps[t].cat
                 /\ Forgotten(taps[t]).stage \in {"putting", "orphan"}
                      => taps[t].stage \in {"putting", "orphan"}
      BY DEF Forgotten, TypeOK, IsDict, TapRecord, Unsettled, Settled
    <3> QED  BY <1>11, <3>1 DEF Restart, FolderInv, TapsInReach, TapsReach
  <2>2. SlotsReach
    BY <1>11 DEF Restart, EmptyDict, FolderInv, SlotsWithin, SlotsReach, TypeOK, SlotsOK
  <2> QED  BY <1>a, <1>f, <1>11, <2>1, <2>2 DEF Restart
<1>12. CASE UNCHANGED vars
  BY <1>0, <1>a, <1>12 DEF vars
<1> QED
  BY <1>1, <1>2, <1>3, <1>4, <1>5, <1>6, <1>7, <1>8, <1>9, <1>10, <1>11, <1>12
  DEF Next, TapProgress, FetchProgress

\* However devices count, race, fail or outlive their process, no folder has a gap.
THEOREM FoldersAreContiguous == Spec => []ItemsContiguous
<1>1. FolderInv => ItemsContiguous
  BY DEF FolderInv
<1> QED  BY <1>1, TypeInit, TypeStep, FolderInit, FolderStep, PTL DEF Spec

\* A row never asks Storage for a file that is not there.
THEOREM NothingMissing == Spec => []NoMissingDownload
<1>1. FolderInv => NoMissingDownload
  BY DEF FolderInv, FetchesWithin, FetchWithin, NoMissingDownload
<1> QED  BY <1>1, TypeInit, TypeStep, FolderInit, FolderStep, PTL DEF Spec

-----------------------------------------------------------------------------
(* Every folder implements the abstract one *)

\* Counting from 1 instead of from 0.
LEMMA ShiftedInterval ==
  ASSUME NEW n \in Nat
  PROVE  { j + 1 : j \in 0 .. n - 1 } = 1 .. n
<1>1. ASSUME NEW i \in 1 .. n PROVE \E j \in 0 .. n - 1 : i = j + 1
  <2>1. i - 1 \in 0 .. n - 1 /\ i = (i - 1) + 1
    OBVIOUS
  <2> QED  BY <2>1
<1>2. \A j \in 0 .. n - 1 : j + 1 \in 1 .. n
  OBVIOUS
<1> QED  BY <1>1, <1>2

LEMMA FolderInitRefines == Init => \A c \in Category : FolderEmpty(c)
<1> SUFFICES ASSUME Init, NEW c \in Category PROVE Pictures(c) = << >>
  BY DEF FolderEmpty, Folder!Init
<1> QED  BY DEF Init, EmptyDict, Pictures

\* A folder of n files, numbered from 0, as a list of n photos.
Listed(folder) == [i \in { k + 1 : k \in DOMAIN folder } |-> folder[i - 1]]

LEMMA PicturesListed ==
  ASSUME NEW c
  PROVE  Pictures(c) = Listed(files[c]) /\ Pictures(c)' = Listed(files'[c])
BY DEF Pictures, Listed

LEMMA ListedLength ==
  ASSUME NEW n \in Nat, NEW folder, DOMAIN folder = 0 .. n - 1, \A i \in 0 .. n - 1 : folder[i] \in Photo
  PROVE  /\ Listed(folder) = [i \in 1 .. n |-> folder[i - 1]]
         /\ Listed(folder) \in Seq(Photo) /\ Len(Listed(folder)) = n
<1>1. Listed(folder) = [i \in 1 .. n |-> folder[i - 1]]
  BY ShiftedInterval DEF Listed
<1>2. \A i \in 1 .. n : i - 1 \in 0 .. n - 1
  OBVIOUS
<1>3. Listed(folder) \in [1 .. n -> Photo]
  BY <1>1, <1>2
<1> QED  BY <1>1, <1>3

\* The list of a folder that gets the next number.
LEMMA NextListed ==
  ASSUME NEW n \in Nat, NEW folder, DOMAIN folder = 0 .. n - 1,
         \A i \in 0 .. n - 1 : folder[i] \in Photo, NEW photo \in Photo
  PROVE  Listed(Updated(folder, n, photo)) = Append(Listed(folder), photo)
<1> DEFINE next == Updated(folder, n, photo)
           list == Listed(folder)
           new == Listed(next)
<1>0. list = [i \in 1 .. n |-> folder[i - 1]] /\ list \in Seq(Photo) /\ Len(list) = n
  BY ListedLength
<1> HIDE DEF list
<1>1. DOMAIN next = 0 .. n
  BY DEF Updated
<1>2. \A i \in 1 .. n + 1 : next[i - 1] = IF i = n + 1 THEN photo ELSE folder[i - 1]
  BY DEF Updated
<1> HIDE DEF next
<1>3. { j + 1 : j \in DOMAIN next } = 1 .. n + 1
  <2>1. n + 1 \in Nat /\ n = (n + 1) - 1
    OBVIOUS
  <2> QED  BY <1>1, <2>1, ShiftedInterval
<1>4. new = [i \in 1 .. n + 1 |-> IF i = n + 1 THEN photo ELSE list[i]]
  BY <1>0, <1>2, <1>3 DEF Listed
<1> HIDE DEF new
<1>5. Append(list, photo) \in [1 .. n + 1 -> Photo]
  <2>1. Append(list, photo) \in Seq(Photo) /\ Len(Append(list, photo)) = n + 1
    BY <1>0, AppendProperties
  <2> QED  BY <2>1, LenProperties
<1>6. \A i \in 1 .. n + 1 : Append(list, photo)[i] = IF i = n + 1 THEN photo ELSE list[i]
  BY <1>0
<1>7. new = Append(list, photo)
  BY <1>4, <1>5, <1>6
<1> QED  BY <1>7 DEF new, next, list

\* Storing under the next number adds a picture to the list.
LEMMA StoreAppends ==
  ASSUME TypeOK, FolderInv, NEW c \in Category, NEW photo \in Photo,
         files'[c] = Updated(files[c], Count(files[c]), photo)
  PROVE  Folder(c)!Add(photo)
<1>1. /\ Count(files[c]) \in Nat /\ DOMAIN files[c] = 0 .. Count(files[c]) - 1
      /\ \A i \in DOMAIN files[c] : files[c][i] \in Photo
  BY CountType DEF FolderInv, ItemsContiguous, TypeOK, FoldersOK, IsDict
<1>2. Listed(files'[c]) = Append(Listed(files[c]), photo)
  <2> DEFINE n == Count(files[c])
             folder == files[c]
  <2>1. files'[c] = Updated(folder, n, photo)
    OBVIOUS
  <2>2. n \in Nat /\ DOMAIN folder = 0 .. n - 1 /\ \A i \in 0 .. n - 1 : folder[i] \in Photo
    BY <1>1
  <2> HIDE DEF n, folder
  <2>3. Listed(Updated(folder, n, photo)) = Append(Listed(folder), photo)
    BY <2>2, NextListed
  <2> QED  BY <2>1, <2>3 DEF folder
<1>3. Pictures(c)' = Append(Pictures(c), photo)
  BY <1>2, PicturesListed
<1> QED  BY <1>3 DEF Folder!Add

LEMMA FolderStepRefines ==
  TypeOK /\ FolderInv /\ [Next]_vars =>
    \A c \in Category : files'[c] # files[c] => FolderWrite(c)
<1> SUFFICES ASSUME TypeOK, FolderInv, [Next]_vars, NEW c \in Category, files'[c] # files[c]
             PROVE  FolderWrite(c)
  OBVIOUS
<1>1. PICK t \in Tap : PutLands(t) \/ OrphanLands(t)
  BY DEF Next, vars, OpenCamera, CancelCamera, Restart, ShowRow, TapAdd, TapProgress, PutHeard,
         PutUnheard, PutError, FetchProgress, ListAnswered, ListingFails, HandleListing, Notify,
         DownloadAnswered, HandleDownload, DownloadFails
<1> DEFINE k == taps[t].num
           photo == taps[t].photo
           n == Count(files[c])
           old == Pictures(c)
           new == [i \in { j + 1 : j \in DOMAIN files'[c] } |-> files'[c][i - 1]]
<1>2. /\ t \in DOMAIN taps /\ k \in Nat /\ photo \in Photo /\ k <= Count(files[taps[t].cat])
      /\ files' = [files EXCEPT ![taps[t].cat] = Updated(files[taps[t].cat], k, photo)]
  BY <1>1 DEF TypeOK, IsDict, TapRecord, PutLands, OrphanLands, InStage, Store, FolderInv, TapsInReach
<1>3. taps[t].cat = c
  BY <1>2 DEF TypeOK, FoldersOK
<1>4. /\ k \in Nat /\ photo \in Photo /\ k <= n
      /\ files'[c] = Updated(files[c], k, photo)
  BY <1>2, <1>3 DEF TypeOK, FoldersOK
<1>5. /\ n \in Nat /\ DOMAIN files[c] = 0 .. n - 1
      /\ old = [i \in 1 .. n |-> files[c][i - 1]]
  <2>1. /\ n \in Nat /\ DOMAIN files[c] = 0 .. n - 1
        /\ \A i \in DOMAIN files[c] : files[c][i] \in Photo
    BY CountType DEF FolderInv, ItemsContiguous, TypeOK, FoldersOK, IsDict
  <2>2. Listed(files[c]) = [i \in 1 .. n |-> files[c][i - 1]]
    BY <2>1, ListedLength
  <2> QED  BY <2>1, <2>2, PicturesListed
<1>6. CASE k = n
  BY <1>4, <1>6, StoreAppends DEF FolderWrite, Folder!Next
<1>7. CASE k < n
  <2> HIDE DEF k, photo, n, old
  <2>1. { j + 1 : j \in DOMAIN files'[c] } = 1 .. n
    <3>1. DOMAIN files'[c] = 0 .. n - 1
      BY <1>4, <1>5, <1>7 DEF Updated
    <3> QED  BY <1>5, <3>1, ShiftedInterval
  <2>2. \A i \in 1 .. n : files'[c][i - 1] = IF i = k + 1 THEN photo ELSE files[c][i - 1]
    BY <1>4, <1>5, <1>7 DEF Updated
  <2>3. new = [old EXCEPT ![k + 1] = photo]
    BY <1>4, <1>5, <2>1, <2>2
  <2>4. k + 1 \in DOMAIN old
    BY <1>4, <1>5, <1>7
  <2>5. Pictures(c)' = new
    BY DEF Pictures
  <2> HIDE DEF new
  <2>6. Folder(c)!Replace(k + 1, photo)
    BY <2>3, <2>5 DEF Folder!Replace, old
  <2> QED  BY <1>4, <2>4, <2>6 DEF FolderWrite, Folder!Next, old
<1> QED  BY <1>4, <1>5, <1>6, <1>7

\* Every write to a folder replaces a photo of a gapless list or adds one.
THEOREM FoldersRefine == Spec => FolderSpec
<1>1. TypeOK /\ FolderInv /\ [Next]_vars =>
        [\A c \in Category : files'[c] # files[c] => FolderWrite(c)]_files
  BY FolderStepRefines
<1>2. Init => \A c \in Category : FolderEmpty(c)
  BY FolderInitRefines
<1> QED
  BY <1>1, <1>2, TypeInit, TypeStep, FolderInit, FolderStep, PTL DEF Spec, FolderSpec

-----------------------------------------------------------------------------
(* The slots have no gap *)

\* The order of the keys of one category: a strict total order of the numbers,
\* which the order of their decimal strings is.
KeyOrder ==
  \A i, j, k \in Nat :
    /\ ~ KeyBefore(i, i)
    /\ KeyBefore(i, j) /\ KeyBefore(j, k) => KeyBefore(i, k)
    /\ i = j \/ KeyBefore(i, j) \/ KeyBefore(j, i)

\* Sorting numbers n photos by 0 to n - 1: no two photos have the same rank.
LEMMA SortedGapless ==
  ASSUME KeyOrder, NEW images, IsDict(images, Nat, Photo), IsFiniteSet(DOMAIN images)
  PROVE  DOMAIN Sorted(images) = 0 .. Count(images) - 1
<1> DEFINE D == DOMAIN images
           before(k) == { j \in D \ {k} : KeyBefore(j, k) }
           rank == [k \in D |-> Cardinality(before(k))]
           n == Count(images)
<1>1. n \in Nat /\ D \subseteq Nat /\ IsFiniteSet(D) /\ Cardinality(D) = n
  BY FS_CardinalityType DEF Count, IsDict
<1>2. IsFiniteSet(0 .. n - 1) /\ Cardinality(0 .. n - 1) = n
  BY <1>1, FS_Interval
<1>3. DOMAIN Sorted(images) = { rank[k] : k \in D }
  BY DEF Sorted
<1>4. \A k \in D : rank[k] \in 0 .. n - 1
  <2>1. DOMAIN Sorted(images) \subseteq 0 .. n - 1
    BY SortedDict
  <2> HIDE DEF rank
  <2> QED  BY <1>3, <2>1
<1>5. ASSUME NEW k \in D, NEW l \in D, KeyBefore(k, l) PROVE rank[k] # rank[l]
  <2>1. before(k) \subseteq before(l)
    BY <1>1, <1>5 DEF KeyOrder
  <2>2. k \in before(l) /\ k \notin before(k)
    BY <1>1, <1>5 DEF KeyOrder
  <2>3. IsFiniteSet(before(l))
    <3>1. before(l) \subseteq D
      OBVIOUS
    <3> HIDE DEF before, D
    <3> QED  BY <1>1, <3>1, FS_Subset
  <2>4. rank[k] = Cardinality(before(k)) /\ rank[l] = Cardinality(before(l))
    OBVIOUS
  <2> HIDE DEF before, rank
  <2>5. Cardinality(before(l)) = Cardinality(before(k)) => before(l) = before(k)
    BY <2>1, <2>3, FS_Subset
  <2> QED  BY <2>2, <2>4, <2>5
<1>6. \A k, l \in D : rank[k] = rank[l] => k = l
  <2> HIDE DEF rank
  <2> QED  BY <1>1, <1>5 DEF KeyOrder
<1>7. rank \in [D -> 0 .. n - 1]
  BY <1>4
<1> HIDE DEF rank, D, n
<1>8. rank \in Injection(D, 0 .. n - 1)
  BY <1>6, <1>7 DEF Injection, IsInjective
<1>9. rank \in Surjection(D, 0 .. n - 1)
  BY <1>1, <1>2, <1>8, FS_Injection
<1>10. \A i \in 0 .. n - 1 : \E k \in D : rank[k] = i
  BY <1>9 DEF Surjection
<1> QED  BY <1>3, <1>4, <1>10 DEF n

\* The dictionary f has no gap: its numbers go from 0 to its count.
Gapless(f) == DOMAIN f = 0 .. Count(f) - 1

\* Storing a gapless row over a gapless row leaves no gap.
LEMMA OverlaidGapless ==
  ASSUME NEW f, NEW g, Gapless(f), Gapless(g), Count(f) \in Nat, Count(g) \in Nat
  PROVE  Gapless(Overlaid(f, g))
<1>1. DOMAIN Overlaid(f, g) = DOMAIN f \cup DOMAIN g
  BY DEF Overlaid
<1>2. PICK m \in {Count(f), Count(g)} : DOMAIN Overlaid(f, g) = 0 .. m - 1
  <2>1. CASE Count(f) <= Count(g)
    BY <1>1, <2>1 DEF Gapless
  <2>2. CASE Count(g) <= Count(f)
    BY <1>1, <2>2 DEF Gapless
  <2> QED  BY <2>1, <2>2
<1>3. m \in Nat
  BY <1>2
<1>4. Cardinality(0 .. m - 1) = m
  BY <1>3, FS_Interval
<1> QED  BY <1>2, <1>4 DEF Gapless, Count

SlotsGapless == \A d \in Device, c \in Category : Gapless(slots[d][c])

LEMMA SlotsStep ==
  ASSUME KeyOrder
  PROVE  TypeOK /\ SlotsGapless /\ [Next]_vars => SlotsGapless'
<1> SUFFICES ASSUME TypeOK, SlotsGapless, [Next]_vars PROVE SlotsGapless'
  OBVIOUS
<1>1. CASE UNCHANGED slots
  BY <1>1 DEF SlotsGapless
<1>2. ASSUME NEW f \in FetchId, Notify(f) PROVE SlotsGapless'
  <2> DEFINE d == f[1]
             c == f[2]
             images == fetches[f].images
  <2>1. d \in Device /\ c \in Category /\ IsDict(images, Nat, Photo) /\ IsFiniteSet(DOMAIN images)
    BY <1>2 DEF TypeOK, FetchesOK, FetchId, IsFetchRecord, Notify, IsFetch
  <2>2. slots' = [slots EXCEPT ![d][c] = FillSlots(slots[d][c], images)]
    BY <1>2 DEF Notify
  <2> HIDE DEF d, c, images
  <2>3. Gapless(Sorted(images)) /\ Count(Sorted(images)) \in Nat
    <3>1. Count(images) \in Nat
      BY <2>1, FS_CardinalityType DEF Count
    <3>2. DOMAIN Sorted(images) = 0 .. Count(images) - 1
      BY <2>1, SortedGapless
    <3>3. Cardinality(0 .. Count(images) - 1) = Count(images)
      BY <3>1, FS_Interval
    <3> QED  BY <3>1, <3>2, <3>3 DEF Gapless, Count
  <2>4. Gapless(slots[d][c]) /\ Count(slots[d][c]) \in Nat
    BY <2>1, FS_CardinalityType DEF SlotsGapless, TypeOK, SlotsOK, Count
  <2>5. Gapless(FillSlots(slots[d][c], images))
    BY <2>3, <2>4, OverlaidGapless DEF FillSlots
  <2> QED  BY <2>1, <2>2, <2>5 DEF SlotsGapless, TypeOK, SlotsOK
<1>3. ASSUME NEW d \in Device, Restart(d) PROVE SlotsGapless'
  <2>1. Gapless(EmptyDict)
    BY FS_EmptySet DEF Gapless, Count, EmptyDict
  <2> QED  BY <1>3, <2>1 DEF Restart, SlotsGapless, TypeOK, SlotsOK
<1>4. ASSUME NEW d \in Device,
             \/ OpenCamera(d) \/ CancelCamera(d)
             \/ \E c \in Category : ShowRow(d, c) \/ \E t \in Tap : TapAdd(d, c, t)
      PROVE  SlotsGapless'
  BY <1>1, <1>4 DEF OpenCamera, CancelCamera, ShowRow, TapAdd, closetVars
<1>5. ASSUME NEW t \in Tap, TapProgress(t) \/ OrphanLands(t) PROVE SlotsGapless'
  BY <1>1, <1>5 DEF TapProgress, PutLands, PutHeard, PutUnheard, PutError, OrphanLands, closetVars
<1>6. ASSUME NEW f \in FetchId, FetchProgress(f) PROVE SlotsGapless'
  BY <1>1, <1>2, <1>6 DEF FetchProgress, ListAnswered, ListingFails, HandleListing,
     DownloadAnswered, HandleDownload, DownloadFails, closetVars
<1> QED  BY <1>1, <1>3, <1>4, <1>5, <1>6 DEF Next, vars, closetVars

\* Every slot of a row up to its count holds a photo, and the next number is
\* never beyond the end of the folder, if keys are ordered like strings.
THEOREM SlotsStayInReach == ASSUME KeyOrder PROVE Spec => []SlotsInReach
<1>1. Init => SlotsGapless
  <2>1. Gapless(EmptyDict)
    BY FS_EmptySet DEF Gapless, Count, EmptyDict
  <2> QED  BY <2>1 DEF Init, SlotsGapless
<1>2. TypeOK /\ SlotsGapless /\ [Next]_vars => SlotsGapless'
  BY SlotsStep
<1>3. TypeOK /\ FolderInv /\ SlotsGapless => SlotsInReach
  <2> SUFFICES ASSUME TypeOK, FolderInv, SlotsGapless, NEW d \in Device, NEW c \in Category
               PROVE  DOMAIN slots[d][c] = 0 .. Count(slots[d][c]) - 1
                      /\ Count(slots[d][c]) <= Count(files[c])
    BY DEF SlotsInReach
  <2>1. DOMAIN slots[d][c] \subseteq DOMAIN files[c] /\ IsFiniteSet(DOMAIN files[c])
    BY DEF FolderInv, SlotsWithin, TypeOK, FoldersOK
  <2>2. Count(slots[d][c]) <= Count(files[c])
    BY <2>1, FS_Subset DEF Count
  <2> QED  BY <2>2 DEF SlotsGapless, Gapless
<1> QED  BY <1>1, <1>2, <1>3, TypeInit, TypeStep, FolderInit, FolderStep, PTL DEF Spec

-----------------------------------------------------------------------------
(* What a step may do to the rows *)

\* Slots change with a notification, the cache with a download, both with a restart.
LEMMA RowSteps ==
  ASSUME [Next]_vars
  PROVE  /\ UNCHANGED slots \/ (\E f \in FetchId : Notify(f)) \/ \E d \in Device : Restart(d)
         /\ \/ UNCHANGED itemCache
            \/ \E f \in FetchId : /\ f \in DOMAIN fetches
                                  /\ \E i \in Wanted(fetches[f].n) : HandleDownload(f, i)
            \/ \E d \in Device : Restart(d)
<1> USE DEF cameraVars, closetVars
<1>1. ASSUME NEW d \in Device,
             \/ OpenCamera(d) \/ CancelCamera(d)
             \/ \E c \in Category : ShowRow(d, c) \/ \E t \in Tap : TapAdd(d, c, t)
      PROVE  UNCHANGED << slots, itemCache >>
  BY <1>1 DEF OpenCamera, CancelCamera, ShowRow, TapAdd
<1>2. ASSUME NEW t \in Tap, TapProgress(t) \/ OrphanLands(t) PROVE UNCHANGED << slots, itemCache >>
  BY <1>2 DEF TapProgress, PutLands, PutHeard, PutUnheard, PutError, OrphanLands
<1>3. ASSUME NEW f \in FetchId, ListAnswered(f) \/ ListingFails(f) \/ HandleListing(f)
      PROVE  UNCHANGED << slots, itemCache >>
  BY <1>3 DEF ListAnswered, ListingFails, HandleListing
<1>4. ASSUME NEW f \in FetchId, NEW i, DownloadAnswered(f, i) \/ DownloadFails(f, i)
      PROVE  UNCHANGED << slots, itemCache >>
  BY <1>4 DEF DownloadAnswered, DownloadFails
<1>5. ASSUME NEW f \in FetchId PROVE Notify(f) => UNCHANGED itemCache
  BY DEF Notify
<1>6. ASSUME NEW f \in FetchId, NEW i PROVE HandleDownload(f, i) => UNCHANGED slots
  BY DEF HandleDownload
<1>7. UNCHANGED vars => UNCHANGED << slots, itemCache >>
  BY DEF vars
<1> QED  BY <1>1, <1>2, <1>3, <1>4, <1>5, <1>6, <1>7 DEF Next, FetchProgress

\* A fetch that is there after a step was left alone, has just been started, or
\* made the step itself.
LEMMA FetchSteps ==
  ASSUME TypeOK, [Next]_vars, NEW f \in DOMAIN fetches'
  PROVE  \/ f \in DOMAIN fetches /\ fetches'[f] = fetches[f]
         \/ fetches'[f] = NewFetch
         \/ /\ f \in DOMAIN fetches
            /\ \/ ListAnswered(f) \/ HandleListing(f)
               \/ \E i \in Wanted(fetches[f].n) :
                    DownloadAnswered(f, i) \/ HandleDownload(f, i) \/ DownloadFails(f, i)
<1> DEFINE Same == f \in DOMAIN fetches /\ fetches'[f] = fetches[f]
           New == fetches'[f] = NewFetch
           Moves == /\ f \in DOMAIN fetches
                    /\ \/ ListAnswered(f) \/ HandleListing(f)
                       \/ \E i \in Wanted(fetches[f].n) :
                            DownloadAnswered(f, i) \/ HandleDownload(f, i) \/ DownloadFails(f, i)
           Goal == Same \/ New \/ Moves
<1> USE DEF cameraVars, closetVars
<1>1. UNCHANGED fetches => Same
  OBVIOUS
<1>2. ASSUME NEW d, NEW cs, NEW cause, fetches' = StartFetches(d, cs, cause) PROVE Same \/ New
  BY <1>2 DEF StartFetches, Overlaid
<1>3. ASSUME NEW S, fetches' = Kept(fetches, S) PROVE Same
  BY <1>3 DEF Kept
<1>4. ASSUME NEW g \in FetchId, ListAnswered(g) \/ HandleListing(g) PROVE Same \/ Moves
  BY <1>4 DEF ListAnswered, HandleListing, IsFetch
<1>5. ASSUME NEW g \in FetchId, NEW i \in Wanted(fetches[g].n),
             DownloadAnswered(g, i) \/ HandleDownload(g, i) \/ DownloadFails(g, i)
      PROVE  Same \/ Moves
  BY <1>5 DEF DownloadAnswered, HandleDownload, DownloadFails, IsFetch
<1> HIDE DEF Same, New, Moves
<1>6. ASSUME NEW d \in Device, NEW c \in Category,
             ShowRow(d, c) \/ \E t \in Tap : TapAdd(d, c, t)
      PROVE  Goal
  BY <1>1, <1>2, <1>6 DEF ShowRow, TapAdd
<1>7. ASSUME NEW d \in Device, OpenCamera(d) \/ CancelCamera(d) \/ Restart(d) PROVE Goal
  BY <1>1, <1>3, <1>7 DEF OpenCamera, CancelCamera, Restart
<1>8. ASSUME NEW t \in Tap, TapProgress(t) \/ OrphanLands(t) PROVE Goal
  BY <1>1, <1>2, <1>8 DEF TapProgress, PutLands, PutHeard, PutUnheard, PutError, OrphanLands
<1>9. ASSUME NEW g \in FetchId, ListingFails(g) \/ Notify(g) PROVE Goal
  BY <1>3, <1>9 DEF ListingFails, Notify, Finish
<1>10. UNCHANGED vars => Goal
  BY <1>1 DEF vars
<1>11. Goal
  <2> HIDE DEF Goal
  <2>1. \A g \in FetchId : FetchProgress(g) => Goal
    BY <1>4, <1>5, <1>9 DEF FetchProgress, Goal
  <2> QED  BY <1>6, <1>7, <1>8, <1>10, <2>1 DEF Next
<1> QED  BY <1>11 DEF Same, New, Moves

\* A device's rows lose no slot before its app restarts.
THEOREM RowsOnlyGrow == Spec => SlotsGrow
<1>1. ASSUME TypeOK, [Next]_vars, NEW d \in Device, NEW c \in Category, ~ Restart(d)
      PROVE  DOMAIN slots[d][c] \subseteq DOMAIN slots'[d][c]
  <2>1. slots = [x \in Device |-> [y \in Category |-> slots[x][y]]]
    BY <1>1 DEF TypeOK, SlotsOK
  <2>2. ASSUME NEW f \in FetchId, Notify(f)
        PROVE  DOMAIN slots[d][c] \subseteq DOMAIN slots'[d][c]
    BY <2>1, <2>2 DEF Notify, FillSlots, Overlaid, FetchId
  <2>3. ASSUME NEW e \in Device, Restart(e) PROVE slots'[d] = slots[d]
    BY <1>1, <2>1, <2>3 DEF Restart
  <2> QED  BY <1>1, <2>2, <2>3, RowSteps
<1>2. TypeOK /\ [Next]_vars =>
        [\A d \in Device, c \in Category :
           ~ Restart(d) => DOMAIN slots[d][c] \subseteq DOMAIN slots'[d][c]]_vars
  BY <1>1
<1> QED  BY <1>2, TypeInit, TypeStep, PTL DEF Spec, SlotsGrow

-----------------------------------------------------------------------------
(* The dispatch group of a fetch *)

\* A listing of n files looks for n numbers.
LEMMA WantedCount ==
  ASSUME NEW n \in Nat
  PROVE  IsFiniteSet(Wanted(n)) /\ Cardinality(Wanted(n)) = n
<1>1. IsFiniteSet(0 .. n - 1) /\ Cardinality(0 .. n - 1) = n
  BY FS_Interval
<1> QED  BY <1>1 DEF Wanted

\* The accounts of a fetch: as many numbers are inside the group as its count
\* says, the downloads under way among them, and the others are collected.
Accounts(f, inside) ==
  /\ inside \in SUBSET Wanted(f.n)
  /\ Cardinality(inside) = f.left
  /\ f.asked \cup DOMAIN f.got \subseteq inside
  /\ f.asked \cap DOMAIN f.got = {}
  /\ Wanted(f.n) \ inside \subseteq DOMAIN f.images

GroupAccounts ==
  \A f \in DOMAIN fetches : fetches[f].stage = "loading" => \E inside : Accounts(fetches[f], inside)

\* The accounts of a fetch that has handled its listing, unless entries got lost.
LEMMA ListingAccounts ==
  ASSUME "race" \notin Faults, TypeOK, NEW f \in DOMAIN fetches, HandleListing(f)
  PROVE  Accounts(fetches'[f], fetches'[f].asked)
<1> DEFINE n == fetches[f].n
           cache == itemCache[f[1]]
           hits == [i \in { j \in Wanted(n) : CacheKey(f[2], j) \in DOMAIN cache }
                      |-> cache[CacheKey(f[2], i)]]
<1>1. \E images \in Collected(hits) :
        fetches' = [fetches EXCEPT ![f] = FetchRecord("loading", n, Wanted(n) \ DOMAIN hits, images)]
  BY DEF HandleListing
<1>2. DOMAIN hits \subseteq Wanted(n)
  OBVIOUS
<1> HIDE DEF hits, n
<1>3. fetches'[f] = FetchRecord("loading", n, Wanted(n) \ DOMAIN hits, hits)
  BY <1>1 DEF Collected
<1> QED  BY <1>2, <1>3 DEF Accounts, FetchRecord, EmptyDict

LEMMA GroupStep ==
  ASSUME "race" \notin Faults
  PROVE  TypeOK /\ GroupAccounts /\ [Next]_vars => GroupAccounts'
<1> SUFFICES ASSUME TypeOK, GroupAccounts, [Next]_vars,
                    NEW f \in DOMAIN fetches', fetches'[f].stage = "loading"
             PROVE  \E inside : Accounts(fetches'[f], inside)
  BY DEF GroupAccounts, Accounts
<1> DEFINE g == fetches[f]
<1>1. CASE f \in DOMAIN fetches /\ fetches'[f] = g
  BY <1>1 DEF GroupAccounts
<1>2. fetches'[f] # NewFetch
  BY DEF NewFetch, FetchRecord
<1>3. ASSUME f \in DOMAIN fetches, ListAnswered(f) PROVE FALSE
  BY <1>3 DEF ListAnswered, TypeOK, FetchesOK, IsFetchRecord
<1>4. ASSUME f \in DOMAIN fetches, HandleListing(f)
      PROVE  \E inside : Accounts(fetches'[f], inside)
  BY <1>4, ListingAccounts
<1>5. ASSUME f \in DOMAIN fetches, NEW i \in Wanted(g.n),
             DownloadAnswered(f, i) \/ HandleDownload(f, i) \/ DownloadFails(f, i)
      PROVE  \E inside : Accounts(fetches'[f], inside)
  <2>1. PICK inside : Accounts(g, inside)
    BY <1>5 DEF GroupAccounts, DownloadAnswered, HandleDownload, DownloadFails, IsFetch
  <2>2. IsFetchRecord(g) /\ g.n \in Nat
    BY <1>5 DEF TypeOK, FetchesOK, IsFetchRecord
  <2>3. IsFiniteSet(inside)
    <3>1. IsFiniteSet(Wanted(g.n))
      BY <2>2, FS_Interval DEF Wanted
    <3> QED  BY <2>1, <3>1, FS_Subset DEF Accounts
  <2>4. i \in inside => Cardinality(inside \ {i}) = g.left - 1
    <3>1. i \in inside => Cardinality(inside \ {i}) = Cardinality(inside) - 1
      BY <2>3, FS_RemoveElement
    <3> QED  BY <2>1, <3>1 DEF Accounts
  <2>5. CASE DownloadAnswered(f, i)
    <3>1. /\ i \in g.asked /\ fetches'[f].n = g.n /\ fetches'[f].left = g.left
          /\ fetches'[f].asked = g.asked \ {i} /\ fetches'[f].images = g.images
          /\ DOMAIN fetches'[f].got = DOMAIN g.got \cup {i}
      BY <1>5, <2>2, <2>5 DEF DownloadAnswered, IsFetchRecord, Updated
    <3> QED  BY <2>1, <3>1 DEF Accounts
  <2>6. CASE HandleDownload(f, i)
    <3>1. /\ i \in DOMAIN g.got /\ fetches'[f].n = g.n /\ fetches'[f].left = g.left - 1
          /\ fetches'[f].asked = g.asked
          /\ DOMAIN fetches'[f].images = DOMAIN g.images \cup {i}
          /\ DOMAIN fetches'[f].got = DOMAIN g.got \ {i}
      BY <1>5, <2>2, <2>6 DEF HandleDownload, IsFetchRecord, Updated, Kept
    <3>2. Accounts(fetches'[f], inside \ {i})
      BY <2>1, <2>4, <3>1 DEF Accounts
    <3> QED  BY <3>2
  <2>7. CASE DownloadFails(f, i)
    <3>1. /\ fetches'[f].n = g.n /\ fetches'[f].left = g.left
          /\ fetches'[f].asked = g.asked \ {i} /\ fetches'[f].images = g.images
          /\ fetches'[f].got = g.got
      BY <1>5, <2>2, <2>7 DEF DownloadFails, IsFetchRecord
    <3> QED  BY <2>1, <3>1 DEF Accounts
  <2> QED  BY <1>5, <2>5, <2>6, <2>7
<1> QED  BY <1>1, <1>2, <1>3, <1>4, <1>5, FetchSteps

\* An empty group has collected every file of the listing.
LEMMA NotifyComplete ==
  ASSUME KeyOrder, TypeOK, GroupAccounts, NEW f \in DOMAIN fetches, Notify(f)
  PROVE  /\ Wanted(fetches[f].n) \subseteq DOMAIN fetches[f].images
         /\ Wanted(fetches[f].n) \subseteq DOMAIN slots'[f[1]][f[2]]
<1> DEFINE g == fetches[f]
           images == g.images
<1>1. /\ IsFetchRecord(g) /\ g.n \in Nat /\ f[1] \in Device /\ f[2] \in Category
      /\ IsDict(images, Nat, Photo) /\ IsFiniteSet(DOMAIN images)
  BY DEF TypeOK, FetchesOK, FetchId, IsFetchRecord
<1>2. PICK inside : Accounts(g, inside)
  BY DEF GroupAccounts, Notify, IsFetch
<1>3. IsFiniteSet(Wanted(g.n)) /\ Cardinality(Wanted(g.n)) = g.n
  BY <1>1, WantedCount
<1>4. inside = {}
  <2>1. Cardinality(inside) = 0 /\ inside \subseteq Wanted(g.n)
    BY <1>2 DEF Notify, Accounts
  <2> QED  BY <1>3, <2>1, FS_Subset, FS_EmptySet
<1>5. Wanted(g.n) \subseteq DOMAIN images
  BY <1>2, <1>4 DEF Accounts
<1>6. g.n <= Count(images) /\ Count(images) \in Nat
  BY <1>1, <1>3, <1>5, FS_Subset, FS_CardinalityType DEF Count
<1>7. DOMAIN Sorted(images) = 0 .. Count(images) - 1
  BY <1>1, SortedGapless
<1>8. Wanted(g.n) \subseteq DOMAIN Sorted(images)
  BY <1>1, <1>6, <1>7 DEF Wanted
<1>9. slots'[f[1]][f[2]] = Overlaid(slots[f[1]][f[2]], Sorted(images))
  BY <1>1 DEF Notify, FillSlots, TypeOK, SlotsOK
<1>10. DOMAIN Sorted(images) \subseteq DOMAIN slots'[f[1]][f[2]]
  BY <1>9 DEF Overlaid
<1> QED  BY <1>5, <1>8, <1>10

LEMMA GroupInit == Init => GroupAccounts
BY DEF Init, EmptyDict, GroupAccounts

\* A fetch that completes fills as many slots as its listing had files, unless
\* the threads of its cache loop race.
THEOREM RowsAreComplete ==
  ASSUME KeyOrder, "race" \notin Faults
  PROVE  Spec => RowComplete
<1>1. TypeOK /\ GroupAccounts /\ [Next]_vars =>
        [\A f \in DOMAIN fetches :
           Notify(f) => Wanted(fetches[f].n) \subseteq DOMAIN slots'[f[1]][f[2]]]_vars
  BY NotifyComplete
<1> QED  BY <1>1, TypeInit, TypeStep, GroupInit, GroupStep, PTL DEF Spec, RowComplete

-----------------------------------------------------------------------------
(* Where photos come from *)

\* A dictionary holds a photo under a number.
Holds(images, i, p) == i \in DOMAIN images /\ images[i] = p

FetchHolds(f, i, p) == Holds(f.got, i, p) \/ Holds(f.images, i, p)

\* A photo is on its way to the rows of a category: cached under a number,
\* downloaded, or collected by a fetch.
Carried(c, i, p) ==
  \/ \E d \in Device : Holds(itemCache[d], CacheKey(c, i), p)
  \/ \E f \in DOMAIN fetches : f[2] = c /\ FetchHolds(fetches[f], i, p)

\* The sorted photos are the photos.
LEMMA SortedFrom ==
  ASSUME NEW images, NEW i, NEW p, Holds(Sorted(images), i, p)
  PROVE  \E j : Holds(images, j, p)
<1> DEFINE rank(k) == Cardinality({ j \in DOMAIN images \ {k} : KeyBefore(j, k) })
<1>1. i \in { rank(k) : k \in DOMAIN images }
      /\ Sorted(images)[i] = images[CHOOSE k \in DOMAIN images : rank(k) = i]
  BY DEF Holds, Sorted
<1> HIDE DEF rank
<1>2. (CHOOSE k \in DOMAIN images : rank(k) = i) \in DOMAIN images
  BY <1>1
<1> QED  BY <1>1, <1>2 DEF Holds

\* Two keys of the cache are the same only if category and number are.
LEMMA CacheKeys ==
  ASSUME NEW c, NEW i, NEW e, NEW j, CacheKey(c, i) = CacheKey(e, j)
  PROVE  c = e /\ i = j
BY DEF CacheKey

\* The cache takes photos from answers.
LEMMA CacheFrom ==
  ASSUME TypeOK, [Next]_vars, NEW d \in Device, NEW c, NEW i, NEW p,
         Holds(itemCache'[d], CacheKey(c, i), p)
  PROVE  Carried(c, i, p)
<1>1. itemCache = [x \in Device |-> itemCache[x]]
  BY DEF TypeOK, CacheOK
<1>2. CASE UNCHANGED itemCache
  BY <1>2 DEF Carried
<1>3. ASSUME NEW e \in Device, Restart(e) PROVE Carried(c, i, p)
  BY <1>1, <1>3 DEF Restart, Carried, Holds, EmptyDict
<1>4. ASSUME NEW f \in FetchId, f \in DOMAIN fetches, NEW j \in Wanted(fetches[f].n),
             HandleDownload(f, j)
      PROVE  Carried(c, i, p)
  <2> DEFINE e == f[1]
             got == fetches[f].got
             key == CacheKey(f[2], j)
  <2>1. /\ e \in Device /\ j \in DOMAIN got /\ got[j] \in Photo
        /\ key \in Category \X Nat /\ IsDict(itemCache[e], Category \X Nat, Photo)
    BY <1>4 DEF TypeOK, FetchesOK, FetchId, IsFetchRecord, HandleDownload, IsDict, CacheOK, CacheKey
  <2>2. PICK cache \in CachePuts(itemCache[e], key, got[j], CacheCapacity) :
           itemCache' = [itemCache EXCEPT ![e] = cache]
    BY <1>4 DEF HandleDownload
  <2>3. CASE d # e
    BY <1>1, <2>2, <2>3 DEF Carried
  <2>4. CASE d = e
    <3>1. CacheKey(c, i) \in DOMAIN cache /\ cache[CacheKey(c, i)] = p
      BY <1>1, <2>1, <2>2, <2>4 DEF Holds
    <3> HIDE DEF e, got, key
    <3>2. IF CacheKey(c, i) = key
            THEN cache[CacheKey(c, i)] = got[j]
            ELSE /\ CacheKey(c, i) \in DOMAIN itemCache[e]
                 /\ cache[CacheKey(c, i)] = itemCache[e][CacheKey(c, i)]
      BY <2>1, <2>2, <3>1, CachePutEntries
    <3>3. CASE CacheKey(c, i) = key
      BY <1>4, <2>1, <3>1, <3>2, <3>3, CacheKeys DEF key, got, Carried, FetchHolds, Holds
    <3>4. CASE CacheKey(c, i) # key
      BY <2>1, <3>1, <3>2, <3>4 DEF Carried, Holds
    <3> QED  BY <3>3, <3>4
  <2> QED  BY <2>3, <2>4
<1> QED  BY <1>2, <1>3, <1>4, RowSteps

\* A fetch takes photos from the folder and from the cache.
LEMMA FetchFrom ==
  ASSUME TypeOK, [Next]_vars, NEW f \in DOMAIN fetches', NEW i, NEW p, FetchHolds(fetches'[f], i, p)
  PROVE  Carried(f[2], i, p) \/ Holds(files[f[2]], i, p)
<1> DEFINE g == fetches[f]
<1>0. f \in DOMAIN fetches => IsFetchRecord(g) /\ f[1] \in Device
  BY DEF TypeOK, FetchesOK, FetchId
<1>1. CASE f \in DOMAIN fetches /\ fetches'[f] = g
  BY <1>1 DEF Carried
<1>2. fetches'[f] # NewFetch
  BY DEF NewFetch, FetchRecord, FetchHolds, Holds, EmptyDict
<1>3. ASSUME f \in DOMAIN fetches, ListAnswered(f) PROVE Carried(f[2], i, p)
  <2>1. fetches'[f].got = g.got /\ fetches'[f].images = g.images
    BY <1>0, <1>3 DEF ListAnswered, IsFetchRecord
  <2> QED  BY <1>3, <2>1 DEF Carried, FetchHolds
<1>4. ASSUME f \in DOMAIN fetches, HandleListing(f) PROVE Carried(f[2], i, p)
  <2> DEFINE n == g.n
             cache == itemCache[f[1]]
             hits == [k \in { j \in Wanted(n) : CacheKey(f[2], j) \in DOMAIN cache }
                        |-> cache[CacheKey(f[2], k)]]
  <2>1. PICK images \in Collected(hits) :
          fetches' = [fetches EXCEPT ![f] =
            FetchRecord("loading", n, Wanted(n) \ DOMAIN hits, images)]
    BY <1>4 DEF HandleListing
  <2>2. Holds(images, i, p)
    BY <1>4, <2>1 DEF FetchRecord, FetchHolds, Holds, EmptyDict
  <2>3. Holds(hits, i, p)
    <3> HIDE DEF hits
    <3> QED  BY <2>2 DEF Collected, Kept, Holds
  <2>4. Holds(cache, CacheKey(f[2], i), p)
    BY <2>3 DEF Holds
  <2> QED  BY <1>0, <1>4, <2>4 DEF Carried
<1>5. ASSUME f \in DOMAIN fetches, NEW j \in Wanted(g.n),
             DownloadAnswered(f, j) \/ HandleDownload(f, j) \/ DownloadFails(f, j)
      PROVE  Carried(f[2], i, p) \/ Holds(files[f[2]], i, p)
  <2>1. FetchHolds(g, i, p) => Carried(f[2], i, p)
    BY <1>5 DEF Carried
  <2>2. CASE DownloadAnswered(f, j)
    <3>1. /\ j \in DOMAIN files[f[2]] /\ fetches'[f].images = g.images
          /\ fetches'[f].got = Updated(g.got, j, files[f[2]][j])
      BY <1>0, <1>5, <2>2 DEF DownloadAnswered, IsFetchRecord
    <3> QED  BY <2>1, <3>1 DEF FetchHolds, Holds, Updated
  <2>3. CASE HandleDownload(f, j)
    <3>1. /\ j \in DOMAIN g.got /\ fetches'[f].images = Updated(g.images, j, g.got[j])
          /\ fetches'[f].got = Kept(g.got, DOMAIN g.got \ {j})
      BY <1>0, <1>5, <2>3 DEF HandleDownload, IsFetchRecord
    <3> QED  BY <2>1, <3>1 DEF FetchHolds, Holds, Updated, Kept
  <2>4. CASE DownloadFails(f, j)
    <3>1. fetches'[f].images = g.images /\ fetches'[f].got = g.got
      BY <1>0, <1>5, <2>4 DEF DownloadFails, IsFetchRecord
    <3> QED  BY <2>1, <3>1 DEF FetchHolds
  <2> QED  BY <1>5, <2>2, <2>3, <2>4
<1> QED  BY <1>1, <1>2, <1>3, <1>4, <1>5, FetchSteps

\* No step makes a photo up, or moves it to another number on its way to a row.
LEMMA CarriedFrom ==
  ASSUME TypeOK, [Next]_vars, NEW c, NEW i, NEW p, Carried(c, i, p)'
  PROVE  Carried(c, i, p) \/ Holds(files[c], i, p)
BY CacheFrom, FetchFrom DEF Carried

\* A row takes photos from the fetch that notifies it.
LEMMA SlotsFrom ==
  ASSUME TypeOK, [Next]_vars, NEW d \in Device, NEW c \in Category, NEW i, NEW p,
         Holds(slots'[d][c], i, p)
  PROVE  \/ Holds(slots[d][c], i, p)
         \/ \E f \in DOMAIN fetches : /\ Notify(f) /\ f[1] = d /\ f[2] = c
                                      /\ Holds(Sorted(fetches[f].images), i, p)
<1>1. slots = [x \in Device |-> [y \in Category |-> slots[x][y]]]
  BY DEF TypeOK, SlotsOK
<1>2. CASE UNCHANGED slots
  BY <1>2
<1>3. ASSUME NEW f \in FetchId, Notify(f), ~ Holds(slots[d][c], i, p)
      PROVE  /\ f \in DOMAIN fetches /\ f[1] = d /\ f[2] = c
             /\ Holds(Sorted(fetches[f].images), i, p)
  <2>1. slots' = [slots EXCEPT ![f[1]][f[2]] = Overlaid(slots[f[1]][f[2]], Sorted(fetches[f].images))]
        /\ f \in DOMAIN fetches
    BY <1>3 DEF Notify, FillSlots, IsFetch
  <2>2. f[1] = d /\ f[2] = c
    BY <1>1, <1>3, <2>1 DEF Holds
  <2>3. slots'[d][c] = Overlaid(slots[d][c], Sorted(fetches[f].images))
    BY <1>1, <2>1, <2>2
  <2> QED  BY <1>3, <2>1, <2>2, <2>3 DEF Holds, Overlaid
<1>4. ASSUME NEW e \in Device, Restart(e) PROVE Holds(slots[d][c], i, p)
  BY <1>1, <1>4 DEF Restart, Holds, EmptyDict
<1> QED  BY <1>2, <1>3, <1>4, RowSteps

\* Some tap added a photo to a category.
AddedBySome(c, p) == \E t \in DOMAIN taps : taps[t].cat = c /\ taps[t].photo = p

\* SlotsWereAdded says this of rows alone; it is inductive when it is said of
\* the folders and of all that is on the way to a row.
InUse(c, i, p) ==
  \/ Carried(c, i, p) \/ Holds(files[c], i, p)
  \/ \E d \in Device : Holds(slots[d][c], i, p)

Provenance == \A c \in Category : \A i, p : InUse(c, i, p) => AddedBySome(c, p)

\* A tap keeps its category, its photo, its number and its device.
LEMMA TapsStay ==
  ASSUME TypeOK, [Next]_vars, NEW t \in DOMAIN taps
  PROVE  /\ t \in DOMAIN taps'
         /\ taps'[t].cat = taps[t].cat /\ taps'[t].photo = taps[t].photo
         /\ taps'[t].num = taps[t].num /\ taps'[t].dev = taps[t].dev
<1> DEFINE Goal == /\ t \in DOMAIN taps'
                   /\ taps'[t].cat = taps[t].cat /\ taps'[t].photo = taps[t].photo
                   /\ taps'[t].num = taps[t].num /\ taps'[t].dev = taps[t].dev
<1>0. \A s \in DOMAIN taps : taps[s] \in TapRecord
  BY DEF TypeOK, IsDict
<1>1. UNCHANGED taps => Goal
  OBVIOUS
<1>2. ASSUME NEW d \in Device, Restart(d) PROVE Goal
  BY <1>0, <1>2 DEF Restart, Forgotten, TapRecord
<1>3. ASSUME NEW s \in Tap, TapProgress(s) \/ OrphanLands(s) PROVE Goal
  BY <1>0, <1>3 DEF TapProgress, PutLands, PutHeard, PutUnheard, PutError, OrphanLands, TapRecord
<1>4. ASSUME NEW d \in Device, NEW c \in Category, NEW s \in Tap, TapAdd(d, c, s) PROVE Goal
  BY <1>4 DEF TapAdd, Updated
<1>5. ASSUME NEW d \in Device,
             OpenCamera(d) \/ CancelCamera(d) \/ \E c \in Category : ShowRow(d, c)
      PROVE  UNCHANGED taps
  BY <1>5 DEF OpenCamera, CancelCamera, ShowRow
<1>6. ASSUME NEW f \in FetchId, FetchProgress(f) PROVE UNCHANGED taps
  BY <1>6 DEF FetchProgress, ListAnswered, ListingFails, HandleListing, Notify,
              DownloadAnswered, HandleDownload, DownloadFails
<1>7. UNCHANGED vars => UNCHANGED taps
  BY DEF vars
<1> HIDE DEF Goal
<1>8. Goal
  BY <1>1, <1>2, <1>3, <1>4, <1>5, <1>6, <1>7 DEF Next
<1> QED  BY <1>8 DEF Goal

\* A folder changes when a put lands, under its number and with its photo.
LEMMA FilesSteps ==
  ASSUME TypeOK, [Next]_vars, files' # files
  PROVE  \E t \in Tap : /\ PutLands(t) \/ OrphanLands(t)
                        /\ t \in DOMAIN taps /\ taps[t].stage \in {"putting", "orphan"}
                        /\ \A c \in Category :
                             files'[c] = IF c = taps[t].cat
                                           THEN Updated(files[c], taps[t].num, taps[t].photo)
                                           ELSE files[c]
<1>1. PICK t \in Tap : PutLands(t) \/ OrphanLands(t)
  BY DEF Next, vars, OpenCamera, CancelCamera, Restart, ShowRow, TapAdd, TapProgress, PutHeard,
         PutUnheard, PutError, FetchProgress, ListAnswered, ListingFails, HandleListing, Notify,
         DownloadAnswered, HandleDownload, DownloadFails
<1>2. t \in DOMAIN taps /\ taps[t].stage \in {"putting", "orphan"} /\ taps[t].cat \in Category
      /\ files' = [files EXCEPT ![taps[t].cat] =
                     Updated(files[taps[t].cat], taps[t].num, taps[t].photo)]
  BY <1>1 DEF PutLands, OrphanLands, InStage, Store, TypeOK, IsDict, TapRecord
<1>3. files = [c \in Category |-> files[c]]
  BY DEF TypeOK, FoldersOK
<1> QED  BY <1>1, <1>2, <1>3

LEMMA ProvenanceStep == TypeOK /\ Provenance /\ [Next]_vars => Provenance'
<1> SUFFICES ASSUME TypeOK, Provenance, [Next]_vars, NEW c \in Category, NEW i, NEW p,
                    InUse(c, i, p)'
             PROVE  AddedBySome(c, p)'
  BY DEF Provenance
<1> USE DEF InUse
<1>1. AddedBySome(c, p) => AddedBySome(c, p)'
  BY TapsStay DEF AddedBySome
<1>2. CASE Carried(c, i, p)'
  BY <1>1, <1>2, CarriedFrom DEF Provenance
<1>3. ASSUME NEW d \in Device, Holds(slots'[d][c], i, p) PROVE AddedBySome(c, p)
  <2>1. CASE Holds(slots[d][c], i, p)
    BY <2>1 DEF Provenance
  <2>2. ASSUME NEW f \in DOMAIN fetches, f[2] = c, Holds(Sorted(fetches[f].images), i, p)
        PROVE  AddedBySome(c, p)
    <3>1. PICK j : Holds(fetches[f].images, j, p)
      BY <2>2, SortedFrom
    <3> QED  BY <2>2, <3>1 DEF Carried, FetchHolds, Provenance
  <2> QED  BY <1>3, <2>1, <2>2, SlotsFrom
<1>4. ASSUME Holds(files'[c], i, p) PROVE AddedBySome(c, p)
  <2>1. CASE Holds(files[c], i, p)
    BY <2>1 DEF Provenance
  <2>2. CASE ~ Holds(files[c], i, p)
    <3>1. files' # files
      BY <1>4, <2>2
    <3>2. PICK t \in Tap : /\ t \in DOMAIN taps
                           /\ files'[c] = IF c = taps[t].cat
                                            THEN Updated(files[c], taps[t].num, taps[t].photo)
                                            ELSE files[c]
      BY <3>1, FilesSteps
    <3> QED  BY <1>4, <2>2, <3>2 DEF Holds, Updated, AddedBySome
  <2> QED  BY <2>1, <2>2
<1> QED  BY <1>1, <1>2, <1>3, <1>4

\* Every photo in a row was added to the row's category by some tap.
THEOREM SlotsHoldAdded == Spec => []SlotsWereAdded
<1>1. Init => Provenance
  BY DEF Init, EmptyDict, Provenance, InUse, Carried, Holds
<1>2. Provenance => SlotsWereAdded
  <2> SUFFICES ASSUME Provenance, NEW d \in Device, NEW c \in Category, NEW i \in DOMAIN slots[d][c]
               PROVE  AddedBySome(c, slots[d][c][i])
    BY DEF SlotsWereAdded, AddedBySome
  <2>1. Holds(slots[d][c], i, slots[d][c][i])
    BY DEF Holds
  <2> QED  BY <2>1 DEF Provenance, InUse
<1> QED  BY <1>1, <1>2, TypeInit, TypeStep, ProvenanceStep, PTL DEF Spec

-----------------------------------------------------------------------------
(* One device and a patient user *)

\* What the theorems about patient users assume: there is one device, no
\* listing fails and the threads of the cache loop do not race.
OneDevice == (\A d, e \in Device : d = e) /\ "list" \notin Faults /\ "race" \notin Faults

\* No fetch of a category is under way.
Idle(c) == \A f \in DOMAIN fetches : f[2] # c

\* The photos of a category that were acknowledged are below number m of the folder.
AddedBelow(ts, folder, c, m) ==
  \A t \in DOMAIN ts : ts[t].stage = "added" /\ ts[t].cat = c =>
    \E i : Holds(folder, i, ts[t].photo) /\ i < m

OneAtATime ==
  \A s, t \in DOMAIN taps : taps[s].stage \in Unsettled /\ taps[t].stage \in Unsettled => s = t

\* While a put of this process is under way its row exists and is not fetched,
\* and its camera screen stays.
PutsHeld ==
  \A t \in DOMAIN taps : taps[t].stage \in {"putting", "landed"} =>
    /\ taps[t].cat \in rows[taps[t].dev] /\ Idle(taps[t].cat)
    /\ camera[taps[t].dev] = taps[t].photo

LandedThere ==
  \A t \in DOMAIN taps : taps[t].stage = "landed" =>
    Holds(files[taps[t].cat], taps[t].num, taps[t].photo)

\* A put under way will hit no photo that was acknowledged, ...
PutsAbove ==
  \A t \in DOMAIN taps : taps[t].stage \in {"putting", "orphan"} =>
    AddedBelow(taps, files[taps[t].cat], taps[t].cat, taps[t].num)

\* ... nor will the next one, for it is numbered by a row that has them all, ...
RowsAbove ==
  \A d \in Device : \A c \in rows[d] :
    Idle(c) => AddedBelow(taps, files[c], c, Count(slots[d][c]))

\* ... because the fetches have.
FetchesAbove ==
  \A f \in DOMAIN fetches :
    fetches[f].stage # "listing" => AddedBelow(taps, files[f[2]], f[2], fetches[f].n)

AddedKept == \A c \in Category : AddedBelow(taps, files[c], c, Count(files[c]))

AddedInv == PutsAbove /\ RowsAbove /\ FetchesAbove /\ AddedKept
PatientInv == OneAtATime /\ PutsHeld /\ LandedThere /\ AddedInv

\* More numbers are below a greater one.
LEMMA AddedBelowMore ==
  ASSUME NEW ts, NEW folder, DOMAIN folder \subseteq Nat, NEW c, NEW m \in Nat, NEW n \in Nat, m <= n,
         AddedBelow(ts, folder, c, m)
  PROVE  AddedBelow(ts, folder, c, n)
BY DEF AddedBelow, Holds

\* No photo more has been acknowledged.
NoneAdded(ts, old) ==
  \A t \in DOMAIN ts : ts[t].stage = "added" =>
    /\ t \in DOMAIN old /\ old[t].stage = "added"
    /\ old[t].cat = ts[t].cat /\ old[t].photo = ts[t].photo

LEMMA NoneAddedBelow ==
  ASSUME NEW ts, NEW old, NoneAdded(ts, old), NEW folder, NEW c, NEW m, AddedBelow(old, folder, c, m)
  PROVE  AddedBelow(ts, folder, c, m)
BY DEF AddedBelow, NoneAdded

\* A photo that is stored above all acknowledged ones hides none of them.
LEMMA StoreAbove ==
  ASSUME NEW ts, NEW folder, DOMAIN folder \subseteq Nat, NEW c, NEW k \in Nat, NEW photo,
         AddedBelow(ts, folder, c, k), NEW m \in Nat, AddedBelow(ts, folder, c, m)
  PROVE  AddedBelow(ts, Updated(folder, k, photo), c, m)
<1> SUFFICES ASSUME NEW t \in DOMAIN ts, ts[t].stage = "added" /\ ts[t].cat = c
             PROVE  \E i : Holds(Updated(folder, k, photo), i, ts[t].photo) /\ i < m
  BY DEF AddedBelow
<1>1. PICK i : Holds(folder, i, ts[t].photo) /\ i < k
  BY DEF AddedBelow
<1>2. PICK j : Holds(folder, j, ts[t].photo) /\ j < m
  BY DEF AddedBelow
<1>3. i \in Nat /\ j \in Nat
  BY <1>1, <1>2 DEF Holds
<1>4. CASE j < k
  BY <1>2, <1>3, <1>4 DEF Holds, Updated
<1>5. CASE ~ (j < k)
  <2>1. i < m /\ i # k
    BY <1>1, <1>2, <1>3, <1>5
  <2> QED  BY <1>1, <2>1 DEF Holds, Updated
<1> QED  BY <1>4, <1>5

\* Who taps waits for the earlier taps and for the row; who waits for an answer
\* does not cancel.
LEMMA PatienceMeans ==
  ASSUME TypeOK, Patience
  PROVE  /\ \A d \in Device, c \in Category, t \in Tap : TapAdd(d, c, t) =>
              c \in rows[d] /\ Idle(c) /\ \A s \in DOMAIN taps : taps[s].stage \in Settled
         /\ \A d \in Device : CancelCamera(d) =>
              \A t \in DOMAIN taps : taps[t].dev = d => taps[t].stage \in Settled
<1>1. ASSUME NEW d \in Device, NEW c \in Category, NEW t \in Tap, TapAdd(d, c, t)
      PROVE  c \in rows[d] /\ Idle(c) /\ \A s \in DOMAIN taps : taps[s].stage \in Settled
  <2>1. t \in DOMAIN taps' \ DOMAIN taps /\ taps'[t].cat = c /\ taps'[t].dev = d
    BY <1>1 DEF TapAdd, Updated
  <2> QED  BY <2>1 DEF Patience, Idle
<1> QED  BY <1>1 DEF Patience

\* A step that changes neither folders, taps, rows nor slots, and moves no fetch
\* to another listing.
Quiet ==
  /\ UNCHANGED << files, taps, camera, rows, slots >> /\ DOMAIN fetches' = DOMAIN fetches
  /\ \A f \in DOMAIN fetches : /\ fetches'[f].n = fetches[f].n
                               /\ fetches[f].stage = "listing" => fetches'[f].stage = "listing"

LEMMA QuietSteps ==
  ASSUME TypeOK, NEW f \in FetchId, NEW i,
         HandleListing(f) \/ DownloadAnswered(f, i) \/ HandleDownload(f, i) \/ DownloadFails(f, i)
  PROVE  Quiet
<1>0. \A g \in DOMAIN fetches : IsFetchRecord(fetches[g])
  BY DEF TypeOK, FetchesOK
<1> USE DEF cameraVars, closetVars
<1>1. CASE HandleListing(f)
  BY <1>1 DEF HandleListing, IsFetch, FetchRecord, Quiet
<1>2. CASE DownloadAnswered(f, i)
  BY <1>0, <1>2 DEF DownloadAnswered, IsFetch, IsFetchRecord, Quiet
<1>3. CASE HandleDownload(f, i)
  BY <1>0, <1>3 DEF HandleDownload, IsFetch, IsFetchRecord, Quiet
<1>4. CASE DownloadFails(f, i)
  BY <1>0, <1>4 DEF DownloadFails, IsFetch, IsFetchRecord, Quiet
<1> QED  BY <1>1, <1>2, <1>3, <1>4

\* What leaves folders and acknowledgements alone keeps each part of AddedInv.
Aside == NoneAdded(taps', taps) /\ files' = files

LEMMA PutsAboveStay ==
  ASSUME PutsAbove, Aside,
         \A t \in DOMAIN taps' : taps'[t].stage \in {"putting", "orphan"} =>
           /\ t \in DOMAIN taps /\ taps[t].stage \in {"putting", "orphan"}
           /\ taps'[t].cat = taps[t].cat /\ taps'[t].num = taps[t].num
  PROVE  PutsAbove'
BY NoneAddedBelow DEF PutsAbove, Aside

LEMMA RowsAboveStay ==
  ASSUME RowsAbove, Aside,
         \A d \in Device : \A c \in rows'[d] : Idle(c)' =>
           c \in rows[d] /\ Idle(c) /\ slots'[d][c] = slots[d][c]
  PROVE  RowsAbove'
BY NoneAddedBelow DEF RowsAbove, Aside

LEMMA FetchesAboveStay ==
  ASSUME FetchesAbove, Aside,
         \A f \in DOMAIN fetches' : fetches'[f].stage # "listing" =>
           /\ f \in DOMAIN fetches /\ fetches[f].stage # "listing"
           /\ fetches'[f].n = fetches[f].n
  PROVE  FetchesAbove'
BY NoneAddedBelow DEF FetchesAbove, Aside

LEMMA AddedKeptStay == ASSUME AddedKept, Aside PROVE AddedKept'
BY NoneAddedBelow DEF AddedKept, Aside

\* What a patient step keeps.
Patient == TypeOK /\ FolderInv /\ PatientInv /\ Next /\ Patience

LEMMA QuietPatient == ASSUME Patient, Quiet PROVE PatientInv'
<1>1. NoneAdded(taps', taps) /\ Aside
  BY DEF Quiet, NoneAdded, Aside
<1>2. \A c : Idle(c)' <=> Idle(c)
  BY DEF Quiet, Idle
<1>3. PutsAbove'
  BY <1>1, PutsAboveStay DEF Patient, PatientInv, AddedInv, Quiet
<1>4. RowsAbove'
  BY <1>1, <1>2, RowsAboveStay DEF Patient, PatientInv, AddedInv, Quiet
<1>5. FetchesAbove'
  BY <1>1, FetchesAboveStay DEF Patient, PatientInv, AddedInv, Quiet
<1>6. AddedKept'
  BY <1>1, AddedKeptStay DEF Patient, PatientInv, AddedInv
<1>7. OneAtATime' /\ PutsHeld' /\ LandedThere'
  BY <1>2 DEF Patient, PatientInv, Quiet, OneAtATime, PutsHeld, LandedThere
<1> QED  BY <1>3, <1>4, <1>5, <1>6, <1>7 DEF PatientInv, AddedInv

LEMMA ListPatient ==
  ASSUME Patient, NEW f \in FetchId, ListAnswered(f)
  PROVE  PatientInv'
<1> USE DEF cameraVars, closetVars
<1>1. /\ UNCHANGED << files, taps, camera, rows, slots >> /\ DOMAIN fetches' = DOMAIN fetches
      /\ f \in DOMAIN fetches /\ f[2] \in Category /\ fetches'[f].n = Count(files[f[2]])
      /\ \A g \in DOMAIN fetches \ {f} : fetches'[g] = fetches[g]
  BY DEF ListAnswered, IsFetch, Patient, TypeOK, FetchesOK, FetchId, IsFetchRecord
<1>2. NoneAdded(taps', taps) /\ Aside
  BY <1>1 DEF NoneAdded, Aside
<1>3. \A c : Idle(c)' <=> Idle(c)
  BY <1>1 DEF Idle
<1>4. PutsAbove'
  BY <1>1, <1>2, PutsAboveStay DEF Patient, PatientInv, AddedInv
<1>5. RowsAbove'
  BY <1>1, <1>2, <1>3, RowsAboveStay DEF Patient, PatientInv, AddedInv
<1>6. FetchesAbove'
  BY <1>1 DEF Patient, PatientInv, AddedInv, FetchesAbove, AddedKept
<1>7. AddedKept'
  BY <1>2, AddedKeptStay DEF Patient, PatientInv, AddedInv
<1>8. OneAtATime' /\ PutsHeld' /\ LandedThere'
  BY <1>1, <1>3 DEF Patient, PatientInv, OneAtATime, PutsHeld, LandedThere
<1> QED  BY <1>4, <1>5, <1>6, <1>7, <1>8 DEF PatientInv, AddedInv

\* How far a row reaches once a fetch has filled it.
LEMMA NotifyCount ==
  ASSUME KeyOrder, TypeOK, [Next]_vars, GroupAccounts, NEW f \in DOMAIN fetches, Notify(f)
  PROVE  /\ f[1] \in Device /\ f[2] \in Category
         /\ fetches[f].n <= Count(slots'[f[1]][f[2]])
         /\ fetches[f].n \in Nat /\ Count(slots'[f[1]][f[2]]) \in Nat
<1>1. f[1] \in Device /\ f[2] \in Category /\ fetches[f].n \in Nat
  BY DEF TypeOK, FetchesOK, FetchId, IsFetchRecord
<1>2. IsFiniteSet(DOMAIN slots'[f[1]][f[2]])
  <2>1. TypeOK'
    BY TypeStep
  <2> QED  BY <1>1, <2>1 DEF TypeOK, SlotsOK
<1>3. Wanted(fetches[f].n) \subseteq DOMAIN slots'[f[1]][f[2]]
  BY NotifyComplete
<1>4. Cardinality(Wanted(fetches[f].n)) = fetches[f].n
  BY <1>1, WantedCount
<1> QED  BY <1>1, <1>2, <1>3, <1>4, FS_Subset, FS_CardinalityType DEF Count

LEMMA NotifyPatient ==
  ASSUME KeyOrder, OneDevice, Patient, GroupAccounts, NEW f \in FetchId, Notify(f)
  PROVE  PatientInv'
<1> USE DEF cameraVars, closetVars
<1> DEFINE c == f[2]
           d == f[1]
<1>1. /\ UNCHANGED << files, taps, camera, rows >> /\ f \in DOMAIN fetches
      /\ DOMAIN fetches' = DOMAIN fetches \ {f} /\ fetches[f].stage = "loading"
      /\ \A g \in DOMAIN fetches' : fetches'[g] = fetches[g]
  BY DEF Notify, Finish, Kept, IsFetch
<1>2. NoneAdded(taps', taps) /\ Aside
  BY <1>1 DEF NoneAdded, Aside
<1>3. TypeOK /\ [Next]_vars
  BY DEF Patient
<1>4. /\ d \in Device /\ c \in Category /\ fetches[f].n <= Count(slots'[d][c])
      /\ fetches[f].n \in Nat /\ Count(slots'[d][c]) \in Nat
  BY <1>1, <1>3, NotifyCount
<1>5. \A e \in Category \ {c} : slots'[d][e] = slots[d][e] /\ (Idle(e)' <=> Idle(e))
  BY <1>1, <1>3 DEF Notify, TypeOK, SlotsOK, Idle, FetchId
<1>6. PutsAbove'
  BY <1>1, <1>2, PutsAboveStay DEF Patient, PatientInv, AddedInv
<1>7. RowsAbove'
  <2> SUFFICES ASSUME NEW x \in Device, NEW e \in rows'[x], Idle(e)'
               PROVE  AddedBelow(taps', files'[e], e, Count(slots'[x][e]))
    BY DEF RowsAbove
  <2>1. x = d /\ e \in rows[d] /\ e \in Category
    BY <1>1, <1>3, <1>4 DEF OneDevice, TypeOK
  <2>2. CASE e = c
    <3>1. AddedBelow(taps, files[c], c, fetches[f].n) /\ DOMAIN files[c] \subseteq Nat
      BY <1>1, <1>4 DEF Patient, PatientInv, AddedInv, FetchesAbove, TypeOK, FoldersOK, IsDict
    <3>2. AddedBelow(taps, files[c], c, Count(slots'[d][c]))
      BY <1>4, <3>1, AddedBelowMore
    <3> QED  BY <1>1, <2>1, <2>2, <3>2
  <2>3. CASE e # c
    BY <1>1, <1>5, <2>1, <2>3 DEF Patient, PatientInv, AddedInv, RowsAbove
  <2> QED  BY <2>2, <2>3
<1>8. FetchesAbove'
  BY <1>1, <1>2, FetchesAboveStay DEF Patient, PatientInv, AddedInv
<1>9. AddedKept'
  BY <1>2, AddedKeptStay DEF Patient, PatientInv, AddedInv
<1>10. OneAtATime' /\ PutsHeld' /\ LandedThere'
  BY <1>1 DEF Patient, PatientInv, OneAtATime, PutsHeld, LandedThere, Idle
<1> QED  BY <1>6, <1>7, <1>8, <1>9, <1>10 DEF PatientInv, AddedInv

LEMMA ShowPatient ==
  ASSUME OneDevice, Patient, NEW d \in Device, NEW c \in Category, ShowRow(d, c)
  PROVE  PatientInv'
<1> USE DEF cameraVars, closetVars
<1> DEFINE new == << d, c, RowShown >>
<1>1. /\ UNCHANGED << files, taps, camera, slots >> /\ c \notin rows[d]
      /\ rows'[d] = rows[d] \cup {c}
      /\ DOMAIN fetches' = DOMAIN fetches \cup {new}
      /\ fetches'[new] = NewFetch
      /\ \A g \in DOMAIN fetches \ {new} : fetches'[g] = fetches[g]
  BY DEF ShowRow, StartFetches, Overlaid, Patient, TypeOK
<1>2. NoneAdded(taps', taps) /\ Aside
  BY <1>1 DEF NoneAdded, Aside
<1>3. ~ Idle(c)' /\ \A e : e # c => (Idle(e)' <=> Idle(e))
  <2>1. new[2] = c
    OBVIOUS
  <2> HIDE DEF new
  <2> QED  BY <1>1, <2>1 DEF Idle
<1>4. \A x \in Device : x = d
  BY DEF OneDevice
<1>5. PutsAbove'
  BY <1>1, <1>2, PutsAboveStay DEF Patient, PatientInv, AddedInv
<1>6. RowsAbove'
  <2>1. \A x \in Device : \A e \in rows'[x] : Idle(e)' =>
          e \in rows[x] /\ Idle(e) /\ slots'[x][e] = slots[x][e]
    BY <1>1, <1>3, <1>4
  <2> QED  BY <1>2, <2>1, RowsAboveStay DEF Patient, PatientInv, AddedInv
<1>7. FetchesAbove'
  <2>1. NewFetch.stage = "listing"
    BY DEF NewFetch, FetchRecord
  <2> QED  BY <1>1, <1>2, <2>1, FetchesAboveStay DEF Patient, PatientInv, AddedInv
<1>8. AddedKept'
  BY <1>2, AddedKeptStay DEF Patient, PatientInv, AddedInv
<1>9. OneAtATime' /\ LandedThere'
  BY <1>1 DEF Patient, PatientInv, OneAtATime, LandedThere
<1>10. PutsHeld'
  <2>1. \A t \in DOMAIN taps : taps[t].dev = d
    BY <1>4 DEF Patient, TypeOK, IsDict, TapRecord
  <2> QED  BY <1>1, <1>3, <2>1 DEF Patient, PatientInv, PutsHeld
<1> QED  BY <1>5, <1>6, <1>7, <1>8, <1>9, <1>10 DEF PatientInv, AddedInv

LEMMA CameraPatient ==
  ASSUME Patient, NEW d \in Device, OpenCamera(d) \/ CancelCamera(d)
  PROVE  PatientInv'
<1> USE DEF cameraVars, closetVars
<1>1. /\ UNCHANGED << files, taps, rows, slots, fetches >>
      /\ \A x \in Device \ {d} : camera'[x] = camera[x]
  BY DEF OpenCamera, CancelCamera, Patient, TypeOK
<1>2. NoneAdded(taps', taps) /\ Aside
  BY <1>1 DEF NoneAdded, Aside
<1>3. PutsAbove'
  BY <1>1, <1>2, PutsAboveStay DEF Patient, PatientInv, AddedInv
<1>4. RowsAbove'
  BY <1>1, <1>2, RowsAboveStay DEF Patient, PatientInv, AddedInv, Idle
<1>5. FetchesAbove'
  BY <1>1, <1>2, FetchesAboveStay DEF Patient, PatientInv, AddedInv
<1>6. AddedKept'
  BY <1>2, AddedKeptStay DEF Patient, PatientInv, AddedInv
<1>7. OneAtATime' /\ LandedThere'
  BY <1>1 DEF Patient, PatientInv, OneAtATime, LandedThere
<1>8. PutsHeld'
  <2> SUFFICES ASSUME NEW t \in DOMAIN taps, taps[t].stage \in {"putting", "landed"}
               PROVE  camera'[taps[t].dev] = taps[t].photo
    BY <1>1 DEF Patient, PatientInv, PutsHeld, Idle
  <2>1. /\ taps[t].dev \in Device /\ taps[t].photo # NoPhoto /\ taps[t].stage \notin Settled
        /\ camera[taps[t].dev] = taps[t].photo
    BY NoPhotoAssumption DEF Patient, TypeOK, IsDict, TapRecord, Settled, PatientInv, PutsHeld
  <2>2. taps[t].dev # d
    BY <2>1, PatienceMeans DEF OpenCamera, Patient
  <2> QED  BY <1>1, <2>1, <2>2
<1> QED  BY <1>3, <1>4, <1>5, <1>6, <1>7, <1>8 DEF PatientInv, AddedInv

LEMMA TapPatient ==
  ASSUME Patient, NEW d \in Device, NEW c \in Category, NEW t \in Tap, TapAdd(d, c, t)
  PROVE  PatientInv'
<1> USE DEF cameraVars, closetVars
<1>1. /\ UNCHANGED << files, camera, rows, slots, fetches >> /\ t \notin DOMAIN taps
      /\ DOMAIN taps' = DOMAIN taps \cup {t} /\ \A s \in DOMAIN taps : taps'[s] = taps[s]
      /\ taps'[t] = [dev |-> d, cat |-> c, photo |-> camera[d], num |-> FileCount(d, c),
                     stage |-> "putting"]
  BY DEF TapAdd, Updated
<1>2. NoneAdded(taps', taps) /\ Aside
  BY <1>1 DEF NoneAdded, Aside
<1>3. c \in rows[d] /\ Idle(c) /\ \A s \in DOMAIN taps : taps[s].stage \in Settled
  BY PatienceMeans DEF Patient
<1>4. PutsAbove'
  <2>1. AddedBelow(taps, files[c], c, FileCount(d, c))
    BY <1>3 DEF Patient, PatientInv, AddedInv, RowsAbove, FileCount
  <2>2. AddedBelow(taps', files'[c], c, FileCount(d, c))
    BY <1>1, <1>2, <2>1, NoneAddedBelow
  <2>3. \A s \in DOMAIN taps' : taps'[s].stage \in {"putting", "orphan"} => s = t
    BY <1>1, <1>3 DEF Settled
  <2> QED  BY <1>1, <2>2, <2>3 DEF PutsAbove
<1>5. RowsAbove'
  BY <1>1, <1>2, RowsAboveStay DEF Patient, PatientInv, AddedInv, Idle
<1>6. FetchesAbove'
  BY <1>1, <1>2, FetchesAboveStay DEF Patient, PatientInv, AddedInv
<1>7. AddedKept'
  BY <1>2, AddedKeptStay DEF Patient, PatientInv, AddedInv
<1>8. OneAtATime'
  BY <1>1, <1>3 DEF OneAtATime, Settled, Unsettled
<1>9. LandedThere'
  BY <1>1 DEF Patient, PatientInv, LandedThere
<1>10. PutsHeld'
  BY <1>1, <1>3 DEF Patient, PatientInv, PutsHeld, Idle
<1> QED  BY <1>4, <1>5, <1>6, <1>7, <1>8, <1>9, <1>10 DEF PatientInv, AddedInv

LEMMA LandPatient ==
  ASSUME Patient, NEW t \in Tap, PutLands(t) \/ OrphanLands(t)
  PROVE  PatientInv'
<1> USE DEF cameraVars, closetVars
<1> DEFINE c == taps[t].cat
           k == taps[t].num
           photo == taps[t].photo
<1>0. TypeOK /\ FolderInv /\ [Next]_vars
  BY DEF Patient
<1>1. /\ t \in DOMAIN taps /\ c \in Category /\ k \in Nat /\ taps[t].stage \in {"putting", "orphan"}
      /\ UNCHANGED << camera, rows, slots, fetches >> /\ DOMAIN taps' = DOMAIN taps
      /\ \A s \in DOMAIN taps \ {t} : taps'[s] = taps[s]
      /\ taps'[t].cat = c /\ taps'[t].num = k /\ taps'[t].photo = photo
      /\ taps'[t].dev = taps[t].dev
      /\ \/ taps[t].stage = "putting" /\ taps'[t].stage = "landed"
         \/ taps'[t].stage = "lost"
  BY <1>0 DEF PutLands, OrphanLands, InStage, TypeOK, IsDict, TapRecord
<1>2. /\ files'[c] = Updated(files[c], k, photo)
      /\ \A e \in Category \ {c} : files'[e] = files[e]
      /\ \A e \in Category : DOMAIN files[e] \subseteq Nat
  BY <1>0, <1>1 DEF PutLands, OrphanLands, Store, TypeOK, FoldersOK, IsDict
<1>3. NoneAdded(taps', taps)
  BY <1>1 DEF NoneAdded
<1>4. ASSUME NEW e \in Category, NEW m \in Nat, AddedBelow(taps, files[e], e, m)
      PROVE  AddedBelow(taps', files'[e], e, m)
  <2>1. CASE e = c
    <3>1. AddedBelow(taps, files[c], c, k)
      BY <1>1 DEF Patient, PatientInv, AddedInv, PutsAbove
    <3>2. AddedBelow(taps, Updated(files[c], k, photo), c, m)
      BY <1>1, <1>2, <1>4, <2>1, <3>1, StoreAbove
    <3> QED  BY <1>2, <1>3, <2>1, <3>2, NoneAddedBelow
  <2>2. CASE e # c
    BY <1>2, <1>3, <1>4, <2>2, NoneAddedBelow
  <2> QED  BY <2>1, <2>2
<1>5. /\ \A s \in DOMAIN taps : taps[s].cat \in Category /\ taps[s].num \in Nat
      /\ \A d \in Device, e \in Category : Count(slots[d][e]) \in Nat
      /\ \A d \in Device : rows[d] \subseteq Category
      /\ \A f \in DOMAIN fetches : fetches[f].n \in Nat /\ f[2] \in Category
      /\ \A e \in Category : /\ Count(files[e]) \in Nat /\ Count(files[e])' \in Nat
                             /\ Count(files[e]) <= Count(files[e])'
                             /\ DOMAIN files'[e] \subseteq Nat
  <2>1. \A e \in Category : /\ Count(files[e]) \in Nat /\ Count(files[e])' \in Nat
                            /\ Count(files[e]) <= Count(files[e])'
                            /\ DOMAIN files'[e] \subseteq Nat
    BY <1>0, FoldersGrow, CountType, TypeStep DEF TypeOK, FoldersOK, IsDict
  <2>2. \A d \in Device, e \in Category : Count(slots[d][e]) \in Nat
    BY <1>0, FS_CardinalityType DEF TypeOK, SlotsOK, Count
  <2> QED
    BY <1>0, <2>1, <2>2 DEF TypeOK, IsDict, TapRecord, FetchesOK, FetchId, IsFetchRecord
<1>6. \A s \in DOMAIN taps \ {t} : taps[s].stage \notin Unsettled
  BY <1>1 DEF Patient, PatientInv, OneAtATime, Unsettled
<1>7. PutsAbove'
  BY <1>1, <1>6 DEF PutsAbove, Unsettled
<1>8. RowsAbove'
  BY <1>1, <1>4, <1>5 DEF Patient, PatientInv, AddedInv, RowsAbove, Idle
<1>9. FetchesAbove'
  BY <1>1, <1>4, <1>5 DEF Patient, PatientInv, AddedInv, FetchesAbove
<1>10. AddedKept'
  <2> SUFFICES ASSUME NEW e \in Category PROVE AddedBelow(taps', files'[e], e, Count(files[e])')
    BY DEF AddedKept, Count
  <2>1. AddedBelow(taps', files'[e], e, Count(files[e]))
    BY <1>4, <1>5 DEF Patient, PatientInv, AddedInv, AddedKept
  <2> QED  BY <1>5, <2>1, AddedBelowMore
<1>11. OneAtATime'
  BY <1>1, <1>6 DEF OneAtATime
<1>12. LandedThere'
  <2>1. Holds(files'[c], k, photo)
    BY <1>2 DEF Holds, Updated
  <2>2. \A s \in DOMAIN taps' : taps'[s].stage = "landed" => s = t
    BY <1>1, <1>6 DEF Unsettled
  <2>3. Holds(files'[taps'[t].cat], taps'[t].num, taps'[t].photo)
    BY <1>1, <2>1
  <2> QED  BY <2>2, <2>3 DEF LandedThere
<1>13. PutsHeld'
  <2>1. \A s \in DOMAIN taps' :
          taps'[s].stage \in {"putting", "landed"} => s = t /\ taps[t].stage = "putting"
    BY <1>1, <1>6 DEF Unsettled
  <2>2. taps[t].stage = "putting" => /\ c \in rows[taps[t].dev] /\ Idle(c)
                                     /\ camera[taps[t].dev] = photo
    BY <1>1 DEF Patient, PatientInv, PutsHeld
  <2> QED  BY <1>1, <2>1, <2>2 DEF PutsHeld, Idle
<1> QED  BY <1>7, <1>8, <1>9, <1>10, <1>11, <1>12, <1>13 DEF PatientInv, AddedInv

LEMMA HeardPatient ==
  ASSUME OneDevice, Patient, NEW t \in Tap, PutHeard(t)
  PROVE  PatientInv'
<1> USE DEF cameraVars, closetVars
<1> DEFINE c == taps[t].cat
           d == taps[t].dev
           fresh == {d} \X rows[d] \X {t}
<1>0. TypeOK /\ FolderInv
  BY DEF Patient
<1>1. /\ t \in DOMAIN taps /\ c \in Category /\ d \in Device /\ taps[t].stage = "landed"
      /\ UNCHANGED << files, rows, slots >> /\ DOMAIN taps' = DOMAIN taps
      /\ \A s \in DOMAIN taps \ {t} : taps'[s] = taps[s]
      /\ taps'[t].stage = "added" /\ taps'[t].cat = c /\ taps'[t].photo = taps[t].photo
  BY <1>0 DEF PutHeard, InStage, TypeOK, IsDict, TapRecord
<1>2. /\ DOMAIN fetches' = DOMAIN fetches \cup fresh
      /\ \A f \in DOMAIN fetches' : \/ fetches'[f].stage = "listing"
                                    \/ f \in DOMAIN fetches /\ fetches'[f] = fetches[f]
  <2>1. fetches' = Overlaid(fetches, [f \in fresh |-> NewFetch]) /\ NewFetch.stage = "listing"
    BY DEF PutHeard, StartFetches, NewFetch, FetchRecord
  <2> HIDE DEF fresh
  <2> QED  BY <2>1 DEF Overlaid
<1>3. /\ c \in rows[d] /\ Idle(c) /\ Holds(files[c], taps[t].num, taps[t].photo)
      /\ \A x \in Device : x = d
      /\ \A s \in DOMAIN taps \ {t} : taps[s].stage \notin Unsettled
  BY <1>1 DEF OneDevice, Patient, PatientInv, OneAtATime, PutsHeld, LandedThere, Unsettled
<1>4. \A e \in rows[d] : ~ Idle(e)'
  <2>1. ASSUME NEW e \in rows[d] PROVE << d, e, t >> \in fresh /\ << d, e, t >>[2] = e
    OBVIOUS
  <2> HIDE DEF fresh
  <2> QED  BY <1>2, <2>1 DEF Idle
<1>5. ASSUME NEW e, e # c, NEW m, AddedBelow(taps, files[e], e, m)
      PROVE  AddedBelow(taps', files'[e], e, m)
  <2>1. \A s \in DOMAIN taps' : taps'[s].cat = e => s # t
    BY <1>1, <1>5
  <2> QED  BY <1>1, <1>5, <2>1 DEF AddedBelow
<1>6. PutsAbove' /\ OneAtATime' /\ LandedThere' /\ PutsHeld'
  <2>1. \A s \in DOMAIN taps' : taps'[s].stage \notin Unsettled
    BY <1>1, <1>3 DEF Unsettled
  <2> QED  BY <2>1 DEF PutsAbove, OneAtATime, LandedThere, PutsHeld, Unsettled
<1>7. RowsAbove'
  BY <1>1, <1>3, <1>4 DEF RowsAbove
<1>8. FetchesAbove'
  <2> SUFFICES ASSUME NEW f \in DOMAIN fetches, fetches[f].stage # "listing", fetches'[f] = fetches[f]
               PROVE  AddedBelow(taps', files'[f[2]], f[2], fetches[f].n)
    BY <1>2 DEF FetchesAbove
  <2>1. f[2] # c
    BY <1>3 DEF Idle
  <2> QED  BY <1>5, <2>1 DEF Patient, PatientInv, AddedInv, FetchesAbove
<1>9. AddedKept'
  <2> SUFFICES ASSUME NEW e \in Category PROVE AddedBelow(taps', files'[e], e, Count(files[e]))
    BY <1>1 DEF AddedKept, Count
  <2>1. AddedBelow(taps, files[e], e, Count(files[e]))
    BY DEF Patient, PatientInv, AddedInv, AddedKept
  <2>2. CASE e = c
    <3>1. taps[t].num < Count(files[c])
      BY <1>0, <1>1, <1>3, CountType DEF Holds, FolderInv, ItemsContiguous
    <3> SUFFICES ASSUME NEW s \in DOMAIN taps', taps'[s].stage = "added" /\ taps'[s].cat = c
                 PROVE  \E i : Holds(files[c], i, taps'[s].photo) /\ i < Count(files[c])
      BY <1>1, <2>2 DEF AddedBelow
    <3>2. CASE s = t
      BY <1>1, <1>3, <3>1, <3>2
    <3>3. CASE s # t
      BY <1>1, <2>1, <2>2, <3>3 DEF AddedBelow
    <3> QED  BY <3>2, <3>3
  <2>3. CASE e # c
    BY <1>5, <2>1, <2>3
  <2> QED  BY <2>2, <2>3
<1> QED  BY <1>6, <1>7, <1>8, <1>9 DEF PatientInv, AddedInv

LEMMA ErrorPatient ==
  ASSUME Patient, NEW t \in Tap, PutUnheard(t) \/ PutError(t)
  PROVE  PatientInv'
<1> USE DEF cameraVars, closetVars
<1>1. /\ t \in DOMAIN taps /\ UNCHANGED << files, camera, rows, slots, fetches >>
      /\ DOMAIN taps' = DOMAIN taps /\ \A s \in DOMAIN taps \ {t} : taps'[s] = taps[s]
      /\ taps'[t].cat = taps[t].cat /\ taps'[t].num = taps[t].num
      /\ \/ taps'[t].stage \in {"unheard", "failed", "lost"}
         \/ taps[t].stage = "putting" /\ taps'[t].stage = "orphan"
  <2>1. t \in DOMAIN taps /\ taps[t] \in TapRecord
    BY DEF PutUnheard, PutError, InStage, Patient, TypeOK, IsDict
  <2> QED  BY <2>1 DEF PutUnheard, PutError, InStage, TapRecord
<1>2. NoneAdded(taps', taps) /\ Aside
  BY <1>1 DEF NoneAdded, Aside
<1>3. PutsAbove'
  BY <1>1, <1>2, PutsAboveStay DEF Patient, PatientInv, AddedInv
<1>4. RowsAbove'
  BY <1>1, <1>2, RowsAboveStay DEF Patient, PatientInv, AddedInv, Idle
<1>5. FetchesAbove'
  BY <1>1, <1>2, FetchesAboveStay DEF Patient, PatientInv, AddedInv
<1>6. AddedKept'
  BY <1>2, AddedKeptStay DEF Patient, PatientInv, AddedInv
<1>7. OneAtATime' /\ LandedThere' /\ PutsHeld'
  BY <1>1 DEF Patient, PatientInv, OneAtATime, LandedThere, PutsHeld, Unsettled, Idle
<1> QED  BY <1>3, <1>4, <1>5, <1>6, <1>7 DEF PatientInv, AddedInv

LEMMA RestartPatient ==
  ASSUME OneDevice, Patient, NEW d \in Device, Restart(d)
  PROVE  PatientInv'
<1> USE DEF cameraVars, closetVars
<1>0. TypeOK /\ \A x \in Device : x = d
  BY DEF Patient, OneDevice
<1>1. /\ files' = files /\ rows'[d] = {} /\ DOMAIN taps' = DOMAIN taps
      /\ \A f \in DOMAIN fetches : f[1] = d
      /\ DOMAIN fetches' = {}
  BY <1>0 DEF Restart, TypeOK, FetchesOK, FetchId, Kept
<1>2. \A t \in DOMAIN taps :
        /\ taps'[t].cat = taps[t].cat /\ taps'[t].num = taps[t].num /\ taps'[t].photo = taps[t].photo
        /\ \/ taps[t].stage = "putting" /\ taps'[t].stage = "orphan"
           \/ taps[t].stage = "landed" /\ taps'[t].stage = "lost"
           \/ taps[t].stage \notin {"putting", "landed"} /\ taps'[t].stage = taps[t].stage
  BY <1>0 DEF Restart, Forgotten, TypeOK, IsDict, TapRecord
<1>3. NoneAdded(taps', taps) /\ Aside
  BY <1>1, <1>2 DEF NoneAdded, Aside
<1>4. PutsAbove'
  <2>1. \A t \in DOMAIN taps' : taps'[t].stage \in {"putting", "orphan"} =>
          /\ t \in DOMAIN taps /\ taps[t].stage \in {"putting", "orphan"}
          /\ taps'[t].cat = taps[t].cat /\ taps'[t].num = taps[t].num
    BY <1>1, <1>2
  <2> QED  BY <1>3, <2>1, PutsAboveStay DEF Patient, PatientInv, AddedInv
<1>5. RowsAbove' /\ FetchesAbove'
  BY <1>0, <1>1 DEF RowsAbove, FetchesAbove
<1>6. AddedKept'
  BY <1>3, AddedKeptStay DEF Patient, PatientInv, AddedInv
<1>7. OneAtATime'
  BY <1>1, <1>2 DEF Patient, PatientInv, OneAtATime, Unsettled
<1>8. LandedThere' /\ PutsHeld'
  BY <1>1, <1>2 DEF LandedThere, PutsHeld
<1> QED  BY <1>4, <1>5, <1>6, <1>7, <1>8 DEF PatientInv, AddedInv

LEMMA PatientStep ==
  ASSUME KeyOrder, OneDevice
  PROVE  TypeOK /\ FolderInv /\ GroupAccounts /\ PatientInv /\ [Next /\ Patience]_vars => PatientInv'
<1> SUFFICES ASSUME TypeOK, FolderInv, GroupAccounts, PatientInv, [Next /\ Patience]_vars
             PROVE  PatientInv'
  OBVIOUS
<1>1. CASE UNCHANGED vars
  BY <1>1 DEF vars, cameraVars, closetVars, PatientInv, OneAtATime, PutsHeld, LandedThere, AddedInv,
              PutsAbove, RowsAbove, FetchesAbove, AddedKept, Idle
<1>2. CASE Next /\ Patience
  <2>1. Patient
    BY <1>2 DEF Patient
  <2>2. ASSUME NEW f \in FetchId PROVE ~ ListingFails(f)
    BY DEF ListingFails, OneDevice
  <2>3. ASSUME NEW f \in FetchId, FetchProgress(f) PROVE PatientInv'
    <3>1. CASE Notify(f)
      BY <2>1, <3>1, NotifyPatient
    <3>2. CASE ListAnswered(f)
      BY <2>1, <3>2, ListPatient
    <3>3. ASSUME NEW i, \/ HandleListing(f) \/ DownloadAnswered(f, i)
                        \/ HandleDownload(f, i) \/ DownloadFails(f, i)
          PROVE  PatientInv'
      BY <2>1, <3>3, QuietSteps, QuietPatient
    <3> QED  BY <2>2, <2>3, <3>1, <3>2, <3>3 DEF FetchProgress
  <2>4. ASSUME NEW d \in Device,
               \/ OpenCamera(d) \/ CancelCamera(d) \/ Restart(d)
               \/ \E c \in Category : ShowRow(d, c) \/ \E t \in Tap : TapAdd(d, c, t)
        PROVE  PatientInv'
    BY <2>1, <2>4, CameraPatient, RestartPatient, ShowPatient, TapPatient
  <2>5. ASSUME NEW t \in Tap, TapProgress(t) \/ OrphanLands(t) PROVE PatientInv'
    BY <2>1, <2>5, LandPatient, HeardPatient, ErrorPatient DEF TapProgress
  <2> QED  BY <1>2, <2>3, <2>4, <2>5 DEF Next
<1> QED  BY <1>1, <1>2

LEMMA PatientInit == Init => PatientInv
BY DEF Init, EmptyDict, PatientInv, OneAtATime, PutsHeld, LandedThere, AddedInv, PutsAbove,
       RowsAbove, FetchesAbove, AddedKept, AddedBelow

LEMMA PatientInvariant ==
  ASSUME KeyOrder, OneDevice
  PROVE  PatientSpec => [](TypeOK /\ FolderInv /\ GroupAccounts /\ PatientInv)
<1>1. [Next /\ Patience]_vars => [Next]_vars
  OBVIOUS
<1>2. "race" \notin Faults
  BY DEF OneDevice
<1>3. TypeOK /\ GroupAccounts /\ [Next]_vars => GroupAccounts'
  BY <1>2, GroupStep
<1> QED
  BY <1>1, <1>3, TypeInit, TypeStep, FolderInit, FolderStep, GroupInit, PatientInit, PatientStep, PTL
     DEF PatientSpec

\* On the one device of a patient user every photo whose addition was
\* acknowledged stays in its folder, even if answers get lost.
THEOREM PatientKeepsItems ==
  ASSUME KeyOrder, OneDevice
  PROVE  PatientSpec => []ItemsKept
<1>1. TypeOK /\ PatientInv => ItemsKept
  <2> SUFFICES ASSUME TypeOK, PatientInv, NEW t \in DOMAIN taps, taps[t].stage = "added"
               PROVE  \E i \in DOMAIN files[taps[t].cat] :
                        files[taps[t].cat][i] = taps[t].photo
    BY DEF ItemsKept
  <2>1. taps[t].cat \in Category
    BY DEF TypeOK, IsDict, TapRecord
  <2>2. AddedBelow(taps, files[taps[t].cat], taps[t].cat, Count(files[taps[t].cat]))
    BY <2>1 DEF PatientInv, AddedInv, AddedKept
  <2> QED  BY <2>2 DEF AddedBelow, Holds
<1> QED  BY <1>1, PatientInvariant, PTL

-----------------------------------------------------------------------------
(* Every write takes the next number *)

\* A tap that is there after a step was left alone, has just been made, or made
\* the step itself, or its device restarted.
LEMMA TapSteps ==
  ASSUME TypeOK, [Next]_vars, NEW t \in DOMAIN taps'
  PROVE  \/ t \in DOMAIN taps /\ taps'[t] = taps[t]
         \/ t \notin DOMAIN taps /\ taps'[t].stage = "putting"
         \/ /\ t \in DOMAIN taps
            /\ \/ TapProgress(t) \/ OrphanLands(t)
               \/ Restart(taps[t].dev)
<1> DEFINE Same == t \in DOMAIN taps /\ taps'[t] = taps[t]
           New == t \notin DOMAIN taps /\ taps'[t].stage = "putting"
           Moves == t \in DOMAIN taps /\ (TapProgress(t) \/ OrphanLands(t) \/ Restart(taps[t].dev))
           Goal == Same \/ New \/ Moves
<1>1. UNCHANGED taps => Same
  OBVIOUS
<1>2. ASSUME NEW d \in Device, Restart(d) PROVE Same \/ Moves
  BY <1>2 DEF Restart
<1>3. ASSUME NEW s \in Tap, TapProgress(s) \/ OrphanLands(s) PROVE Same \/ Moves
  BY <1>3 DEF TapProgress, PutLands, PutHeard, PutUnheard, PutError, OrphanLands, InStage
<1>4. ASSUME NEW d \in Device, NEW c \in Category, NEW s \in Tap, TapAdd(d, c, s) PROVE Same \/ New
  BY <1>4 DEF TapAdd, Updated
<1> HIDE DEF Same, New, Moves
<1>5. ASSUME NEW d \in Device,
             OpenCamera(d) \/ CancelCamera(d) \/ \E c \in Category : ShowRow(d, c)
      PROVE  Goal
  BY <1>1, <1>5 DEF OpenCamera, CancelCamera, ShowRow
<1>6. ASSUME NEW f \in FetchId, FetchProgress(f) PROVE Goal
  BY <1>1, <1>6 DEF FetchProgress, ListAnswered, ListingFails, HandleListing, Notify,
              DownloadAnswered, HandleDownload, DownloadFails
<1>7. UNCHANGED vars => Goal
  BY <1>1 DEF vars
<1>8. Goal
  <2> HIDE DEF Goal
  <2>1. /\ \A d \in Device : Restart(d) => Goal
        /\ \A s \in Tap : TapProgress(s) \/ OrphanLands(s) => Goal
        /\ \A d \in Device, c \in Category, s \in Tap : TapAdd(d, c, s) => Goal
    BY <1>2, <1>3, <1>4 DEF Goal
  <2> QED  BY <1>5, <1>6, <1>7, <2>1 DEF Next
<1> QED  BY <1>8 DEF Same, New, Moves

\* What is lost stays lost.
LEMMA LostStays ==
  ASSUME TypeOK, [Next]_vars, NothingLost'
  PROVE  NothingLost
<1> SUFFICES ASSUME NEW t \in DOMAIN taps, taps[t].stage \in {"lost", "orphan"}
             PROVE  taps'[t].stage \in {"lost", "orphan"} /\ t \in DOMAIN taps'
  BY DEF NothingLost
<1>1. t \in DOMAIN taps' /\ taps[t] \in TapRecord
  BY TapsStay DEF TypeOK, IsDict
<1>2. CASE taps'[t] = taps[t]
  BY <1>1, <1>2
<1>3. CASE TapProgress(t) \/ OrphanLands(t)
  BY <1>1, <1>3 DEF TapProgress, PutLands, PutHeard, PutUnheard, PutError, OrphanLands, InStage,
                    TapRecord
<1>4. CASE Restart(taps[t].dev)
  BY <1>1, <1>4 DEF Restart, Forgotten, TapRecord
<1> QED  BY <1>1, <1>2, <1>3, <1>4, TapSteps

\* No photo of a category is stored whose answer is still to come.
NoneLanded(c) == \A t \in DOMAIN taps : taps[t].cat = c => taps[t].stage # "landed"

\* FolderAppends speaks of the moment a put lands; its number was right when it
\* was taken and stays right until then, ...
PutsNext ==
  \A t \in DOMAIN taps : taps[t].stage = "putting" => taps[t].num = Count(files[taps[t].cat])

\* ... because a row that is not being fetched shows as many photos as its
\* folder has, ...
RowsFull ==
  \A d \in Device : \A c \in rows[d] :
    Idle(c) /\ NoneLanded(c) => Count(slots[d][c]) = Count(files[c])

\* ... because no listing gets old.
FetchesFull ==
  \A f \in DOMAIN fetches : fetches[f].stage # "listing" => fetches[f].n = Count(files[f[2]])

Fresh == PutsNext /\ RowsFull /\ FetchesFull
FreshInv == NothingLost => Fresh

LEMMA FreshStay ==
  ASSUME Fresh, files' = files,
         \A t \in DOMAIN taps' : taps'[t].stage = "putting" =>
           /\ t \in DOMAIN taps /\ taps[t].stage = "putting"
           /\ taps'[t].cat = taps[t].cat /\ taps'[t].num = taps[t].num,
         \A d \in Device : \A c \in rows'[d] : Idle(c)' /\ NoneLanded(c)' =>
           c \in rows[d] /\ Idle(c) /\ NoneLanded(c) /\ slots'[d][c] = slots[d][c],
         \A f \in DOMAIN fetches' : fetches'[f].stage # "listing" =>
           /\ f \in DOMAIN fetches /\ fetches[f].stage # "listing"
           /\ fetches'[f].n = fetches[f].n
  PROVE  Fresh'
<1>1. PutsNext'
  BY DEF Fresh, PutsNext
<1>2. RowsFull'
  BY DEF Fresh, RowsFull
<1>3. FetchesFull'
  BY DEF Fresh, FetchesFull
<1> QED  BY <1>1, <1>2, <1>3 DEF Fresh

LEMMA ListFresh ==
  ASSUME Patient, Fresh, NEW f \in FetchId, ListAnswered(f)
  PROVE  Fresh'
<1> USE DEF cameraVars, closetVars
<1>1. /\ UNCHANGED << files, taps, rows, slots >> /\ DOMAIN fetches' = DOMAIN fetches
      /\ f \in DOMAIN fetches /\ fetches'[f].n = Count(files[f[2]])
      /\ \A g \in DOMAIN fetches \ {f} : fetches'[g] = fetches[g]
  BY DEF ListAnswered, IsFetch, Patient, TypeOK, FetchesOK, IsFetchRecord
<1>2. FetchesFull'
  BY <1>1 DEF Fresh, FetchesFull
<1>3. PutsNext'
  BY <1>1 DEF Fresh, PutsNext
<1>4. RowsFull'
  BY <1>1 DEF Fresh, RowsFull, Idle, NoneLanded
<1> QED  BY <1>2, <1>3, <1>4 DEF Fresh

LEMMA NotifyFresh ==
  ASSUME KeyOrder, OneDevice, Patient, GroupAccounts, Fresh, NEW f \in FetchId, Notify(f)
  PROVE  Fresh'
<1> USE DEF cameraVars, closetVars
<1> DEFINE c == f[2]
           d == f[1]
<1>1. /\ UNCHANGED << files, taps, rows >> /\ f \in DOMAIN fetches
      /\ DOMAIN fetches' = DOMAIN fetches \ {f} /\ fetches[f].stage = "loading"
      /\ \A g \in DOMAIN fetches' : fetches'[g] = fetches[g]
  BY DEF Notify, Finish, Kept, IsFetch
<1>2. TypeOK /\ [Next]_vars /\ FolderInv
  BY DEF Patient
<1>3. /\ d \in Device /\ c \in Category /\ fetches[f].n <= Count(slots'[d][c])
      /\ fetches[f].n \in Nat /\ Count(slots'[d][c]) \in Nat
  BY <1>1, <1>2, NotifyCount
<1>4. Count(slots'[d][c]) <= Count(files[c]) /\ Count(files[c]) \in Nat
  <2>1. TypeOK' /\ FolderInv'
    BY <1>2, TypeStep, FolderStep
  <2>2. DOMAIN slots'[d][c] \subseteq DOMAIN files[c] /\ IsFiniteSet(DOMAIN files[c])
    BY <1>1, <1>2, <1>3, <2>1 DEF FolderInv, SlotsWithin, TypeOK, FoldersOK
  <2> QED  BY <1>2, <1>3, <2>2, FS_Subset, CountType DEF Count
<1>5. Count(slots'[d][c]) = Count(files[c])
  BY <1>1, <1>3, <1>4 DEF Fresh, FetchesFull
<1>6. \A e \in Category \ {c} : slots'[d][e] = slots[d][e] /\ (Idle(e)' <=> Idle(e))
  BY <1>1, <1>2 DEF Notify, TypeOK, SlotsOK, Idle, FetchId
<1>7. RowsFull'
  <2> SUFFICES ASSUME NEW x \in Device, NEW e \in rows'[x], Idle(e)', NoneLanded(e)'
               PROVE  Count(slots'[x][e]) = Count(files'[e])
    BY DEF RowsFull
  <2>1. x = d /\ e \in rows[d] /\ e \in Category /\ NoneLanded(e)
    BY <1>1, <1>2, <1>3 DEF OneDevice, TypeOK, NoneLanded
  <2>2. CASE e = c
    BY <1>1, <1>5, <2>1, <2>2
  <2>3. CASE e # c
    BY <1>1, <1>6, <2>1, <2>3 DEF Fresh, RowsFull
  <2> QED  BY <2>2, <2>3
<1>8. FetchesFull' /\ PutsNext'
  BY <1>1 DEF Fresh, FetchesFull, PutsNext
<1> QED  BY <1>7, <1>8 DEF Fresh

LEMMA ShowFresh ==
  ASSUME OneDevice, Patient, Fresh, NEW d \in Device, NEW c \in Category, ShowRow(d, c)
  PROVE  Fresh'
<1> USE DEF cameraVars, closetVars
<1> DEFINE new == << d, c, RowShown >>
<1>1. /\ UNCHANGED << files, taps, slots >> /\ rows'[d] = rows[d] \cup {c}
      /\ DOMAIN fetches' = DOMAIN fetches \cup {new} /\ fetches'[new].stage = "listing"
      /\ \A g \in DOMAIN fetches \ {new} : fetches'[g] = fetches[g]
  BY DEF ShowRow, StartFetches, Overlaid, NewFetch, FetchRecord, Patient, TypeOK
<1>2. ~ Idle(c)' /\ \A e : e # c => (Idle(e)' <=> Idle(e))
  <2>1. new[2] = c
    OBVIOUS
  <2> HIDE DEF new
  <2> QED  BY <1>1, <2>1 DEF Idle
<1>3. \A x \in Device : x = d
  BY DEF OneDevice
<1>4. \A x \in Device : \A e \in rows'[x] : Idle(e)' /\ NoneLanded(e)' =>
        e \in rows[x] /\ Idle(e) /\ NoneLanded(e) /\ slots'[x][e] = slots[x][e]
  BY <1>1, <1>2, <1>3 DEF NoneLanded
<1>5. \A g \in DOMAIN fetches' : fetches'[g].stage # "listing" =>
        g \in DOMAIN fetches /\ fetches[g].stage # "listing" /\ fetches'[g].n = fetches[g].n
  <2> HIDE DEF new
  <2> QED  BY <1>1
<1> QED  BY <1>1, <1>4, <1>5, FreshStay

LEMMA TapFresh ==
  ASSUME Patient, Fresh, NEW d \in Device, NEW c \in Category, NEW t \in Tap, TapAdd(d, c, t)
  PROVE  Fresh'
<1> USE DEF cameraVars, closetVars
<1>1. /\ UNCHANGED << files, rows, slots, fetches >> /\ t \notin DOMAIN taps
      /\ DOMAIN taps' = DOMAIN taps \cup {t} /\ \A s \in DOMAIN taps : taps'[s] = taps[s]
      /\ taps'[t].cat = c /\ taps'[t].num = FileCount(d, c)
  BY DEF TapAdd, Updated
<1>2. c \in rows[d] /\ Idle(c) /\ \A s \in DOMAIN taps : taps[s].stage \in Settled
  BY PatienceMeans DEF Patient
<1>3. FileCount(d, c) = Count(files[c])
  BY <1>2 DEF Fresh, RowsFull, NoneLanded, Settled, FileCount
<1>4. PutsNext'
  BY <1>1, <1>3 DEF Fresh, PutsNext
<1>5. \A e : NoneLanded(e)' => NoneLanded(e)
  BY <1>1 DEF NoneLanded
<1>6. RowsFull' /\ FetchesFull'
  BY <1>1, <1>5 DEF Fresh, RowsFull, FetchesFull, Idle
<1> QED  BY <1>4, <1>6 DEF Fresh

\* What a put of the patient user does when it lands.
LEMMA LandsNext ==
  ASSUME Patient, Fresh, NothingLost, NEW t \in Tap, PutLands(t) \/ OrphanLands(t)
  PROVE  /\ t \in DOMAIN taps /\ taps[t].cat \in Category /\ taps[t].photo \in Photo
         /\ taps[t].stage = "putting"
         /\ DOMAIN taps' = DOMAIN taps /\ \A s \in DOMAIN taps \ {t} : taps'[s] = taps[s]
         /\ taps'[t].stage = "landed" /\ taps'[t].cat = taps[t].cat
         /\ UNCHANGED << rows, slots, fetches >>
         /\ files'[taps[t].cat] =
              Updated(files[taps[t].cat], Count(files[taps[t].cat]), taps[t].photo)
         /\ \A e \in Category \ {taps[t].cat} : files'[e] = files[e]
<1> USE DEF cameraVars, closetVars
<1>1. TypeOK
  BY DEF Patient
<1>2. t \in DOMAIN taps /\ taps[t] \in TapRecord
  BY <1>1 DEF PutLands, OrphanLands, InStage, TypeOK, IsDict
<1>3. PutLands(t) /\ taps[t].stage = "putting"
  BY <1>2 DEF OrphanLands, PutLands, InStage, NothingLost
<1>4. taps[t].num = Count(files[taps[t].cat])
  BY <1>2, <1>3 DEF Fresh, PutsNext
<1>5. files' = [files EXCEPT ![taps[t].cat] =
                  Updated(files[taps[t].cat], Count(files[taps[t].cat]), taps[t].photo)]
  BY <1>3, <1>4 DEF PutLands, Store
<1>6. files = [e \in Category |-> files[e]] /\ taps[t].cat \in Category /\ taps[t].photo \in Photo
  BY <1>1, <1>2 DEF TypeOK, FoldersOK, TapRecord
<1> QED  BY <1>2, <1>3, <1>5, <1>6 DEF PutLands, TapRecord

LEMMA LandFresh ==
  ASSUME Patient, Fresh, NothingLost, NEW t \in Tap, PutLands(t) \/ OrphanLands(t)
  PROVE  Fresh'
<1> DEFINE c == taps[t].cat
<1>1. /\ t \in DOMAIN taps /\ c \in Category /\ taps[t].stage = "putting"
      /\ DOMAIN taps' = DOMAIN taps /\ \A s \in DOMAIN taps \ {t} : taps'[s] = taps[s]
      /\ taps'[t].stage = "landed" /\ taps'[t].cat = c
      /\ UNCHANGED << rows, slots, fetches >>
      /\ \A e \in Category \ {c} : files'[e] = files[e]
  BY LandsNext
<1>2. Idle(c) /\ \A s \in DOMAIN taps \ {t} : taps[s].stage \notin Unsettled
  BY <1>1 DEF Patient, PatientInv, OneAtATime, PutsHeld, Unsettled
<1>3. /\ \A d \in Device : rows[d] \subseteq Category
      /\ \A f \in DOMAIN fetches : f[2] \in Category \ {c}
  BY <1>2 DEF Patient, TypeOK, FetchesOK, FetchId, Idle
<1>4. PutsNext'
  BY <1>1, <1>2 DEF PutsNext, Unsettled
<1>5. RowsFull'
  <2> SUFFICES ASSUME NEW x \in Device, NEW e \in rows'[x], Idle(e)', NoneLanded(e)'
               PROVE  Count(slots'[x][e]) = Count(files'[e])
    BY DEF RowsFull
  <2>1. e \in Category \ {c} /\ Idle(e)
    BY <1>1, <1>3 DEF NoneLanded, Idle
  <2>2. NoneLanded(e)
    BY <1>1, <2>1 DEF NoneLanded
  <2> QED  BY <1>1, <2>1, <2>2 DEF Fresh, RowsFull
<1>6. FetchesFull'
  BY <1>1, <1>3 DEF Fresh, FetchesFull
<1> QED  BY <1>4, <1>5, <1>6 DEF Fresh

LEMMA HeardFresh ==
  ASSUME OneDevice, Patient, Fresh, NEW t \in Tap, PutHeard(t)
  PROVE  Fresh'
<1> USE DEF cameraVars, closetVars
<1> DEFINE d == taps[t].dev
           fresh == {d} \X rows[d] \X {t}
<1>1. /\ t \in DOMAIN taps /\ d \in Device /\ UNCHANGED << files, rows, slots >>
      /\ DOMAIN taps' = DOMAIN taps /\ \A s \in DOMAIN taps \ {t} : taps'[s] = taps[s]
      /\ taps'[t].stage = "added"
  BY DEF PutHeard, InStage, Patient, TypeOK, IsDict, TapRecord
<1>2. /\ DOMAIN fetches' = DOMAIN fetches \cup fresh
      /\ \A f \in DOMAIN fetches' : \/ fetches'[f].stage = "listing"
                                    \/ f \in DOMAIN fetches /\ fetches'[f] = fetches[f]
  <2>1. fetches' = Overlaid(fetches, [f \in fresh |-> NewFetch]) /\ NewFetch.stage = "listing"
    BY DEF PutHeard, StartFetches, NewFetch, FetchRecord
  <2> HIDE DEF fresh
  <2> QED  BY <2>1 DEF Overlaid
<1>3. \A x \in Device : x = d
  BY <1>1 DEF OneDevice
<1>4. \A e \in rows[d] : ~ Idle(e)'
  <2>1. ASSUME NEW e \in rows[d] PROVE << d, e, t >> \in fresh /\ << d, e, t >>[2] = e
    OBVIOUS
  <2> HIDE DEF fresh
  <2> QED  BY <1>2, <2>1 DEF Idle
<1>5. PutsNext'
  BY <1>1 DEF Fresh, PutsNext
<1>6. RowsFull'
  BY <1>1, <1>3, <1>4 DEF RowsFull
<1>7. FetchesFull'
  BY <1>1, <1>2 DEF Fresh, FetchesFull
<1> QED  BY <1>5, <1>6, <1>7 DEF Fresh

LEMMA ErrorFresh ==
  ASSUME Patient, Fresh, NothingLost', NEW t \in Tap, PutUnheard(t) \/ PutError(t)
  PROVE  Fresh'
<1> USE DEF cameraVars, closetVars
<1>1. /\ t \in DOMAIN taps /\ UNCHANGED << files, rows, slots, fetches >>
      /\ DOMAIN taps' = DOMAIN taps /\ \A s \in DOMAIN taps \ {t} : taps'[s] = taps[s]
      /\ taps[t] \in TapRecord
  BY DEF PutUnheard, PutError, InStage, Patient, TypeOK, IsDict
<1>2. taps[t].stage = "putting" /\ taps'[t].stage = "failed" /\ taps'[t].cat = taps[t].cat
  <2>1. ~ PutUnheard(t)
    BY <1>1 DEF PutUnheard, InStage, Patient, PatientInv, PutsHeld
  <2> QED  BY <1>1, <2>1 DEF PutError, InStage, NothingLost, TapRecord
<1>3. \A e : NoneLanded(e)' => NoneLanded(e)
  BY <1>1, <1>2 DEF NoneLanded
<1>4. \A s \in DOMAIN taps' : taps'[s].stage = "putting" => s # t
  BY <1>2
<1> QED  BY <1>1, <1>3, <1>4, FreshStay DEF Idle

LEMMA QuietFresh == ASSUME Patient, Fresh, Quiet PROVE Fresh'
<1>1. \A d \in Device : \A c \in rows'[d] : Idle(c)' /\ NoneLanded(c)' =>
        c \in rows[d] /\ Idle(c) /\ NoneLanded(c) /\ slots'[d][c] = slots[d][c]
  BY DEF Quiet, Idle, NoneLanded
<1> QED  BY <1>1, FreshStay DEF Quiet

LEMMA RestartFresh ==
  ASSUME OneDevice, Patient, Fresh, NothingLost', NEW d \in Device, Restart(d)
  PROVE  Fresh'
<1>1. TypeOK /\ \A x \in Device : x = d
  BY DEF Patient, OneDevice
<1>2. files' = files /\ rows'[d] = {} /\ DOMAIN fetches' = {} /\ DOMAIN taps' = DOMAIN taps
  BY <1>1 DEF Restart, TypeOK, FetchesOK, FetchId, Kept
<1>3. \A t \in DOMAIN taps' : taps'[t].stage # "putting"
  <2> SUFFICES ASSUME NEW t \in DOMAIN taps, taps'[t].stage = "putting" PROVE FALSE
    BY <1>2
  <2>1. taps[t] \in TapRecord /\ taps'[t] = Forgotten(taps[t])
    BY <1>1 DEF Restart, TypeOK, IsDict, TapRecord
  <2> QED  BY <2>1 DEF Forgotten, TapRecord
<1> QED  BY <1>1, <1>2, <1>3, FreshStay

LEMMA FreshStep ==
  ASSUME KeyOrder, OneDevice
  PROVE  TypeOK /\ FolderInv /\ GroupAccounts /\ PatientInv /\ FreshInv /\ [Next /\ Patience]_vars
           => FreshInv'
<1> SUFFICES ASSUME TypeOK, FolderInv, GroupAccounts, PatientInv, FreshInv,
                    [Next /\ Patience]_vars, NothingLost'
             PROVE  Fresh'
  BY DEF FreshInv
<1>1. NothingLost /\ Fresh
  BY LostStays DEF FreshInv
<1>2. CASE UNCHANGED vars
  BY <1>1, <1>2 DEF vars, cameraVars, closetVars, Fresh, PutsNext, RowsFull, FetchesFull, Idle, NoneLanded
<1>3. CASE Next /\ Patience
  <2>1. Patient
    BY <1>3 DEF Patient
  <2>2. ASSUME NEW d \in Device, OpenCamera(d) \/ CancelCamera(d) PROVE Fresh'
    BY <1>1, <2>2 DEF OpenCamera, CancelCamera, closetVars, Fresh, PutsNext, RowsFull, FetchesFull,
                      Idle, NoneLanded
  <2>3. ASSUME NEW d \in Device,
               \/ OpenCamera(d) \/ CancelCamera(d) \/ Restart(d)
               \/ \E c \in Category : ShowRow(d, c) \/ \E t \in Tap : TapAdd(d, c, t)
        PROVE  Fresh'
    BY <1>1, <2>1, <2>2, <2>3, RestartFresh, ShowFresh, TapFresh
  <2>4. ASSUME NEW t \in Tap, TapProgress(t) \/ OrphanLands(t) PROVE Fresh'
    BY <1>1, <2>1, <2>4, LandFresh, HeardFresh, ErrorFresh DEF TapProgress
  <2>5. ASSUME NEW f \in FetchId, FetchProgress(f) PROVE Fresh'
    <3>1. ASSUME NEW i, \/ HandleListing(f) \/ DownloadAnswered(f, i)
                        \/ HandleDownload(f, i) \/ DownloadFails(f, i)
          PROVE  Fresh'
      BY <1>1, <2>1, <3>1, QuietSteps, QuietFresh
    <3>2. ~ ListingFails(f)
      BY DEF ListingFails, OneDevice
    <3> QED  BY <1>1, <2>1, <2>5, <3>1, <3>2, ListFresh, NotifyFresh DEF FetchProgress
  <2> QED  BY <1>3, <2>3, <2>4, <2>5 DEF Next
<1> QED  BY <1>2, <1>3

LEMMA FreshInvariant ==
  ASSUME KeyOrder, OneDevice
  PROVE  PatientSpec => []FreshInv
<1>1. Init => FreshInv
  BY DEF Init, EmptyDict, FreshInv, Fresh, PutsNext, RowsFull, FetchesFull
<1> QED  BY <1>1, PatientInvariant, FreshStep, PTL DEF PatientSpec

\* What a patient write does, as long as nothing is lost.
LEMMA PatientWrite ==
  ASSUME TypeOK, FolderInv, PatientInv, FreshInv, NothingLost, [Next /\ Patience]_vars,
         NEW c \in Category, files'[c] # files[c]
  PROVE  \E photo \in Photo : files'[c] = Updated(files[c], Count(files[c]), photo)
<1>1. Patient
  BY DEF Patient, vars
<1>2. PICK t \in Tap : PutLands(t) \/ OrphanLands(t)
  BY FilesSteps
<1>3. /\ taps[t].photo \in Photo
      /\ files'[taps[t].cat] = Updated(files[taps[t].cat], Count(files[taps[t].cat]), taps[t].photo)
      /\ \A e \in Category \ {taps[t].cat} : files'[e] = files[e]
  BY <1>1, <1>2, LandsNext DEF FreshInv
<1> QED  BY <1>3

\* On the one device of a patient user every photo gets the next number, as
\* long as no answer is lost: the rows it is counted from are never behind.
THEOREM PatientAppends ==
  ASSUME KeyOrder, OneDevice
  PROVE  PatientSpec => FolderAppends
<1>1. TypeOK /\ FolderInv /\ PatientInv /\ FreshInv /\ [Next /\ Patience]_vars =>
        [NothingLost => \A c \in Category : files'[c] # files[c] => FolderAppend(c)]_files
  BY PatientWrite, StoreAppends DEF FolderAppend
<1> QED
  BY <1>1, FolderInitRefines, PatientInvariant, FreshInvariant, PTL DEF PatientSpec, FolderAppends

-----------------------------------------------------------------------------
(* Every slot shows the file of its number *)

\* The numbers below m have keys in the order of the numbers.
Numeric(m) == \A i, j \in 0 .. m - 1 : KeyBefore(i, j) <=> i < j

\* Sorting a gapless dictionary whose keys are in the order of the numbers
\* changes nothing.
LEMMA SortedSame ==
  ASSUME NEW m \in Nat, Numeric(m), NEW images, DOMAIN images = 0 .. m - 1,
         NEW i, NEW p, Holds(Sorted(images), i, p)
  PROVE  Holds(images, i, p)
<1> DEFINE before(k) == { j \in DOMAIN images \ {k} : KeyBefore(j, k) }
           rank(k) == Cardinality(before(k))
<1>1. ASSUME NEW k \in DOMAIN images PROVE rank(k) = k
  <2>1. before(k) = 0 .. k - 1
    BY <1>1 DEF Numeric
  <2>2. k \in Nat /\ Cardinality(0 .. k - 1) = k
    <3>1. k \in Nat
      BY <1>1
    <3> QED  BY <3>1, FS_Interval
  <2> HIDE DEF before
  <2> QED  BY <2>1, <2>2
<1>2. i \in { rank(k) : k \in DOMAIN images }
      /\ Sorted(images)[i] = images[CHOOSE k \in DOMAIN images : rank(k) = i]
  BY DEF Holds, Sorted
<1> HIDE DEF rank
<1>3. i \in DOMAIN images
  BY <1>1, <1>2
<1>4. (CHOOSE k \in DOMAIN images : rank(k) = i) = i
  BY <1>1, <1>3
<1> QED  BY <1>2, <1>3, <1>4 DEF Holds

\* SlotsCurrent is inductive when it is said of all that is on the way to a
\* row: no photo is replaced, so what was read from a file is what it holds.
AllCurrent ==
  \A c \in Category : \A i, p :
    Carried(c, i, p) \/ (\E d \in Device : Holds(slots[d][c], i, p)) => Holds(files[c], i, p)

CurrentInv == NothingLost => AllCurrent

\* A file keeps its photo.
LEMMA FilesKeep ==
  ASSUME TypeOK, FolderInv, PatientInv, FreshInv, NothingLost, [Next /\ Patience]_vars,
         NEW c \in Category, NEW i, NEW p, Holds(files[c], i, p)
  PROVE  Holds(files'[c], i, p)
<1>1. CASE files'[c] = files[c]
  BY <1>1
<1>2. CASE files'[c] # files[c]
  <2>1. PICK photo \in Photo : files'[c] = Updated(files[c], Count(files[c]), photo)
    BY <1>2, PatientWrite
  <2>2. i \in DOMAIN files[c] /\ i # Count(files[c])
    BY CountType DEF Holds, FolderInv, ItemsContiguous
  <2> QED  BY <2>1, <2>2 DEF Holds, Updated
<1> QED  BY <1>1, <1>2

\* A notified fetch has a photo for every file of its folder and no other.
LEMMA NotifyAll ==
  ASSUME KeyOrder, TypeOK, FolderInv, GroupAccounts, Fresh, NEW f \in DOMAIN fetches, Notify(f)
  PROVE  DOMAIN fetches[f].images = 0 .. Count(files[f[2]]) - 1
<1>1. f[2] \in Category
  BY DEF TypeOK, FetchesOK, FetchId
<1>2. fetches[f].n = Count(files[f[2]])
  BY DEF Fresh, FetchesFull, Notify, IsFetch
<1>3. Wanted(fetches[f].n) \subseteq DOMAIN fetches[f].images
  BY NotifyComplete
<1>4. DOMAIN fetches[f].images \subseteq DOMAIN files[f[2]]
  BY DEF FolderInv, FetchesWithin, FetchWithin
<1> QED  BY <1>1, <1>2, <1>3, <1>4 DEF Wanted, FolderInv, ItemsContiguous

LEMMA CurrentStep ==
  ASSUME KeyOrder, OneDevice, NEW few \in Nat, Numeric(few)
  PROVE  /\ TypeOK /\ FolderInv /\ GroupAccounts /\ PatientInv /\ FreshInv /\ CurrentInv
         /\ \A c \in Category : Count(files[c]) <= few
         /\ [Next /\ Patience]_vars
         => CurrentInv'
<1> SUFFICES ASSUME TypeOK, FolderInv, GroupAccounts, PatientInv, FreshInv, CurrentInv,
                    \A c \in Category : Count(files[c]) <= few,
                    [Next /\ Patience]_vars, NothingLost',
                    NEW c \in Category, NEW i, NEW p,
                    Carried(c, i, p)' \/ \E d \in Device : Holds(slots'[d][c], i, p)
             PROVE  Holds(files'[c], i, p)
  BY DEF CurrentInv, AllCurrent
<1>1. NothingLost /\ Fresh /\ AllCurrent /\ [Next]_vars
  BY LostStays DEF FreshInv, CurrentInv
<1>2. Holds(files[c], i, p) => Holds(files'[c], i, p)
  BY <1>1, FilesKeep
<1>3. CASE Carried(c, i, p)'
  BY <1>1, <1>2, <1>3, CarriedFrom DEF AllCurrent
<1>4. ASSUME NEW d \in Device, Holds(slots'[d][c], i, p) PROVE Holds(files[c], i, p)
  <2>1. CASE Holds(slots[d][c], i, p)
    BY <1>1, <2>1 DEF AllCurrent
  <2>2. ASSUME NEW f \in DOMAIN fetches, Notify(f), f[2] = c, Holds(Sorted(fetches[f].images), i, p)
        PROVE  Holds(files[c], i, p)
    <3>1. DOMAIN fetches[f].images = 0 .. Count(files[c]) - 1 /\ Count(files[c]) \in Nat
      BY <1>1, <2>2, NotifyAll, CountType
    <3>2. Numeric(Count(files[c]))
      BY <3>1 DEF Numeric
    <3>3. Holds(fetches[f].images, i, p)
      BY <2>2, <3>1, <3>2, SortedSame
    <3> QED  BY <1>1, <2>2, <3>3 DEF AllCurrent, Carried, FetchHolds
  <2> QED  BY <1>1, <1>4, <2>1, <2>2, SlotsFrom
<1> QED  BY <1>2, <1>3, <1>4

\* On the one device of a patient user every slot shows the file of its number,
\* as long as no answer is lost and there are no more photos in a category than
\* numbers whose keys are in the order of the numbers, which ten are.
THEOREM PatientRowsAreCurrent ==
  ASSUME KeyOrder, OneDevice, NEW few \in Nat, Numeric(few)
  PROVE  PatientSpec /\ [](\A c \in Category : Count(files[c]) <= few) => []SlotsCurrent
<1>1. Init => CurrentInv
  BY DEF Init, EmptyDict, CurrentInv, AllCurrent, Carried, Holds
<1>2. CurrentInv => SlotsCurrent
  <2> SUFFICES ASSUME AllCurrent, NEW d \in Device, NEW c \in Category, NEW i \in DOMAIN slots[d][c]
               PROVE  Holds(files[c], i, slots[d][c][i])
    BY DEF SlotsCurrent, CurrentInv, Holds
  <2>1. Holds(slots[d][c], i, slots[d][c][i])
    BY DEF Holds
  <2> QED  BY <2>1 DEF AllCurrent
<1> QED
  BY <1>1, <1>2, PatientInvariant, FreshInvariant, CurrentStep, PTL DEF PatientSpec

=============================================================================
