-------------------------------- MODULE Home --------------------------------
(***************************************************************************)
(* The home screen: a waterfall of photos under a pager and a title.       *)
(* PinterLayout computes the frames, again at every prepare(), which only  *)
(* ever appends to its cache; the pager's bar is a length of its own,      *)
(* moved by the decelerations that end, and not a function of the page.    *)
(*                                                                         *)
(* Lengths are in tenths of the collection view's height and in columns;   *)
(* the view keeps the frame it was created with.                           *)
(***************************************************************************)
EXTENDS Integers, Sequences, FiniteSetsExt

CONSTANTS
  Photos,        \* the number of photos (67 in the app's bundle)
  Heights,       \* what heightForPhotoAtIndexPath may return
  MaxPrepares,   \* bounds of a behaviour
  MaxStops

VARIABLES
  heights,       \* the height of every photo, scaled to its column
  cache,         \* PinterLayout.cache
  contentHeight, \* PinterLayout.contentHeight
  heardPage,     \* scrollViewCurrentXOffset, in pages
  bar,           \* the constant of pageControlViewWidthConst, in tenths of the width
  stops,         \* the decelerations that have ended
  plain          \* no two of them in a row were more than a page apart

vars == << heights, cache, contentHeight, heardPage, bar, stops, plain >>

Columns == 2
Height == 10
LastPage == 5

Init ==
  /\ heights \in [1 .. Photos -> Heights]
  /\ cache = << >>
  /\ contentHeight = 0
  /\ heardPage = 0
  /\ bar = 0
  /\ stops = 0
  /\ plain = TRUE

-----------------------------------------------------------------------------
(* PinterLayout *)

Frame(item, x, y, width, height) ==
  [item |-> item, x |-> x, y |-> y, width |-> width, height |-> height]

\* configureMainScrollView and configureTitleView.
Header == << Frame(0, 0, 0, Columns, 6), Frame(1, 0, 6, Columns, 1) >>

\* Mutant: the last column is not left.
StayInColumn(column) == IF column < Columns - 1 THEN column + 1 ELSE column

NextColumn(column) == IF column < Columns - 1 THEN column + 1 ELSE 0

\* The loop of prepare() after n photos: where the next one goes, the bottom of
\* each column, and the frames so far.
Loop[n \in 0 .. Photos] ==
  IF n = 0 THEN [column |-> 0, bottom |-> [c \in 0 .. Columns - 1 |-> 7], frames |-> << >>]
  ELSE LET l == Loop[n - 1] IN
       [column |-> NextColumn(l.column),
        bottom |-> [l.bottom EXCEPT ![l.column] = @ + heights[n]],
        frames |-> Append(l.frames, Frame(n + 1, l.column, l.bottom[l.column], 1, heights[n]))]

Prepare ==
  /\ Len(cache) < MaxPrepares * (Photos + 2)
  /\ cache' = cache \o Header \o Loop[Photos].frames
  /\ contentHeight' =
       IF Photos = 0 THEN contentHeight
       ELSE Max({Loop[Photos].bottom[c] : c \in 0 .. Columns - 1})
  /\ UNCHANGED << heights, heardPage, bar, stops, plain >>

-----------------------------------------------------------------------------
(* The pager *)

Near(page) == page - heardPage \in -1 .. 1

Heard(page) ==
  /\ stops < MaxStops
  /\ stops' = stops + 1
  /\ plain' = (plain /\ Near(page))
  /\ heardPage' = page
  /\ UNCHANGED << heights, cache, contentHeight >>

\* Mutant: coming to rest where one was counts as going back.
EndDeceleratingAnyhow(page) ==
  /\ Heard(page)
  /\ bar' = IF page > heardPage THEN bar + 1 ELSE bar - 1

\* scrollViewDidEndDecelerating.  A finger that catches the pages on their way,
\* or leaves them exactly at one, hides a stop from the app: the next it hears
\* of may be any page.
EndDecelerating(page) ==
  /\ Heard(page)
  /\ bar' = CASE page > heardPage -> bar + 1
              [] page < heardPage -> bar - 1
              [] OTHER -> bar

Next == Prepare \/ \E page \in 0 .. LastPage : EndDecelerating(page)

Spec == Init /\ [][Next]_vars

-----------------------------------------------------------------------------
(* Properties *)

\* Where photo n goes when columns are filled in turn: right under the photo
\* before it in its column, the first ones under the title.
Top[n \in 1 .. Photos + Columns] ==
  IF n <= Columns THEN 7 ELSE Top[n - Columns] + heights[n - Columns]

Bottom(n) == Top[n] + heights[n]

\* However often the layout is prepared, every attribute it hands out for a
\* photo is the one place that photo has: under those before it in its column,
\* without gap or overlap, the first ones under the title; and the content ends
\* where the lowest photo does (prepare(), layoutAttributesForElements).
PhotosInColumns ==
  /\ \A i \in DOMAIN cache :
       LET n == cache[i].item - 1 IN
       n >= 1 => cache[i] = Frame(n + 1, (n - 1) % Columns, Top[n], 1, heights[n])
  /\ cache # << >> /\ Photos > 0 => contentHeight = Max({Bottom(n) : n \in 1 .. Photos})

\* As long as the pages are turned one by one the bar tells the page; otherwise
\* it does not, as EndDecelerating moves it by one for any distance.
BarFollowsPage == plain => bar = heardPage
=============================================================================
