------------------------------ MODULE Tutorial ------------------------------
(***************************************************************************)
(* The tutorial: pages side by side in a scroll view, the last of which    *)
(* is the log-in page; a page control; and the buttons Skip and Next,      *)
(* which give way to the sign-up button on the last page.                  *)
(*                                                                         *)
(* Fingers and buttons act on the scroll view independently, and UIKit     *)
(* tells the app of a page change only when a deceleration ends.  The page *)
(* control takes touches, too, of which the app hears nothing.             *)
(***************************************************************************)
EXTENDS Integers

CONSTANT MaxOffset  \* how far Next is followed beyond the last page

VARIABLES
  offset,        \* scrollView.contentOffset.x in half pages
  moving,        \* a finger or a deceleration moves the pages
  currentPage,   \* pageController.currentPage
  nextHidden,    \* skipButton.isHidden and nextButton.isHidden
  signUpHidden   \* signUpButton.isHidden

vars == << offset, moving, currentPage, nextHidden, signUpHidden >>

LastPage == 4
PageWidth == 2
Positions == 0 .. PageWidth * LastPage

Init ==
  /\ offset = 0
  /\ moving = FALSE
  /\ currentPage = 0
  /\ nextHidden = FALSE
  /\ signUpHidden = TRUE

\* UIPageControl stays within its pages.
Clamped(page) == IF page > LastPage THEN LastPage ELSE page

Turned(page) == currentPage' = Clamped(page)

\* What didTapButton does to the buttons, and to nothing but the last page.
RevealSignUp ==
  /\ nextHidden' = (nextHidden \/ currentPage' = LastPage)
  /\ signUpHidden' = (signUpHidden /\ currentPage' # LastPage)

TapSkip ==
  /\ ~ nextHidden
  /\ offset' = PageWidth * LastPage
  /\ Turned(LastPage)
  /\ RevealSignUp
  /\ UNCHANGED moving

\* Between two pages the guard on the last one does not hold, and nothing keeps
\* the offset within the pages (MaxOffset is no guard of the code's).
TapNext ==
  /\ ~ nextHidden
  /\ offset + PageWidth <= MaxOffset
  /\ offset # PageWidth * LastPage
  /\ offset' = offset + PageWidth
  /\ Turned(currentPage + 1)
  /\ RevealSignUp
  /\ UNCHANGED moving

\* A finger moves the pages.
Drag ==
  /\ moving' = TRUE
  /\ offset' \in Positions
  /\ UNCHANGED << currentPage, nextHidden, signUpHidden >>

\* Mutant: the buttons come back only when the sign-up button is hidden.
StopAtKeepsButtons(page) ==
  /\ moving
  /\ moving' = FALSE
  /\ offset' = PageWidth * page
  /\ Turned(page)
  /\ RevealSignUp

\* scrollViewDidEndDecelerating: paging has stopped the view at a page.
StopAt(page) ==
  /\ moving
  /\ moving' = FALSE
  /\ offset' = PageWidth * page
  /\ Turned(page)
  /\ nextHidden' = (currentPage' = LastPage)
  /\ signUpHidden' = (currentPage' # LastPage)

\* The finger leaves the view exactly at a page: there is no deceleration and
\* the app hears nothing.
Release ==
  /\ moving
  /\ offset % PageWidth = 0
  /\ moving' = FALSE
  /\ UNCHANGED << offset, currentPage, nextHidden, signUpHidden >>

\* The control is enabled and has no target: a tap on it turns its dots by one,
\* and nothing else.
TapPageControl ==
  /\ currentPage' \in {currentPage - 1, currentPage + 1} \cap 0 .. LastPage
  /\ UNCHANGED << offset, moving, nextHidden, signUpHidden >>

Next ==
  \/ TapSkip \/ TapNext \/ Drag \/ Release \/ TapPageControl
  \/ \E page \in 0 .. LastPage : StopAt(page)

Spec == Init /\ [][Next]_vars

-----------------------------------------------------------------------------

\* Type correctness; the offset may pass the last page.
TypeOK ==
  /\ offset \in Nat
  /\ moving \in BOOLEAN
  /\ currentPage \in 0 .. LastPage
  /\ nextHidden \in BOOLEAN
  /\ signUpHidden \in BOOLEAN

\* The buttons are those of the page control's page.
ButtonsAgree ==
  /\ nextHidden = (currentPage = LastPage)
  /\ signUpHidden = (currentPage # LastPage)

\* Whatever fingers and taps do together, the user has either Skip and Next or
\* the sign-up button; and once these are those of the page control's page, only
\* a tap on the control itself can part them (didTapButton and
\* scrollViewDidEndDecelerating, which follow different events).  Where the
\* pages are is another matter, see Release and TapNext.
ButtonsFollowPage ==
  /\ [](nextHidden # signUpHidden)
  /\ [][ButtonsAgree => ButtonsAgree' \/ TapPageControl]_vars
=============================================================================
