-------------------------------- MODULE App --------------------------------
(***************************************************************************)
(* One device from its launch to the home screen: the tutorial leads to    *)
(* the log-in page and to the sign-up sheet, a granted log-in replaces the *)
(* window by a new one whose first tab is the home screen, and a restart   *)
(* leads back to the tutorial.                                             *)
(***************************************************************************)
EXTENDS Integers

CONSTANTS Email, Request, Photos, Heights, MaxPrepares, MaxStops, MaxOffset

\* The home screen has some number of photos, and none of negative height.
ASSUME HomeAssumption == Photos \in Nat /\ Heights \subseteq Nat

VARIABLES
  offset, moving, currentPage, nextHidden, signUpHidden,
  root, signUpScreen, accounts, profiles, requests,
  heights, cache, contentHeight, heardPage, bar, stops, plain

Pages == INSTANCE Tutorial
User == INSTANCE Session
Start == INSTANCE Home

tutorialVars == << offset, moving, currentPage, nextHidden, signUpHidden >>
sessionVars == << root, signUpScreen, accounts, profiles, requests >>
homeVars == << heights, cache, contentHeight, heardPage, bar, stops, plain >>

vars == << tutorialVars, sessionVars, homeVars >>

Init == Pages!Init /\ User!Init /\ Start!Init

-----------------------------------------------------------------------------
(* Screens are created anew, not shown again. *)

NewTutorial ==
  /\ offset' = 0
  /\ moving' = FALSE
  /\ currentPage' = 0
  /\ nextHidden' = FALSE
  /\ signUpHidden' = TRUE

\* The images in the app's bundle stay what they are.
NewHome ==
  /\ heights' = heights
  /\ cache' = << >>
  /\ contentHeight' = 0
  /\ heardPage' = 0
  /\ bar' = 0
  /\ stops' = 0
  /\ plain' = TRUE

-----------------------------------------------------------------------------
(* Steps *)

\* Under the sheet pages still come to rest, but are not touched.
PageStep ==
  /\ root = "tutorial"
  /\ IF signUpScreen THEN \E page \in 0 .. Pages!LastPage : Pages!StopAt(page) ELSE Pages!Next
  /\ UNCHANGED << sessionVars, homeVars >>

\* The sign-up button goes through didTapButton, too.
TapSignUpButton ==
  /\ ~ signUpHidden
  /\ User!OpenSignUp
  /\ UNCHANGED << offset, moving, currentPage >>
  /\ Pages!RevealSignUp
  /\ UNCHANGED homeVars

\* Not only on the last page: Google's screen also comes up when the log-in page
\* is loaded, with the tutorial; and its text field keeps the keyboard, whose
\* return key logs in, when the page is dragged away.
AskToLogIn(q, email) ==
  /\ User!TapLogIn(q, email) \/ User!TapGoogle(q, email)
  /\ UNCHANGED << tutorialVars, homeVars >>

\* The sheet, the server and its answers that change no window.
SessionStep(q) ==
  /\ \/ User!CloseSignUp
     \/ \E email \in Email : User!TapSignUp(q, email)
     \/ User!CreateAccount(q) \/ User!HandleCreated(q) \/ User!WriteProfile(q)
     \/ User!SignUpRefused(q) \/ User!SignUpFails(q) \/ User!GrantLogIn(q) \/ User!GrantGoogle(q)
     \/ User!SignInFails(q) \/ User!OrphanCreates(q) \/ User!OrphanWrites(q)
  /\ UNCHANGED << tutorialVars, homeVars >>

\* switchingView; the tutorial goes with its window, the home screen is new.
HandleLogIn(q) ==
  /\ User!HandleLogIn(q)
  /\ NewTutorial
  /\ NewHome

HomeStep ==
  /\ root = "main"
  /\ Start!Next
  /\ UNCHANGED << tutorialVars, sessionVars >>

Restart ==
  /\ User!Restart
  /\ NewTutorial
  /\ NewHome

Next ==
  \/ PageStep \/ TapSignUpButton \/ HomeStep \/ Restart
  \/ \E q \in Request :
       \/ SessionStep(q) \/ HandleLogIn(q)
       \/ \E email \in Email : AskToLogIn(q, email)

Spec == Init /\ [][Next]_vars

-----------------------------------------------------------------------------
(* What the parts promise, in the whole app.  See Tutorial, Session, Home. *)

\* Type correctness of the parts that have types to go wrong.
TypeOK == Pages!TypeOK /\ User!TypeOK

\* Skip and Next, or the sign-up button, as the page control says unless it is
\* tapped itself; windows and restarts included.
ButtonsFollowPage == Pages!ButtonsFollowPage

\* Accounts without a profile have an explanation.
AccountsExplained == User!AccountsExplained

\* The main window needs a log-in granted since the launch.
MainNeedsLogIn == User!MainNeedsLogIn

\* Every attribute of the waterfall is where its photo belongs.
PhotosInColumns == Start!PhotosInColumns

\* The bar tells the page as long as pages are turned one by one.
BarFollowsPage == Start!BarFollowsPage
=============================================================================
